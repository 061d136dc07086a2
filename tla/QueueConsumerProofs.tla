------------------------ MODULE QueueConsumerProofs ------------------------
(***************************************************************************)
(* The safety properties of the queue consumer for any number of events,    *)
(* any channel capacity, any batch sizes and any number of restarts.        *)
(***************************************************************************)
EXTENDS QueueConsumer, FiniteSetTheorems, SequenceTheorems, TLAPS

\* The resolutions the consumer has not handled yet, oldest first.
Pending == ack_batch \o acks

\* Positions whose Dropped is on its way to the consumer.
PendingDropped ==
    {p \in Positions : \E i \in 1 .. Len(Pending) :
                           Pending[i].pos = p /\ Pending[i].disp = "Dropped"}

\* The permits of the memory channel.
PermitInv ==
    /\ sent + reserved <= N
    /\ backend = "disk" => reserved = 0
    /\ ~senders => reserved = 0

\* What each place of the consumer's loop knows.
PhaseInv ==
    /\ pc = "consume" => next < taken /\ accepting
    /\ pc # "consume" => next = taken
    /\ pc = "acks" => ack_batch # <<>>
    /\ pc \notin {"acks", "post"} => ack_batch = <<>>
    /\ pc = "drain" => backend = "memory" /\ rx_closed
    /\ pc = "stopped" => acks = <<>> /\ held = {}

\* A memory queue whose consumer takes no more events has ended for good.
DrainedInv ==
    backend = "memory" /\ (~accepting \/ pc \in {"flush", "post", "stopped"}) =>
        taken = sent /\ reserved = 0 /\ (rx_closed \/ ~senders)

\* Only a disk queue wedges; a consumer that wedged in its loop stopped
\* accepting.
WedgeInv ==
    /\ ~wedged => wedge = 0
    /\ wedged => /\ backend = "disk"
                 /\ wedge \in wedges
                 /\ accepting => pc \in {"post", "stopped"}

\* The cursor and the marks stay behind what was handed over and off the
\* wedged position.
LogInv ==
    /\ cursor <= next
    /\ wedge <= next
    /\ wedged => cursor < wedge
    /\ \A p \in marked : p <= next /\ p # wedge

\* A handle that is held, or whose resolution is pending, is ahead of the
\* cursor and untouched by it.
Live(p) == cursor < p /\ p <= next /\ p \notin marked /\ p # wedge

LiveInv ==
    /\ \A p \in held : Live(p)
    /\ \A i \in 1 .. Len(Pending) : Live(Pending[i].pos)

\* Every handle is resolved once.
OnceInv ==
    /\ \A i, j \in 1 .. Len(Pending) : Pending[i].pos = Pending[j].pos => i = j
    /\ \A i \in 1 .. Len(Pending) : Pending[i].pos \notin held

\* in_flight counts the handles and resolutions, events_failed the Dropped
\* ones that were handled.
CountInv ==
    /\ in_flight = Cardinality(held) + Len(Pending)
    /\ in_flight <= next
    /\ held \cap dropped = {}
    /\ \A p \in dropped : p <= next
    /\ PendingDropped \subseteq dropped
    /\ \A i \in 1 .. Len(Pending) :
         Pending[i].disp # "Dropped" => Pending[i].pos \in safe
    /\ failed = Cardinality(dropped \ PendingDropped)

\* Whatever was acked is safe, or lies below a wedge, or lies above the one
\* of this process and is out of the cursor's reach.
HonestInv ==
    \A p \in Positions :
        p \in marked \/ p <= cursor =>
            \/ p \in safe
            \/ \E w \in wedges : p < w
            \/ wedged /\ wedge < p

\* What is known of positions and resolutions, and of the program's phases.
DataInv == LogInv /\ LiveInv /\ OnceInv /\ CountInv /\ HonestInv

PhasesInv == PermitInv /\ PhaseInv /\ DrainedInv /\ WedgeInv

\* The inductive invariant.
IInv == TypeOK /\ PhasesInv /\ DataInv

-----------------------------------------------------------------------------
(* How the pending resolutions change. *)

USE QueueConsumerAssumption

\* Pending is a sequence of resolutions.
LEMMA PendingType ==
    ASSUME TypeOK
    PROVE  /\ acks \in Seq(Resolution) /\ ack_batch \in Seq(Resolution)
           /\ Len(acks) \in Nat /\ Len(ack_batch) \in Nat
           /\ Pending \in Seq(Resolution)
           /\ Len(Pending) = Len(ack_batch) + Len(acks)
           /\ Len(Pending) \in Nat
           /\ \A i \in 1 .. Len(Pending) :
                /\ Pending[i] \in Resolution
                /\ Pending[i].pos \in Positions
                /\ Pending[i].disp \in Dispositions
<1>1. acks \in Seq(Resolution) /\ ack_batch \in Seq(Resolution)
  BY DEF TypeOK
<1>2. Len(acks) \in Nat /\ Len(ack_batch) \in Nat
  BY <1>1, LenProperties
<1>3. /\ Pending \in Seq(Resolution)
      /\ Len(Pending) = Len(ack_batch) + Len(acks)
  BY <1>1, ConcatProperties DEF Pending
<1>4. \A i \in 1 .. Len(Pending) : Pending[i] \in Resolution
  BY <1>3, ElementOfSeq
<1> QED
  BY <1>1, <1>2, <1>3, <1>4 DEF Resolution

\* TakeAcks moves a prefix of the channel into an empty batch: nothing is
\* lost or reordered.
LEMMA PendingTaken ==
    ASSUME TypeOK, ack_batch = <<>>, TakeAcks
    PROVE  /\ Pending' = Pending
           /\ ack_batch' \in Seq(Resolution) /\ acks' \in Seq(Resolution)
           /\ ack_batch' # <<>>
<1> DEFINE n == IF Len(acks) < AckBatchMax THEN Len(acks) ELSE AckBatchMax
<1>1. /\ acks \in Seq(Resolution) /\ Len(acks) \in Nat
      /\ \A i \in 1 .. Len(acks) : acks[i] \in Resolution
  BY PendingType, ElementOfSeq
<1>2. Len(acks) # 0
  BY <1>1, EmptySeq DEF TakeAcks
<1>3. n \in 1 .. Len(acks)
  BY <1>1, <1>2
<1>4. ack_batch' = SubSeq(acks, 1, n) /\ acks' = SubSeq(acks, n + 1, Len(acks))
  BY DEF TakeAcks
<1> HIDE DEF n
<1>5. ack_batch' \in Seq(Resolution) /\ Len(ack_batch') = n
  <2>1. \A i \in 1 .. n : acks[i] \in Resolution
    BY <1>1, <1>3
  <2> QED
    BY <1>3, <1>4, <2>1, SubSeqProperties
<1>6. acks' \in Seq(Resolution)
  <2>1. \A i \in n + 1 .. Len(acks) : acks[i] \in Resolution
    BY <1>1, <1>3
  <2> QED
    BY <1>1, <1>3, <1>4, <2>1, SubSeqProperties
<1>7. ack_batch' # <<>>
  BY <1>3, <1>5, EmptySeq
<1>8. SubSeq(acks, 1, n) \o SubSeq(acks, n + 1, Len(acks)) = acks
  <2>1. SubSeq(acks, 1, n) \o SubSeq(acks, n + 1, Len(acks))
          = SubSeq(acks, 1, Len(acks))
    BY <1>1, <1>3, ConcatAdjacentSubSeq
  <2> QED
    BY <1>1, <2>1, SubSeqFull
<1>9. Pending = acks
  BY <1>1, ConcatEmptySeq DEF Pending
<1> QED
  BY <1>4, <1>5, <1>6, <1>7, <1>8, <1>9 DEF Pending

\* Handling the head of the batch removes the oldest pending resolution.
LEMMA PendingHandled ==
    ASSUME TypeOK, ack_batch # <<>>,
           ack_batch' = Tail(ack_batch), acks' = acks
    PROVE  /\ Len(Pending) > 0
           /\ Head(ack_batch) = Pending[1]
           /\ ack_batch' \in Seq(Resolution)
           /\ Len(ack_batch') = Len(ack_batch) - 1
           /\ Len(Pending') = Len(Pending) - 1
           /\ \A i \in 1 .. Len(Pending') : Pending'[i] = Pending[i + 1]
<1>1. /\ acks \in Seq(Resolution) /\ ack_batch \in Seq(Resolution)
      /\ Len(acks) \in Nat /\ Len(ack_batch) \in Nat
      /\ Len(Pending) = Len(ack_batch) + Len(acks)
  BY PendingType
<1>2. Len(ack_batch) > 0
  BY <1>1, EmptySeq
<1>3. /\ ack_batch' \in Seq(Resolution)
      /\ Len(ack_batch') = Len(ack_batch) - 1
      /\ \A i \in 1 .. Len(ack_batch') : ack_batch'[i] = ack_batch[i + 1]
  BY <1>1, HeadTailProperties
<1>4. \A i \in 1 .. Len(ack_batch) + Len(acks) :
         Pending[i] = IF i <= Len(ack_batch) THEN ack_batch[i]
                                             ELSE acks[i - Len(ack_batch)]
  BY <1>1, ConcatProperties DEF Pending
<1>5. /\ Len(Pending') = Len(ack_batch') + Len(acks)
      /\ \A i \in 1 .. Len(ack_batch') + Len(acks) :
           Pending'[i] = IF i <= Len(ack_batch') THEN ack_batch'[i]
                                                 ELSE acks[i - Len(ack_batch')]
  BY <1>1, <1>3, ConcatProperties DEF Pending
<1>6. Head(ack_batch) = ack_batch[1]
  BY <1>1, <1>2
<1>7. Pending[1] = ack_batch[1]
  BY <1>1, <1>2, <1>4
<1>8. ASSUME NEW i \in 1 .. Len(Pending')
      PROVE  Pending'[i] = Pending[i + 1]
  <2>1. CASE i <= Len(ack_batch')
    BY <1>1, <1>2, <1>3, <1>4, <1>5, <1>8, <2>1
  <2>2. CASE ~(i <= Len(ack_batch'))
    <3>1. Pending'[i] = acks[i - Len(ack_batch')]
      BY <1>1, <1>3, <1>5, <1>8, <2>2
    <3>2. Pending[i + 1] = acks[(i + 1) - Len(ack_batch)]
      BY <1>1, <1>2, <1>3, <1>4, <1>5, <1>8, <2>2
    <3>3. (i + 1) - Len(ack_batch) = i - Len(ack_batch')
      BY <1>1, <1>3, <1>5, <1>8
    <3> QED
      BY <3>1, <3>2, <3>3
  <2> QED
    BY <2>1, <2>2
<1> QED
  BY <1>1, <1>2, <1>3, <1>5, <1>6, <1>7, <1>8

\* A resolved handle is the youngest pending resolution.
LEMMA PendingResolved ==
    ASSUME TypeOK, NEW r \in Resolution,
           acks' = Append(acks, r), ack_batch' = ack_batch
    PROVE  /\ acks' \in Seq(Resolution)
           /\ Len(acks') = Len(acks) + 1
           /\ Len(Pending') = Len(Pending) + 1
           /\ \A i \in 1 .. Len(Pending) : Pending'[i] = Pending[i]
           /\ Pending'[Len(Pending) + 1] = r
<1>1. /\ acks \in Seq(Resolution) /\ ack_batch \in Seq(Resolution)
      /\ Len(acks) \in Nat /\ Len(ack_batch) \in Nat
      /\ Len(Pending) = Len(ack_batch) + Len(acks)
  BY PendingType
<1>2. acks' \in Seq(Resolution) /\ Len(acks') = Len(acks) + 1
  BY <1>1, AppendProperties
<1>3. Pending \in Seq(Resolution)
  BY PendingType
<1>4. Pending' = Append(Pending, r)
  <2>1. Append(acks, r) = acks \o <<r>>
    BY <1>1, AppendIsConcat
  <2>2. Append(ack_batch \o acks, r) = (ack_batch \o acks) \o <<r>>
    BY <1>3, AppendIsConcat DEF Pending
  <2>3. (ack_batch \o acks) \o <<r>> = ack_batch \o (acks \o <<r>>)
    BY <1>1, ConcatAssociative
  <2> QED
    BY <2>1, <2>2, <2>3 DEF Pending
<1> QED
  BY <1>2, <1>3, <1>4, AppendProperties

-----------------------------------------------------------------------------
(* What each kind of step does to the positions and resolutions. *)

\* A step that touches none of them keeps what is known of them.
LEMMA DataFrame ==
    ASSUME DataInv, Pending' = Pending,
           UNCHANGED <<marked, cursor, next, in_flight, held, failed, wedged,
                       wedge, wedges, dropped, safe>>
    PROVE  DataInv'
<1>1. PendingDropped' = PendingDropped
  BY DEF PendingDropped
<1> QED
  BY <1>1 DEF DataInv, LogInv, LiveInv, Live, OnceInv, CountInv, HonestInv

\* Sets of positions are finite.
LEMMA FinitePositions ==
    ASSUME NEW S \in SUBSET Positions
    PROVE  IsFiniteSet(S) /\ Cardinality(S) \in Nat
<1>1. IsFiniteSet(Positions)
  BY FS_Interval DEF Positions
<1> QED
  BY <1>1, FS_Subset, FS_CardinalityType

\* The next event goes to the output: its position is new.
LEMMA DataHandOver ==
    ASSUME TypeOK, DataInv, HandOver, next < N,
           UNCHANGED <<marked, cursor, failed, wedged, wedge, wedges, dropped,
                       safe, ack_batch, acks>>
    PROVE  DataInv' /\ held' \in SUBSET Positions /\ in_flight' \in 0 .. N
<1>1. /\ next \in 0 .. N /\ held \in SUBSET Positions /\ dropped \in SUBSET Positions
      /\ cursor \in 0 .. N /\ wedge \in 0 .. N /\ in_flight \in 0 .. N
      /\ marked \in SUBSET Positions
  BY DEF TypeOK
<1>2. /\ next' = next + 1 /\ held' = held \cup {next + 1}
      /\ in_flight' = in_flight + 1
  BY DEF HandOver
<1>3. Pending' = Pending /\ PendingDropped' = PendingDropped
  BY DEF Pending, PendingDropped
<1>4. \A i \in 1 .. Len(Pending) : Pending[i].pos \in Positions /\ Len(Pending) \in Nat
  BY PendingType
<1>5. next + 1 \notin held /\ next + 1 \notin dropped /\ next + 1 \notin marked
  BY <1>1 DEF DataInv, LogInv, LiveInv, Live, CountInv, Positions
<1>6. Cardinality(held') = Cardinality(held) + 1
  BY <1>1, <1>2, <1>5, FinitePositions, FS_AddElement
<1>7. held' \in SUBSET Positions
  BY <1>1, <1>2 DEF Positions
<1>8. LogInv'
  BY <1>1, <1>2 DEF DataInv, LogInv, Positions
<1>9. LiveInv'
  BY <1>1, <1>2, <1>3, <1>4, <1>5 DEF DataInv, LogInv, LiveInv, Live, Positions
<1>10. OnceInv'
  BY <1>1, <1>2, <1>3, <1>4 DEF DataInv, OnceInv, LiveInv, Live, Positions
<1>11. CountInv' /\ in_flight' \in 0 .. N
  <2>1. Len(Pending) \in Nat /\ Cardinality(held) \in Nat
    BY <1>1, PendingType, FinitePositions
  <2>2. in_flight' = Cardinality(held') + Len(Pending') /\ in_flight' <= next'
    BY <1>1, <1>2, <1>3, <1>6, <2>1 DEF DataInv, CountInv
  <2>3. held' \cap dropped' = {}
    BY <1>2, <1>5 DEF DataInv, CountInv
  <2>4. \A q \in dropped' : q <= next'
    BY <1>1, <1>2 DEF DataInv, CountInv, Positions
  <2>5. in_flight' \in 0 .. N
    BY <1>1, <1>2, <2>2
  <2> QED
    BY <1>3, <2>2, <2>3, <2>4, <2>5 DEF DataInv, CountInv
<1>12. HonestInv'
  BY DEF DataInv, HonestInv
<1> QED
  BY <1>7, <1>8, <1>9, <1>10, <1>11, <1>12 DEF DataInv

\* The output resolves a handle it holds: the resolution is the only one of
\* its position.
LEMMA DataResolve ==
    ASSUME TypeOK, DataInv, NEW p \in held, NEW d \in Dispositions, Resolve(p, d)
    PROVE  /\ DataInv'
           /\ held' \in SUBSET Positions /\ acks' \in Seq(Resolution)
           /\ dropped' \in SUBSET Positions /\ safe' \in SUBSET Positions
<1> DEFINE r == [pos |-> p, disp |-> d]
<1>1. /\ held \in SUBSET Positions /\ dropped \in SUBSET Positions
      /\ safe \in SUBSET Positions /\ p \in Positions
  BY DEF TypeOK
<1>2. r \in Resolution /\ r.pos = p /\ r.disp = d
  BY <1>1 DEF Resolution
<1>3. /\ held' = held \ {p} /\ acks' = Append(acks, r) /\ ack_batch' = ack_batch
      /\ UNCHANGED <<marked, cursor, next, in_flight, failed, wedged, wedge, wedges>>
      /\ dropped' = IF d = "Dropped" THEN dropped \cup {p} ELSE dropped
      /\ safe' = IF d = "Dropped" THEN safe ELSE safe \cup {p}
  BY DEF Resolve, log, flags
<1> HIDE DEF r
<1>4. /\ acks' \in Seq(Resolution)
      /\ Len(Pending') = Len(Pending) + 1
      /\ \A i \in 1 .. Len(Pending) : Pending'[i] = Pending[i]
      /\ Pending'[Len(Pending) + 1] = r
  BY <1>2, <1>3, PendingResolved
<1>5. Len(Pending) \in Nat /\ \A i \in 1 .. Len(Pending) : Pending[i].pos \in Positions
  BY PendingType
<1>6. \A i \in 1 .. Len(Pending') :
         \/ i \in 1 .. Len(Pending) /\ Pending'[i] = Pending[i]
         \/ i = Len(Pending) + 1 /\ Pending'[i] = r
  <2>1. \A i \in 1 .. Len(Pending') :
           i \in 1 .. Len(Pending) \/ i = Len(Pending) + 1
    BY <1>4, <1>5
  <2> QED
    BY <1>4, <2>1
<1>7. LogInv'
  BY <1>3 DEF DataInv, LogInv
<1>8. LiveInv'
  BY <1>2, <1>3, <1>6 DEF DataInv, LiveInv, Live
<1>9. OnceInv'
  BY <1>2, <1>3, <1>6 DEF DataInv, OnceInv
<1>10. PendingDropped' = PendingDropped \cup (IF d = "Dropped" THEN {p} ELSE {})
  <2>1. ASSUME NEW q \in PendingDropped' 
        PROVE  q \in PendingDropped \/ (q = p /\ d = "Dropped")
    BY <1>2, <1>6, <2>1 DEF PendingDropped
  <2>2. ASSUME NEW q \in PendingDropped PROVE q \in PendingDropped'
    BY <1>4, <1>5, <2>2 DEF PendingDropped
  <2>3. d = "Dropped" => p \in PendingDropped'
    <3>1. Len(Pending) + 1 \in 1 .. Len(Pending')
      BY <1>4, <1>5
    <3> QED
      BY <1>1, <1>2, <1>4, <3>1 DEF PendingDropped
  <2> QED
    BY <2>1, <2>2, <2>3
<1>11. CountInv'
  <2>1. Cardinality(held') = Cardinality(held) - 1 /\ Cardinality(held) \in Nat
    BY <1>1, <1>3, FinitePositions, FS_RemoveElement
  <2>2. in_flight' = Cardinality(held') + Len(Pending') /\ in_flight' <= next'
    BY <1>3, <1>4, <1>5, <2>1 DEF DataInv, CountInv
  <2>3. held' \cap dropped' = {}
    BY <1>3 DEF DataInv, CountInv
  <2>4. \A q \in dropped' : q <= next'
    BY <1>3 DEF DataInv, CountInv, LiveInv, Live
  <2>5. PendingDropped' \subseteq dropped'
    BY <1>3, <1>10 DEF DataInv, CountInv
  <2>6. \A i \in 1 .. Len(Pending') :
          Pending'[i].disp # "Dropped" => Pending'[i].pos \in safe'
    BY <1>2, <1>3, <1>6 DEF DataInv, CountInv
  <2>7. dropped' \ PendingDropped' = dropped \ PendingDropped
    <3>1. p \notin dropped
      BY DEF DataInv, CountInv
    <3> QED
      BY <1>3, <1>10, <3>1
  <2> QED
    BY <1>3, <2>2, <2>3, <2>4, <2>5, <2>6, <2>7 DEF DataInv, CountInv
<1>12. HonestInv'
  BY <1>3 DEF DataInv, HonestInv
<1> QED
  BY <1>1, <1>3, <1>4, <1>7, <1>8, <1>9, <1>11, <1>12 DEF DataInv

\* ack_to moves the cursor over marked positions only, and never beyond what
\* was handed to the output.
LEMMA AckToAdvances ==
    ASSUME TypeOK, LogInv, NEW p \in Positions, p <= next, AckTo(p)
    PROVE  /\ marked' \in SUBSET Positions
           /\ marked' \subseteq marked \cup {p}
           /\ cursor' \in 0 .. N /\ cursor <= cursor' /\ cursor' <= next
           /\ \A q \in Positions : q <= cursor' => q <= cursor \/ q \in marked'
<1>1. /\ cursor \in 0 .. N /\ sent \in 0 .. N /\ next \in 0 .. N
      /\ marked \in SUBSET Positions
  BY DEF TypeOK
<1>2. CASE backend = "memory" /\ UNCHANGED log
  BY <1>1, <1>2 DEF log, LogInv
<1>3. ASSUME marked' = marked \cup {p},
             NEW c \in cursor .. sent,
             \A q \in cursor + 1 .. c : q \in marked',
             cursor' = c
      PROVE  /\ cursor' \in 0 .. N /\ cursor <= cursor' /\ cursor' <= next
             /\ \A q \in Positions : q <= cursor' => q <= cursor \/ q \in marked'
  <2>1. c = cursor \/ c \in marked'
    BY <1>1, <1>3
  <2>2. c <= next
    BY <1>1, <1>3, <2>1 DEF LogInv
  <2> QED
    BY <1>1, <1>3, <2>2 DEF Positions
<1> QED
  BY <1>1, <1>2, <1>3 DEF AckTo

\* The consumer handles the oldest pending resolution: a Dropped on disk is
\* recorded and left unmarked, anything else, and on a wedged queue a later
\* Dropped too, may go to ack_to.
LEMMA DataHandled ==
    ASSUME TypeOK, WedgeInv, DataInv, NEW r, Len(Pending) > 0, r = Pending[1],
           Len(Pending') = Len(Pending) - 1,
           \A i \in 1 .. Len(Pending') : Pending'[i] = Pending[i + 1],
           CountDropped(r), RecordWedge(r),
           \/ DroppedOnDisk(r) /\ UNCHANGED log
           \/ ~(DroppedOnDisk(r) /\ ~wedged) /\ AckTo(r.pos),
           in_flight' = in_flight - 1,
           UNCHANGED <<backend, next, held, dropped, safe>>
    PROVE  /\ DataInv'
           /\ in_flight' \in 0 .. N /\ failed' \in Nat
           /\ marked' \in SUBSET Positions /\ cursor' \in 0 .. N
           /\ wedge' \in 0 .. N /\ wedges' \in SUBSET Positions
           /\ wedged' \in BOOLEAN
<1>1. /\ cursor \in 0 .. N /\ next \in 0 .. N /\ wedge \in 0 .. N
      /\ marked \in SUBSET Positions /\ held \in SUBSET Positions
      /\ dropped \in SUBSET Positions /\ wedges \in SUBSET Positions
      /\ in_flight \in 0 .. N /\ failed \in Nat /\ wedged \in BOOLEAN
      /\ backend \in {"memory", "disk"}
  BY DEF TypeOK
<1>2. /\ Len(Pending) \in Nat
      /\ \A i \in 1 .. Len(Pending) :
           Pending[i].pos \in Positions /\ Pending[i].disp \in Dispositions
  BY PendingType
<1>3. r.pos \in Positions /\ r.disp \in Dispositions
  BY <1>2
<1>4. Live(r.pos) /\ r.pos \notin held
  BY <1>2 DEF DataInv, LiveInv, OnceInv
<1>5. \A i \in 1 .. Len(Pending') :
         /\ i + 1 \in 1 .. Len(Pending) /\ i + 1 # 1
         /\ Pending'[i] = Pending[i + 1]
  BY <1>2
<1>6. \A i \in 1 .. Len(Pending') : Pending'[i].pos # r.pos
  <2>1. 1 \in 1 .. Len(Pending)
    BY <1>2
  <2> QED
    BY <1>5, <2>1 DEF DataInv, OnceInv
<1>7. /\ marked' \in SUBSET Positions
      /\ marked' \subseteq marked \cup {r.pos}
      /\ cursor' \in 0 .. N /\ cursor <= cursor' /\ cursor' <= next
      /\ \A q \in Positions : q <= cursor' => q <= cursor \/ q \in marked'
  <2>1. CASE DroppedOnDisk(r) /\ UNCHANGED log
    BY <1>1, <2>1 DEF log, DataInv, LogInv
  <2>2. CASE AckTo(r.pos)
    BY <1>3, <1>4, <2>2, AckToAdvances DEF DataInv, Live
  <2> QED
    BY <2>1, <2>2
<1>8. \/ /\ DroppedOnDisk(r) /\ ~wedged /\ UNCHANGED <<marked, cursor>>
         /\ wedged' = TRUE /\ wedge' = r.pos /\ wedges' = wedges \cup {r.pos}
      \/ /\ ~(DroppedOnDisk(r) /\ ~wedged)
         /\ UNCHANGED <<wedged, wedge, wedges>>
  BY DEF RecordWedge, log
<1>9. \A q \in Positions :
         Live(q) /\ q # r.pos => q \notin marked' /\ q # wedge' /\ cursor' < q
  BY <1>1, <1>7, <1>8 DEF Live, Positions
<1>10. /\ wedge' \in 0 .. N /\ wedges' \in SUBSET Positions /\ wedged' \in BOOLEAN
       /\ wedges \subseteq wedges'
  <2>1. wedged' \in BOOLEAN
    BY <1>1, <1>8, Zenon
  <2>2. wedge' = wedge \/ wedge' = r.pos
    BY <1>8
  <2>3. wedges' = wedges \/ wedges' = wedges \cup {r.pos}
    BY <1>8
  <2>4. wedge' \in 0 .. N
    BY <1>1, <1>3, <2>2 DEF Positions
  <2>5. wedges' \in SUBSET Positions /\ wedges \subseteq wedges'
    BY <1>1, <1>3, <2>3
  <2> QED
    BY <2>1, <2>4, <2>5, Zenon
<1>11. LogInv'
  <2>1. cursor' <= next' /\ wedge' <= next'
    BY <1>1, <1>4, <1>7, <1>8 DEF DataInv, LogInv, Live
  <2>2. \A q \in marked' : q <= next' /\ q # wedge'
    BY <1>1, <1>4, <1>7, <1>8 DEF DataInv, LogInv, Live
  <2>3. wedged' => cursor' < wedge'
    <3>1. CASE DroppedOnDisk(r) /\ ~wedged
      BY <1>4, <1>8, <3>1 DEF Live
    <3>2. CASE ~(DroppedOnDisk(r) /\ ~wedged) /\ wedged
      <4>1. wedge' = wedge /\ cursor < wedge /\ wedge \in Positions
        BY <1>1, <1>8, <3>2 DEF DataInv, LogInv, Positions
      <4>2. wedge \notin marked'
        BY <1>4, <1>7, <4>1 DEF DataInv, LogInv, Live
      <4> QED
        BY <1>1, <1>7, <4>1, <4>2 DEF Positions
    <3> QED
      BY <1>1, <1>8, <3>1, <3>2
  <2> QED
    BY <2>1, <2>2, <2>3 DEF LogInv
<1>12. LiveInv'
  <2>1. \A q \in held' : Live(q) /\ q # r.pos /\ q \in Positions
    BY <1>1, <1>4 DEF DataInv, LiveInv
  <2>2. \A i \in 1 .. Len(Pending') :
          /\ Live(Pending'[i].pos) /\ Pending'[i].pos # r.pos
          /\ Pending'[i].pos \in Positions
    BY <1>2, <1>5, <1>6 DEF DataInv, LiveInv
  <2>3. \A q \in Positions : Live(q) /\ q # r.pos => Live(q)'
    BY <1>9 DEF Live
  <2> QED
    BY <2>1, <2>2, <2>3 DEF LiveInv
<1>13. OnceInv'
  <2>1. \A i \in 1 .. Len(Pending') : Pending'[i].pos \notin held'
    BY <1>5 DEF DataInv, OnceInv
  <2>2. ASSUME NEW i \in 1 .. Len(Pending'), NEW j \in 1 .. Len(Pending'),
               Pending'[i].pos = Pending'[j].pos
        PROVE  i = j
    <3>1. i + 1 = j + 1
      BY <1>5, <2>2 DEF DataInv, OnceInv
    <3> QED
      BY <3>1
  <2> QED
    BY <2>1, <2>2 DEF OnceInv
<1>14. PendingDropped' = PendingDropped \ {r.pos}
  <2>1. ASSUME NEW q \in PendingDropped' PROVE q \in PendingDropped /\ q # r.pos
    BY <1>5, <1>6, <2>1 DEF PendingDropped
  <2>2. ASSUME NEW q \in PendingDropped, q # r.pos PROVE q \in PendingDropped'
    <3>1. PICK i \in 1 .. Len(Pending) : Pending[i].pos = q /\ Pending[i].disp = "Dropped"
      BY <2>2 DEF PendingDropped
    <3>2. i # 1
      BY <2>2, <3>1
    <3>3. i - 1 \in 1 .. Len(Pending') /\ (i - 1) + 1 = i
      BY <1>2, <3>1, <3>2
    <3>4. Pending'[i - 1] = Pending[i]
      BY <1>5, <3>3
    <3> QED
      BY <2>2, <3>1, <3>3, <3>4 DEF PendingDropped
  <2> QED
    BY <2>1, <2>2
<1>15. r.disp = "Dropped" <=> r.pos \in PendingDropped
  <2>1. 1 \in 1 .. Len(Pending)
    BY <1>2
  <2>2. ASSUME r.pos \in PendingDropped PROVE r.disp = "Dropped"
    <3>1. PICK i \in 1 .. Len(Pending) :
             Pending[i].pos = r.pos /\ Pending[i].disp = "Dropped"
      BY <2>2 DEF PendingDropped
    <3>2. i = 1
      BY <2>1, <3>1 DEF DataInv, OnceInv
    <3> QED
      BY <3>1, <3>2
  <2> QED
    BY <1>3, <2>1, <2>2 DEF PendingDropped
<1>16. CountInv' /\ failed' \in Nat /\ in_flight' \in 0 .. N
  <2>1. Cardinality(held) \in Nat
    BY <1>1, FinitePositions
  <2>2. in_flight' = Cardinality(held') + Len(Pending') /\ in_flight' <= next'
    BY <1>1, <1>2, <2>1 DEF DataInv, CountInv
  <2>3. in_flight' \in 0 .. N
    BY <1>1, <1>2, <2>1, <2>2
  <2>4. PendingDropped' \subseteq dropped' /\ PendingDropped \subseteq dropped
    BY <1>14 DEF DataInv, CountInv
  <2>5. \A i \in 1 .. Len(Pending') :
          Pending'[i].disp # "Dropped" => Pending'[i].pos \in safe'
    BY <1>5 DEF DataInv, CountInv
  <2>6. failed' = Cardinality(dropped' \ PendingDropped')
    <3>1. CASE r.disp = "Dropped"
      <4>1. dropped' \ PendingDropped' = (dropped \ PendingDropped) \cup {r.pos}
        BY <1>14, <1>15, <2>4, <3>1
      <4>2. r.pos \notin dropped \ PendingDropped
        BY <1>15, <3>1
      <4>3. Cardinality(dropped' \ PendingDropped')
              = Cardinality(dropped \ PendingDropped) + 1
        BY <1>1, <4>1, <4>2, FinitePositions, FS_AddElement
      <4> QED
        BY <1>1, <3>1, <4>3 DEF DataInv, CountInv, CountDropped
    <3>2. CASE r.disp # "Dropped"
      <4>1. dropped' \ PendingDropped' = dropped \ PendingDropped
        BY <1>14, <1>15, <3>2
      <4>2. failed' = failed
        BY <1>1, <3>2 DEF CountDropped
      <4> QED
        BY <4>1, <4>2 DEF DataInv, CountInv
    <3> QED
      BY <3>1, <3>2
  <2>7. failed' \in Nat
    BY <1>1 DEF CountDropped
  <2> QED
    BY <2>2, <2>3, <2>4, <2>5, <2>6, <2>7 DEF DataInv, CountInv
<1>17. HonestInv'
  <2> SUFFICES ASSUME NEW q \in Positions, q \in marked' \/ q <= cursor'
               PROVE  \/ q \in safe'
                      \/ \E w \in wedges' : q < w
                      \/ wedged' /\ wedge' < q
    BY DEF HonestInv
  <2>1. q \in marked \/ q <= cursor \/ (q = r.pos /\ marked' # marked)
    BY <1>7
  <2>2. CASE q \in marked \/ q <= cursor
    <3>1. \/ q \in safe \/ \E w \in wedges : q < w
          \/ wedged /\ wedge < q
      BY <2>2 DEF DataInv, HonestInv
    <3>2. wedged => wedged' /\ wedge' = wedge
      BY <1>8
    <3> QED
      BY <1>10, <3>1, <3>2
  <2>3. CASE q = r.pos /\ marked' # marked
    <3>1. ~(DroppedOnDisk(r) /\ ~wedged) /\ AckTo(r.pos)
      BY <2>3 DEF log
    <3>2. backend = "disk"
      BY <2>3, <3>1 DEF AckTo, log
    <3>3. CASE r.disp # "Dropped"
      BY <1>2, <2>3, <3>3 DEF DataInv, CountInv
    <3>4. CASE wedged
      <4>1. wedged' = wedged /\ wedge' = wedge /\ wedge \in wedges'
        BY <1>8, <1>10, <3>4 DEF WedgeInv
      <4>2. q # wedge
        BY <1>4, <2>3 DEF Live
      <4>3. q < wedge \/ wedge < q
        BY <1>1, <4>2 DEF Positions
      <4> QED
        BY <3>4, <4>1, <4>3
    <3> QED
      BY <3>1, <3>2, <3>3, <3>4 DEF DroppedOnDisk
  <2> QED
    BY <2>1, <2>2, <2>3
<1> QED
  BY <1>7, <1>10, <1>11, <1>12, <1>13, <1>16, <1>17 DEF DataInv

-----------------------------------------------------------------------------
(* The inductive invariant. *)

\* It holds when the daemon starts with an empty queue.
LEMMA InitInv == Init => IInv
<1> SUFFICES ASSUME Init PROVE IInv
  OBVIOUS
<1>1. TypeOK
  <2>1. <<>> \in Seq(Resolution)
    BY EmptySeq
  <2>2. /\ sent \in 0 .. N /\ reserved \in 0 .. Capacity /\ taken \in 0 .. sent
        /\ next \in 0 .. taken /\ cursor \in 0 .. N /\ in_flight \in 0 .. N
        /\ wedge \in 0 .. N /\ failed \in Nat /\ crashes \in Nat
    BY DEF Init
  <2> QED
    BY <2>1, <2>2, Zenon DEF Init, TypeOK
<1>2. PhasesInv
  BY DEF Init, PhasesInv, PermitInv, PhaseInv, DrainedInv, WedgeInv
<1>3. Pending = <<>> /\ Len(Pending) = 0
  BY ConcatEmptySeq, EmptySeq DEF Init, Pending
<1>4. LogInv /\ LiveInv /\ OnceInv /\ HonestInv
  BY <1>3 DEF Init, LogInv, LiveInv, OnceInv, HonestInv, Positions
<1>5. CountInv
  BY <1>3, FS_EmptySet DEF Init, CountInv, PendingDropped
<1> QED
  BY <1>1, <1>2, <1>4, <1>5 DEF IInv, DataInv

\* The steps of the pipelines: they add to the queue or leave it.
LEMMA PipelinesStep ==
    ASSUME IInv, Pipelines PROVE IInv'
<1>1. UNCHANGED <<marked, cursor, next, in_flight, held, failed, wedged, wedge,
                  wedges, dropped, safe, pc, accepting, ack_batch, acks, shutdown,
                  crashes, backend, rx_closed, taken>>
  BY DEF Pipelines, Reserve, Commit, SendDisk, DropSenders, log, flags, history
<1>2. DataInv'
  <2>1. Pending' = Pending
    BY <1>1 DEF Pending
  <2> QED
    BY <1>1, <2>1, DataFrame DEF IInv
<1>3. \/ reserved' = reserved + 1 /\ UNCHANGED <<sent, senders>> /\ Reserve
      \/ /\ reserved > 0 /\ reserved' = reserved - 1
         /\ sent' = sent + 1 /\ UNCHANGED senders
      \/ /\ backend = "disk" /\ sent < N
         /\ reserved' = reserved /\ sent' = sent + 1 /\ UNCHANGED senders
      \/ UNCHANGED <<sent, reserved>> /\ senders' = FALSE /\ reserved = 0
  BY DEF Pipelines, Reserve, Commit, SendDisk, DropSenders
<1>4. TypeOK'
  <2>1. sent' \in 0 .. N /\ reserved' \in 0 .. Capacity /\ taken' \in 0 .. sent'
    BY <1>1, <1>3 DEF IInv, TypeOK, PhasesInv, PermitInv, Reserve
  <2>2. senders' \in BOOLEAN
    BY <1>3 DEF IInv, TypeOK
  <2> QED
    BY <1>1, <2>1, <2>2 DEF IInv, TypeOK
<1>5. PermitInv'
  BY <1>1, <1>3 DEF IInv, TypeOK, PhasesInv, PermitInv, Reserve
<1>6. PhaseInv' /\ WedgeInv'
  BY <1>1 DEF IInv, PhasesInv, PhaseInv, WedgeInv
<1>7. DrainedInv'
  BY <1>1, <1>3 DEF IInv, TypeOK, PhasesInv, DrainedInv, PermitInv, Reserve
<1> QED
  BY <1>2, <1>4, <1>5, <1>6, <1>7 DEF IInv, PhasesInv

\* A resolution changes the output's handles and the channel only.
LEMMA OutputStep ==
    ASSUME IInv, Output PROVE IInv'
<1>1. PICK p \in held, d \in Dispositions : Resolve(p, d)
  BY DEF Output
<1>2. /\ DataInv'
      /\ held' \in SUBSET Positions /\ acks' \in Seq(Resolution)
      /\ dropped' \in SUBSET Positions /\ safe' \in SUBSET Positions
  BY <1>1, DataResolve DEF IInv
<1>3. UNCHANGED <<marked, cursor, next, in_flight, failed, wedged, wedge,
                  wedges, pc, accepting, ack_batch, shutdown,
                  crashes, backend, rx_closed, taken, sent, reserved, senders>>
  BY <1>1 DEF Resolve, queue, log, flags
<1>4. TypeOK'
  BY <1>2, <1>3 DEF IInv, TypeOK
<1>5. pc # "stopped"
  BY <1>1 DEF IInv, PhasesInv, PhaseInv
<1>6. PhasesInv'
  BY <1>3, <1>5 DEF IInv, PhasesInv, PermitInv, PhaseInv, DrainedInv, WedgeInv
<1> QED
  BY <1>2, <1>4, <1>6 DEF IInv

\* The steps of the consumer that move it between its phases without taking
\* or settling anything.
LEMMA PhaseStep ==
    ASSUME IInv, RequestShutdown \/ Shutdown \/ QueueClosed \/ FlushReturns \/ Stop
    PROVE  IInv'
<1>1. UNCHANGED <<marked, cursor, next, in_flight, held, failed, wedged, wedge,
                  wedges, dropped, safe, ack_batch, acks, crashes, backend, taken,
                  sent, reserved, senders>>
  BY DEF RequestShutdown, Shutdown, QueueClosed, FlushReturns, Stop, queue, log,
         flags, history
<1>2. DataInv'
  <2>1. Pending' = Pending
    BY <1>1 DEF Pending
  <2> QED
    BY <1>1, <2>1, DataFrame DEF IInv
<1>3. CASE RequestShutdown
  <2>1. UNCHANGED <<pc, accepting, rx_closed>> /\ shutdown' = TRUE
    BY <1>3 DEF RequestShutdown, queue, flags
  <2>2. TypeOK'
    BY <1>1, <2>1 DEF IInv, TypeOK
  <2>3. PhasesInv'
    BY <1>1, <2>1 DEF IInv, PhasesInv, PermitInv, PhaseInv, DrainedInv, WedgeInv
  <2> QED
    BY <1>2, <2>2, <2>3 DEF IInv
<1>4. CASE Shutdown
  <2>1. /\ UNCHANGED <<accepting, shutdown>> /\ pc = "select"
        /\ \/ /\ ~wedged /\ backend = "memory" /\ accepting
              /\ rx_closed' = TRUE /\ pc' = "drain"
           \/ /\ wedged \/ backend = "disk"
              /\ pc' = "flush" /\ UNCHANGED rx_closed
    BY <1>4 DEF Shutdown, ShutdownReady, flags
  <2>2. TypeOK'
    BY <1>1, <2>1 DEF IInv, TypeOK
  <2>3. PermitInv' /\ PhaseInv'
    BY <1>1, <2>1 DEF IInv, PhasesInv, PermitInv, PhaseInv
  <2>4. DrainedInv' /\ WedgeInv'
    BY <1>1, <2>1 DEF IInv, PhasesInv, DrainedInv, WedgeInv
  <2> QED
    BY <1>2, <2>2, <2>3, <2>4 DEF IInv, PhasesInv
<1>5. CASE QueueClosed
  <2>1. /\ UNCHANGED <<rx_closed, shutdown>> /\ pc = "select" /\ accepting
        /\ accepting' = FALSE /\ pc' \in {"flush", "select"} /\ RecvEnds
    BY <1>5 DEF QueueClosed, queue
  <2>2. TypeOK'
    BY <1>1, <2>1 DEF IInv, TypeOK
  <2>3. PermitInv' /\ PhaseInv'
    BY <1>1, <2>1 DEF IInv, PhasesInv, PermitInv, PhaseInv
  <2>4. DrainedInv' /\ WedgeInv'
    BY <1>1, <2>1 DEF IInv, PhasesInv, DrainedInv, WedgeInv, RecvEnds
  <2> QED
    BY <1>2, <2>2, <2>3, <2>4 DEF IInv, PhasesInv
<1>6. CASE FlushReturns \/ Stop
  <2>1. /\ UNCHANGED <<rx_closed, shutdown, accepting>>
        /\ \/ pc = "flush" /\ pc' = "post"
           \/ pc = "post" /\ pc' = "stopped" /\ ack_batch = <<>>
              /\ acks = <<>> /\ held = {}
    BY <1>6 DEF FlushReturns, Stop, queue, flags
  <2>2. TypeOK'
    BY <1>1, <2>1 DEF IInv, TypeOK
  <2>3. PermitInv' /\ PhaseInv'
    BY <1>1, <2>1 DEF IInv, PhasesInv, PermitInv, PhaseInv
  <2>4. DrainedInv' /\ WedgeInv'
    BY <1>1, <2>1 DEF IInv, PhasesInv, DrainedInv, WedgeInv
  <2> QED
    BY <1>2, <2>2, <2>3, <2>4 DEF IInv, PhasesInv
<1> QED
  BY <1>3, <1>4, <1>5, <1>6

\* The consumer takes a batch from the queue.
LEMMA RecvManyStep ==
    ASSUME IInv, RecvMany PROVE IInv'
<1>1. UNCHANGED <<marked, cursor, next, in_flight, held, failed, wedged, wedge,
                  wedges, dropped, safe, ack_batch, acks, crashes, backend,
                  sent, reserved, senders, rx_closed, shutdown, accepting>>
  BY DEF RecvMany, log, flags, history
<1>2. DataInv'
  <2>1. Pending' = Pending
    BY <1>1 DEF Pending
  <2> QED
    BY <1>1, <2>1, DataFrame DEF IInv
<1>3. pc = "select" /\ pc' = "consume" /\ accepting
  BY DEF RecvMany
<1>4. taken' \in 0 .. sent /\ taken < taken'
  BY DEF RecvMany, IInv, TypeOK
<1>5. next = taken
  BY <1>3 DEF IInv, PhasesInv, PhaseInv
<1>6. TypeOK'
  <2>1. next' \in 0 .. taken'
    BY <1>1, <1>4, <1>5 DEF IInv, TypeOK
  <2> QED
    BY <1>1, <1>3, <1>4, <2>1 DEF IInv, TypeOK
<1>7. PermitInv' /\ PhaseInv'
  BY <1>1, <1>3, <1>4, <1>5 DEF IInv, PhasesInv, PermitInv, PhaseInv
<1>8. DrainedInv' /\ WedgeInv'
  BY <1>1, <1>3 DEF IInv, PhasesInv, DrainedInv, WedgeInv
<1> QED
  BY <1>2, <1>6, <1>7, <1>8 DEF IInv, PhasesInv

\* The drain and the batch loop hand the next event to the output, or the
\* drain finds the channel closed and empty.
LEMMA HandOverStep ==
    ASSUME IInv, Drain \/ Consume PROVE IInv'
<1>1. UNCHANGED <<marked, cursor, failed, wedged, wedge, wedges, dropped, safe,
                  ack_batch, acks, crashes, backend, sent, reserved, senders,
                  rx_closed, shutdown, accepting>>
  BY DEF Drain, Consume, queue, log, flags, history
<1>2. CASE pc = "drain" /\ RecvEnds /\ pc' = "flush"
           /\ UNCHANGED <<taken, next, held, in_flight>>
  <2>1. DataInv'
    <3>1. Pending' = Pending
      BY <1>1 DEF Pending
    <3> QED
      BY <1>1, <1>2, <3>1, DataFrame DEF IInv
  <2>2. TypeOK'
    BY <1>1, <1>2 DEF IInv, TypeOK
  <2>3. PermitInv' /\ PhaseInv'
    BY <1>1, <1>2 DEF IInv, PhasesInv, PermitInv, PhaseInv
  <2>4. DrainedInv' /\ WedgeInv'
    BY <1>1, <1>2 DEF IInv, PhasesInv, PhaseInv, DrainedInv, WedgeInv, RecvEnds
  <2> QED
    BY <2>1, <2>2, <2>3, <2>4 DEF IInv, PhasesInv
<1>3. CASE pc = "drain" /\ taken < sent /\ taken' = taken + 1 /\ HandOver /\ pc' = pc
  <2>1. next = taken /\ backend = "memory" /\ rx_closed
    BY <1>3 DEF IInv, PhasesInv, PhaseInv
  <2>2. next < N
    BY <1>3, <2>1 DEF IInv, TypeOK
  <2>3. DataInv' /\ held' \in SUBSET Positions /\ in_flight' \in 0 .. N
    BY <1>1, <1>3, <2>2, DataHandOver DEF IInv
  <2>4. next' = next + 1
    BY <1>3 DEF HandOver
  <2>5. TypeOK'
    <3>1. taken' \in 0 .. sent' /\ next' \in 0 .. taken'
      BY <1>1, <1>3, <2>1, <2>4 DEF IInv, TypeOK
    <3> QED
      BY <1>1, <1>3, <2>3, <3>1 DEF IInv, TypeOK
  <2>6. PermitInv' /\ PhaseInv'
    BY <1>1, <1>3, <2>1, <2>4 DEF IInv, PhasesInv, PermitInv, PhaseInv
  <2>7. accepting
    BY <1>3, <2>1 DEF IInv, TypeOK, PhasesInv, DrainedInv
  <2>8. DrainedInv' /\ WedgeInv'
    BY <1>1, <1>3, <2>1, <2>7 DEF IInv, PhasesInv, DrainedInv, WedgeInv
  <2> QED
    BY <2>3, <2>5, <2>6, <2>8 DEF IInv, PhasesInv
<1>4. CASE Consume
  <2>1. /\ pc = "consume" /\ HandOver /\ taken' = taken
        /\ pc' = IF next + 1 = taken THEN "select" ELSE "consume"
    BY <1>4 DEF Consume, queue
  <2>2. next < taken /\ accepting
    BY <2>1 DEF IInv, PhasesInv, PhaseInv
  <2>3. next < N
    BY <2>2 DEF IInv, TypeOK
  <2>4. DataInv' /\ held' \in SUBSET Positions /\ in_flight' \in 0 .. N
    BY <1>1, <2>1, <2>3, DataHandOver DEF IInv
  <2>5. next' = next + 1
    BY <2>1 DEF HandOver
  <2>6. TypeOK'
    <3>1. taken' \in 0 .. sent' /\ next' \in 0 .. taken'
      BY <1>1, <2>1, <2>2, <2>5 DEF IInv, TypeOK
    <3> QED
      BY <1>1, <2>1, <2>4, <3>1 DEF IInv, TypeOK
  <2>7. PermitInv' /\ PhaseInv'
    BY <1>1, <2>1, <2>2, <2>5 DEF IInv, TypeOK, PhasesInv, PermitInv, PhaseInv
  <2>8. DrainedInv' /\ WedgeInv'
    BY <1>1, <2>1, <2>2 DEF IInv, PhasesInv, DrainedInv, WedgeInv
  <2> QED
    BY <2>4, <2>6, <2>7, <2>8 DEF IInv, PhasesInv
<1> QED
  BY <1>2, <1>3, <1>4 DEF Drain

\* A batch of resolutions is taken from the channel.
LEMMA TakeAcksStep ==
    ASSUME IInv, RecvAcks \/ RecvLastAcks PROVE IInv'
<1>1. UNCHANGED <<marked, cursor, next, in_flight, held, failed, wedged, wedge,
                  wedges, dropped, safe, crashes, backend, taken,
                  sent, reserved, senders, rx_closed, shutdown, accepting>>
  BY DEF RecvAcks, RecvLastAcks, queue, log, flags, history
<1>2. ack_batch = <<>> /\ TakeAcks
  BY DEF RecvAcks, RecvLastAcks, IInv, PhasesInv, PhaseInv
<1>3. \/ pc = "select" /\ pc' = "acks"
      \/ pc = "post" /\ pc' = "post"
  BY DEF RecvAcks, RecvLastAcks
<1>4. /\ Pending' = Pending
      /\ ack_batch' \in Seq(Resolution) /\ acks' \in Seq(Resolution)
      /\ ack_batch' # <<>>
  BY <1>2, PendingTaken DEF IInv
<1>5. DataInv'
  BY <1>1, <1>4, DataFrame DEF IInv
<1>6. TypeOK'
  BY <1>1, <1>3, <1>4 DEF IInv, TypeOK
<1>7. PermitInv' /\ PhaseInv'
  BY <1>1, <1>3, <1>4 DEF IInv, PhasesInv, PermitInv, PhaseInv
<1>8. DrainedInv' /\ WedgeInv'
  BY <1>1, <1>3 DEF IInv, PhasesInv, DrainedInv, WedgeInv
<1> QED
  BY <1>5, <1>6, <1>7, <1>8 DEF IInv, PhasesInv

\* One resolution of the ack arm, or of the loop after shutdown, is settled.
\* The early exit of the ack arm throws nothing away: in_flight is 0 only when
\* the batch and the channel hold nothing else.
LEMMA HandleStep ==
    ASSUME IInv, HandleAck \/ HandleLastAck PROVE IInv'
<1> DEFINE r == Head(ack_batch)
<1>1. /\ CountDropped(r) /\ RecordWedge(r)
      /\ \/ DroppedOnDisk(r) /\ UNCHANGED log
         \/ ~(DroppedOnDisk(r) /\ ~wedged) /\ AckTo(r.pos)
      /\ in_flight' = in_flight - 1
      /\ UNCHANGED <<backend, sent, reserved, senders, rx_closed, taken, next, acks,
                     held, shutdown, crashes, dropped, safe>>
  <2>1. CASE HandleAck
    BY <2>1 DEF HandleAck, Settle, RecordWedge, queue
  <2>2. CASE HandleLastAck
    BY <2>2 DEF HandleLastAck, queue
  <2> QED
    BY <2>1, <2>2
<1>2. ack_batch # <<>>
  BY DEF HandleAck, HandleLastAck, IInv, PhasesInv, PhaseInv
<1>3. ack_batch' = Tail(ack_batch)
  <2>1. CASE HandleAck /\ in_flight' = 0 /\ ack_batch' = <<>>
    <3>1. /\ ack_batch \in Seq(Resolution)
          /\ Len(ack_batch) \in Nat /\ Len(acks) \in Nat
          /\ Len(Pending) = Len(ack_batch) + Len(acks)
      BY PendingType DEF IInv
    <3>2. Cardinality(held) \in Nat
      BY FinitePositions DEF IInv, TypeOK
    <3>3. in_flight = 1
      BY <1>1, <2>1 DEF IInv, TypeOK
    <3>4. Len(ack_batch) > 0
      BY <1>2, <3>1, EmptySeq
    <3>5. Len(ack_batch) = 1
      <4>1. in_flight = Cardinality(held) + Len(Pending)
        BY DEF IInv, DataInv, CountInv
      <4>2. \A a, b, c \in Nat : 1 = c + (b + a) /\ b > 0 => b = 1
        OBVIOUS
      <4>3. 1 = Cardinality(held) + (Len(ack_batch) + Len(acks))
        BY <3>1, <3>3, <4>1
      <4> QED
        BY <3>1, <3>2, <3>4, <4>2, <4>3
    <3>6. Tail(ack_batch) \in Seq(Resolution) /\ Len(Tail(ack_batch)) = 0
      BY <1>2, <3>1, <3>5, HeadTailProperties
    <3>7. Tail(ack_batch) = <<>>
      BY <3>6, EmptySeq
    <3> QED
      BY <2>1, <3>7
  <2>2. CASE HandleAck /\ ~(in_flight' = 0 /\ ack_batch' = <<>>)
    BY <2>2 DEF HandleAck
  <2>3. CASE HandleLastAck
    BY <2>3 DEF HandleLastAck
  <2> QED
    BY <2>1, <2>2, <2>3
<1>4. /\ Len(Pending) > 0 /\ r = Pending[1]
      /\ ack_batch' \in Seq(Resolution)
      /\ Len(Pending') = Len(Pending) - 1
      /\ \A i \in 1 .. Len(Pending') : Pending'[i] = Pending[i + 1]
  BY <1>1, <1>2, <1>3, PendingHandled DEF IInv
<1> HIDE DEF r
<1>5. /\ DataInv'
      /\ in_flight' \in 0 .. N /\ failed' \in Nat
      /\ marked' \in SUBSET Positions /\ cursor' \in 0 .. N
      /\ wedge' \in 0 .. N /\ wedges' \in SUBSET Positions
      /\ wedged' \in BOOLEAN
  BY <1>1, <1>4, DataHandled DEF IInv, PhasesInv
<1>6. /\ accepting' \in BOOLEAN
      /\ \/ /\ pc = "acks" /\ pc' \in {"acks", "select", "flush"}
            /\ pc' # "acks" => ack_batch' = <<>>
            /\ pc' = "acks" => ack_batch' # <<>>
            /\ pc' = "flush" => accepting' = FALSE
            /\ wedged' # wedged => accepting' = FALSE
            /\ wedged' = wedged => accepting' = accepting
         \/ pc = "post" /\ pc' = "post" /\ accepting' = accepting
  <2>1. accepting \in BOOLEAN
    BY DEF IInv, TypeOK
  <2>2. CASE HandleAck
    <3>1. /\ wedged' # wedged => accepting' = FALSE
          /\ wedged' = wedged => accepting' = accepting
      BY <2>2 DEF HandleAck, Settle
    <3>2. accepting' \in BOOLEAN
      BY <2>1, <3>1
    <3>3. /\ pc = "acks" /\ pc' \in {"acks", "select", "flush"}
          /\ pc' # "acks" => ack_batch' = <<>>
          /\ pc' = "acks" => ack_batch' # <<>>
          /\ pc' = "flush" => ~accepting'
      BY <2>2 DEF HandleAck
    <3> QED
      BY <3>1, <3>2, <3>3
  <2>3. CASE HandleLastAck
    BY <2>1, <2>3 DEF HandleLastAck
  <2> QED
    BY <2>2, <2>3
<1>7. TypeOK'
  BY <1>1, <1>4, <1>5, <1>6 DEF IInv, TypeOK
<1>8. PermitInv' /\ PhaseInv'
  BY <1>1, <1>6 DEF IInv, PhasesInv, PermitInv, PhaseInv
<1>9. WedgeInv'
  <2>1. CASE DroppedOnDisk(r) /\ ~wedged
    <3>1. wedged' = TRUE /\ wedge' = r.pos /\ wedges' = wedges \cup {r.pos}
      BY <1>1, <2>1 DEF RecordWedge
    <3>2. backend' = "disk"
      BY <1>1, <2>1 DEF DroppedOnDisk
    <3>3. accepting' => pc' \in {"post", "stopped"}
      BY <1>6, <2>1, <3>1
    <3> QED
      BY <3>1, <3>2, <3>3 DEF WedgeInv
  <2>2. CASE ~(DroppedOnDisk(r) /\ ~wedged)
    <3>1. UNCHANGED <<wedged, wedge, wedges>>
      BY <1>1, <2>2 DEF RecordWedge
    <3>2. accepting' = accepting /\ (pc' = pc \/ pc # "post")
      BY <1>6, <3>1
    <3>3. wedged /\ accepting => pc = "post" /\ pc' = "post"
      BY <1>6 DEF IInv, PhasesInv, WedgeInv
    <3> QED
      BY <1>1, <3>1, <3>2, <3>3 DEF IInv, PhasesInv, WedgeInv
  <2> QED
    BY <2>1, <2>2
<1>10. DrainedInv'
  <2>1. SUFFICES ASSUME backend = "memory",
                        ~accepting' \/ pc' \in {"flush", "post", "stopped"}
                 PROVE  taken = sent /\ reserved = 0 /\ (rx_closed \/ ~senders)
    BY <1>1 DEF DrainedInv
  <2>2. wedged' = wedged
    BY <1>1, <2>1 DEF RecordWedge, DroppedOnDisk
  <2>3. ~accepting \/ pc \in {"flush", "post", "stopped"}
    BY <1>6, <2>1, <2>2
  <2> QED
    BY <2>1, <2>3 DEF IInv, PhasesInv, DrainedInv
<1> QED
  BY <1>5, <1>7, <1>8, <1>9, <1>10 DEF IInv, PhasesInv

\* A restart reads the disk queue again from its cursor.
LEMMA RestartStep ==
    ASSUME IInv, Restart PROVE IInv'
<1>1. /\ backend = "disk" /\ crashes' = crashes + 1
      /\ taken' = cursor /\ next' = cursor /\ marked' = {}
      /\ senders' = TRUE
      /\ pc' = "select" /\ accepting' = TRUE /\ wedged' = FALSE
      /\ in_flight' = 0 /\ ack_batch' = <<>> /\ acks' = <<>> /\ held' = {}
      /\ shutdown' = FALSE /\ failed' = 0
      /\ wedge' = 0 /\ dropped' = {}
      /\ UNCHANGED <<backend, sent, reserved, rx_closed, cursor, wedges, safe>>
  BY DEF Restart
<1>2. Pending' = <<>> /\ Len(Pending') = 0
  BY <1>1, ConcatEmptySeq, EmptySeq DEF Pending
<1>3. TypeOK'
  <2>1. /\ taken' \in 0 .. sent' /\ next' \in 0 .. taken' /\ crashes' \in Nat
        /\ in_flight' \in 0 .. N /\ wedge' \in 0 .. N /\ failed' \in Nat
    BY <1>1 DEF IInv, TypeOK, DataInv, LogInv
  <2>2. <<>> \in Seq(Resolution)
    BY EmptySeq
  <2> QED
    BY <1>1, <2>1, <2>2, Zenon DEF IInv, TypeOK
<1>4. PermitInv' /\ PhaseInv' /\ DrainedInv'
  BY <1>1 DEF IInv, PhasesInv, PermitInv, PhaseInv, DrainedInv
<1>5. WedgeInv'
  BY <1>1 DEF WedgeInv
<1>6. LogInv' /\ LiveInv' /\ OnceInv'
  BY <1>1, <1>2 DEF IInv, TypeOK, LogInv, LiveInv, OnceInv
<1>7. CountInv'
  <2>1. PendingDropped' = {}
    BY <1>2 DEF PendingDropped
  <2>2. dropped' \ PendingDropped' = {}
    BY <1>1
  <2> QED
    BY <1>1, <1>2, <2>1, <2>2, FS_EmptySet DEF IInv, TypeOK, CountInv
<1>8. HonestInv'
  <2> SUFFICES ASSUME NEW q \in Positions, q <= cursor
               PROVE  q \in safe \/ \E w \in wedges : q < w
    BY <1>1 DEF HonestInv
  <2>1. \/ q \in safe \/ \E w \in wedges : q < w
        \/ wedged /\ wedge < q
    BY DEF IInv, DataInv, HonestInv
  <2>2. ~(wedged /\ wedge < q)
    BY DEF IInv, TypeOK, DataInv, LogInv, Positions
  <2> QED
    BY <2>1, <2>2
<1> QED
  BY <1>3, <1>4, <1>5, <1>6, <1>7, <1>8 DEF IInv, PhasesInv, DataInv

\* Every step of the queue, the output, the consumer and the process.
LEMMA NextInv == IInv /\ [Next]_vars => IInv'
<1> SUFFICES ASSUME IInv, [Next]_vars PROVE IInv'
  OBVIOUS
<1>1. CASE UNCHANGED vars
  <2>1. DataInv'
    BY <1>1, DataFrame DEF vars, IInv, Pending
  <2> QED
    BY <1>1, <2>1 DEF vars, IInv, TypeOK, PhasesInv, PermitInv, PhaseInv, DrainedInv,
                      WedgeInv
<1>2. CASE Consumer
  BY <1>2, PhaseStep, RecvManyStep, HandOverStep, TakeAcksStep, HandleStep DEF Consumer
<1> QED
  BY <1>1, <1>2, PipelinesStep, OutputStep, PhaseStep, RestartStep DEF Next

\* The invariant of the consumer, for every value of the constants.
THEOREM Invariance == Spec => []IInv
BY InitInv, NextInv, PTL DEF Spec

-----------------------------------------------------------------------------
(* The properties. *)

\* Type correctness of run_queue_consumer's locals, the queue's counters and
\* the ack channel.
THEOREM TypeCorrect == Spec => []TypeOK
<1>1. IInv => TypeOK
  BY DEF IInv
<1> QED
  BY Invariance, <1>1, PTL

\* The wedge is fail-stop: once run_queue_consumer recorded a Dropped event of
\* a disk queue, no ack_to it makes afterwards moves the persisted cursor to
\* or past that event.
THEOREM WedgeIsHeld == Spec => []WedgeHolds
<1>1. IInv => WedgeHolds
  BY DEF IInv, DataInv, LogInv, WedgeHolds
<1> QED
  BY Invariance, <1>1, PTL

\* The persisted cursor passes an event that is neither delivered nor
\* dead-lettered only below a position where a consumer wedged: what
\* handle_ack_disposition's order of ack_to and wedge really guarantees.
THEOREM CursorLosesOnlyBelowWedge == Spec => []LostOnlyBelowWedge
<1>1. IInv => LostOnlyBelowWedge
  <2> SUFFICES ASSUME IInv, NEW p \in 1 .. cursor
               PROVE  p \in safe \/ \E w \in wedges : p < w
    BY DEF LostOnlyBelowWedge
  <2>1. p \in Positions /\ p <= cursor
    BY DEF IInv, TypeOK, Positions
  <2>2. \/ p \in safe \/ \E w \in wedges : p < w
        \/ wedged /\ wedge < p
    BY <2>1 DEF IInv, DataInv, HonestInv
  <2>3. ~(wedged /\ wedge < p)
    BY <2>1 DEF IInv, TypeOK, DataInv, LogInv, Positions
  <2> QED
    BY <2>2, <2>3
<1> QED
  BY Invariance, <1>1, PTL

\* in_flight is exact: every handle is held, in the channel or in the batch
\* being handled, so break 'consumer out of a batch discards no resolution.
THEOREM NoResolutionLost == Spec => []NoAckDiscarded
<1>1. IInv => NoAckDiscarded
  <2> SUFFICES ASSUME IInv PROVE NoAckDiscarded
    OBVIOUS
  <2>1. /\ Len(acks) \in Nat /\ Len(ack_batch) \in Nat
        /\ Len(Pending) = Len(ack_batch) + Len(acks)
    BY PendingType DEF IInv
  <2>2. Cardinality(held) \in Nat
    BY FinitePositions DEF IInv, TypeOK
  <2>3. in_flight = Cardinality(held) + Len(Pending)
    BY DEF IInv, DataInv, CountInv
  <2> QED
    BY <2>1, <2>2, <2>3 DEF NoAckDiscarded
<1> QED
  BY Invariance, <1>1, PTL

\* A consumer that returned has settled every handle it gave out, and
\* events_failed holds the number of Dropped ones.
THEOREM StopsAccounted == Spec => []StoppedAccounted
<1>1. IInv => StoppedAccounted
  <2> SUFFICES ASSUME IInv, pc = "stopped"
               PROVE  /\ in_flight = 0 /\ held = {} /\ acks = <<>>
                      /\ failed = Cardinality(dropped)
    BY DEF StoppedAccounted
  <2>1. acks = <<>> /\ held = {} /\ ack_batch = <<>>
    BY DEF IInv, PhasesInv, PhaseInv
  <2>2. Pending = <<>> /\ Len(Pending) = 0
    BY <2>1, ConcatEmptySeq, EmptySeq DEF Pending
  <2>3. PendingDropped = {}
    BY <2>2 DEF PendingDropped
  <2>4. dropped \ PendingDropped = dropped
    BY <2>3
  <2>5. in_flight = 0
    BY <2>1, <2>2, FS_EmptySet DEF IInv, DataInv, CountInv
  <2> QED
    BY <2>1, <2>4, <2>5 DEF IInv, DataInv, CountInv
<1> QED
  BY Invariance, <1>1, PTL

\* On the memory backend an event whose send returned Ok has been handed to
\* the output when the consumer returns: close() followed by recv until None
\* also waits for the senders that held a permit.
THEOREM MemoryQueueDrained == Spec => []MemoryDrained
<1>1. IInv => MemoryDrained
  BY DEF IInv, PhasesInv, PhaseInv, DrainedInv, MemoryDrained
<1> QED
  BY Invariance, <1>1, PTL

\* A wedged consumer hands no further event to its output, in any phase of
\* its loop or of its shutdown.
THEOREM WedgedTakesNoWork == Spec => NoWorkAfterWedge
<1>1. IInv /\ [Next]_vars => [wedged /\ wedged' => next' = next]_vars
  <2> SUFFICES ASSUME IInv, [Next]_vars, wedged, wedged' PROVE next' = next
    OBVIOUS
  <2>1. CASE UNCHANGED vars
    BY <2>1 DEF vars
  <2>2. CASE Restart
    BY <2>2 DEF Restart
  <2>3. CASE Pipelines \/ RequestShutdown
    BY <2>3 DEF Pipelines, Reserve, Commit, SendDisk, DropSenders, RequestShutdown
  <2>4. CASE Output
    BY <2>4 DEF Output, Resolve
  <2>5. CASE Consumer
    <3>1. pc # "drain" /\ pc # "consume"
      BY DEF IInv, PhasesInv, PhaseInv, WedgeInv
    <3> QED
      BY <2>5, <3>1 DEF Consumer, Shutdown, Drain, RecvAcks, HandleAck, RecvMany,
                        QueueClosed, Consume, FlushReturns, RecvLastAcks,
                        HandleLastAck, Stop
  <2> QED
    BY <2>1, <2>2, <2>3, <2>4, <2>5 DEF Next
<1> QED
  BY Invariance, <1>1, PTL DEF Spec, NoWorkAfterWedge
=============================================================================
