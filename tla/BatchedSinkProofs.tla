------------------------- MODULE BatchedSinkProofs -------------------------
(***************************************************************************)
(* The safety properties of the batched sink, and that it keeps the ack     *)
(* contract, for any number of events, any batch size, any retry budget and *)
(* either backend.                                                          *)
(***************************************************************************)
EXTENDS BatchedSink, FiniteSetTheorems, SequenceTheorems, TLAPS

\* No event occurs twice.
Distinct(s) == \A i, j \in 1 .. Len(s) : s[i] = s[j] => i = j

\* The events a thread has to work on.
Work(t) == ToSet(rest[t]) \cup ToSet(batch[t]) \cup ToSet(route[t])

\* What each place of a thread's program knows of the events it has in hand.
PhaseInv ==
    \A t \in Threads :
        /\ pc[t] = "chunk" => batch[t] = <<>> /\ route[t] = <<>>
        /\ pc[t] = "routing" => route[t] # <<>>
        /\ pc[t] \in {"prepare", "send", "backoff"} =>
              batch[t] # <<>> /\ route[t] = <<>>
        /\ pc[t] \notin {"chunk", "routing", "prepare", "send", "backoff"} =>
              rest[t] = <<>> /\ batch[t] = <<>> /\ route[t] = <<>>

\* What the threads know of the shutdown, of the bound on events and of the
\* retry budget.
FlagInv ==
    /\ arm = "woken" => shutting
    /\ ~shutting => pc["caller"] \in {"idle", "acquire", "drain"}
    /\ pc["caller"] = "drain" => signal
    /\ pc["caller"] = "acquire" => next < N
    /\ pc["actor"] \in {"send", "backoff"} => attempt < MaxAttempts

\* No sequence repeats an event, and a thread's three are disjoint.
ListInv ==
    /\ Distinct(buffer)
    /\ \A t \in Threads :
         /\ Distinct(rest[t]) /\ Distinct(batch[t]) /\ Distinct(route[t])
         /\ ToSet(rest[t]) \cap ToSet(batch[t]) = {}
         /\ ToSet(rest[t]) \cap ToSet(route[t]) = {}
         /\ ToSet(batch[t]) \cap ToSet(route[t]) = {}

\* The unresolved events are the parked ones and those in a thread's hands;
\* an event that was not consumed is not resolved.
OwnerInv ==
    /\ ToSet(buffer) \cap Work("actor") = {}
    /\ ToSet(buffer) \cap Work("caller") = {}
    /\ Work("actor") \cap Work("caller") = {}
    /\ Held = ToSet(buffer) \cup Work("actor") \cup Work("caller")
    /\ \A p \in Handles : p > next => disp[p] = "none"

\* Until shutdown every event the sink owns holds a permit, but for those on
\* their way to the DLQ.
PermitInv ==
    /\ Cardinality(permits) <= PermitCap
    /\ ~signal /\ ~shutting => Held \ ToSet(route["actor"]) \subseteq permits

\* An unresolved event of a cut-off send is on the ambiguous route.
MaybeInv ==
    \A p \in maybe : disp[p] = "none" =>
        \E t \in Threads : p \in ToSet(route[t]) /\ ambiguous[t]

\* What is known of each event, and of the whole state.
DataInv ==
    /\ ListInv /\ OwnerInv /\ PermitInv /\ MaybeInv
    /\ NoFabricatedRecovery /\ RecoveredIsOnRecord /\ MetricsExact

\* The inductive invariant.
IInv == TypeOK /\ PhaseInv /\ FlagInv /\ DataInv

-----------------------------------------------------------------------------
(* The events of a sequence. *)

USE BatchedSinkAssumption

\* ToSet in terms of indices; a sequence has at most as many events as places,
\* and exactly as many when none is repeated.
LEMMA ToSetProperties ==
    ASSUME NEW s \in Seq(Handles)
    PROVE  /\ \A p : p \in ToSet(s) <=> \E i \in 1 .. Len(s) : s[i] = p
           /\ ToSet(s) \subseteq Handles
           /\ s = <<>> <=> ToSet(s) = {}
           /\ IsFiniteSet(ToSet(s))
           /\ Cardinality(ToSet(s)) <= Len(s)
           /\ Distinct(s) => Cardinality(ToSet(s)) = Len(s)
<1>1. /\ Len(s) \in Nat /\ DOMAIN s = 1 .. Len(s)
      /\ s \in [1 .. Len(s) -> Handles]
  BY LenProperties
<1>2. \A p : p \in ToSet(s) <=> \E i \in 1 .. Len(s) : s[i] = p
  BY <1>1 DEF ToSet
<1>3. ToSet(s) \subseteq Handles
  BY <1>1, <1>2
<1>4. s = <<>> <=> ToSet(s) = {}
  <2>1. CASE s = <<>>
    BY <2>1, <1>2, EmptySeq
  <2>2. CASE s # <<>>
    <3>1. 1 \in 1 .. Len(s)
      BY <2>2, EmptySeq
    <3> QED
      BY <2>2, <3>1, <1>2
  <2> QED
    BY <2>1, <2>2
<1>5. s \in Surjection(1 .. Len(s), ToSet(s))
  <2>1. s \in [1 .. Len(s) -> ToSet(s)]
    BY <1>1, <1>2
  <2> QED
    BY <2>1, <1>2 DEF Surjection
<1>6. /\ IsFiniteSet(1 .. Len(s))
      /\ Cardinality(1 .. Len(s)) = Len(s)
  <2>1. /\ IsFiniteSet(1 .. Len(s))
        /\ Cardinality(1 .. Len(s)) = IF 1 > Len(s) THEN 0 ELSE Len(s) - 1 + 1
    BY <1>1, FS_Interval
  <2> QED
    BY <1>1, <2>1
<1>7. /\ IsFiniteSet(ToSet(s))
      /\ Cardinality(ToSet(s)) <= Len(s)
      /\ Cardinality(ToSet(s)) = Len(s) <=> s \in Injection(1 .. Len(s), ToSet(s))
  BY <1>5, <1>6, FS_Surjection
<1>8. Distinct(s) => s \in Injection(1 .. Len(s), ToSet(s))
  BY <1>1, <1>5 DEF Distinct, Injection, IsInjective, Surjection
<1> QED
  BY <1>2, <1>3, <1>4, <1>7, <1>8

\* Sets of events are finite.
LEMMA HandlesFinite ==
    /\ IsFiniteSet(Handles)
    /\ \A S \in SUBSET Handles : IsFiniteSet(S) /\ Cardinality(S) \in Nat
<1>1. IsFiniteSet(Handles)
  BY FS_Interval DEF Handles
<1>2. \A S \in SUBSET Handles : IsFiniteSet(S)
  BY <1>1, FS_Subset
<1> QED
  BY <1>1, <1>2, FS_CardinalityType

\* The empty sequence has no events.
LEMMA EmptyIsDistinct ==
    /\ <<>> \in Seq(Handles) /\ Len(<<>>) = 0
    /\ Distinct(<<>>) /\ ToSet(<<>>) = {}
<1>1. <<>> \in Seq(Handles) /\ Len(<<>>) = 0
  BY EmptySeq
<1> QED
  BY <1>1, ToSetProperties DEF Distinct

\* A sequence cut in two: each event goes to one of the parts.
LEMMA CutProperties ==
    ASSUME NEW s \in Seq(Handles), Distinct(s), NEW n \in 0 .. Len(s)
    PROVE  LET a == SubSeq(s, 1, n)
               b == SubSeq(s, n + 1, Len(s)) IN
           /\ a \in Seq(Handles) /\ b \in Seq(Handles)
           /\ Len(a) = n /\ Len(b) = Len(s) - n
           /\ Distinct(a) /\ Distinct(b)
           /\ ToSet(a) \cup ToSet(b) = ToSet(s)
           /\ ToSet(a) \cap ToSet(b) = {}
<1> DEFINE a == SubSeq(s, 1, n)
           b == SubSeq(s, n + 1, Len(s))
<1>1. Len(s) \in Nat /\ n \in Nat /\ n <= Len(s)
  BY LenProperties
<1>2. \A i \in 1 .. Len(s) : s[i] \in Handles
  BY ElementOfSeq
<1>3. /\ a \in Seq(Handles) /\ Len(a) = n
      /\ \A i \in 1 .. n : a[i] = s[i]
  <2>1. \A i \in 1 .. n : s[i] \in Handles
    BY <1>1, <1>2
  <2> QED
    BY <1>1, <2>1, SubSeqProperties
<1>4. /\ b \in Seq(Handles) /\ Len(b) = Len(s) - n
      /\ \A i \in 1 .. Len(s) - n : b[i] = s[n + i]
  <2>1. \A i \in n + 1 .. Len(s) : s[i] \in Handles
    BY <1>1, <1>2
  <2>2. /\ b \in Seq(Handles)
        /\ Len(b) = IF n + 1 <= Len(s) THEN Len(s) - (n + 1) + 1 ELSE 0
        /\ \A i \in 1 .. Len(s) - (n + 1) + 1 : b[i] = s[(n + 1) + i - 1]
    BY <1>1, <2>1, SubSeqProperties
  <2> QED
    BY <1>1, <2>2
<1> HIDE DEF a, b
<1>5. Distinct(a) /\ Distinct(b)
  <2>1. Distinct(a)
    BY <1>1, <1>3 DEF Distinct
  <2>2. Distinct(b)
    <3> SUFFICES ASSUME NEW i \in 1 .. Len(s) - n, NEW j \in 1 .. Len(s) - n, b[i] = b[j]
                 PROVE  i = j
      BY <1>4 DEF Distinct
    <3>1. s[n + i] = s[n + j] /\ n + i \in 1 .. Len(s) /\ n + j \in 1 .. Len(s)
      BY <1>1, <1>4
    <3>2. n + i = n + j
      BY <3>1 DEF Distinct
    <3> QED
      BY <1>1, <3>2
  <2> QED
    BY <2>1, <2>2
<1>6. ToSet(a) \cap ToSet(b) = {}
  <2> SUFFICES ASSUME NEW i \in 1 .. n, NEW j \in 1 .. Len(s) - n, a[i] = b[j]
               PROVE  FALSE
    BY <1>3, <1>4, ToSetProperties
  <2>1. s[i] = s[n + j] /\ i \in 1 .. Len(s) /\ n + j \in 1 .. Len(s) /\ i # n + j
    BY <1>1, <1>3, <1>4
  <2> QED
    BY <2>1 DEF Distinct
<1>7. \A p : p \in ToSet(s) <=> p \in ToSet(a) \/ p \in ToSet(b)
  <2> TAKE p
  <2>1. ASSUME p \in ToSet(s) PROVE p \in ToSet(a) \/ p \in ToSet(b)
    <3>1. PICK i \in 1 .. Len(s) : s[i] = p
      BY <2>1, ToSetProperties
    <3>2. CASE i <= n
      BY <1>1, <3>1, <3>2, <1>3, ToSetProperties
    <3>3. CASE n < i
      <4>1. i - n \in 1 .. Len(s) - n /\ b[i - n] = p
        BY <1>1, <3>1, <3>3, <1>4
      <4> QED
        BY <4>1, <1>4, ToSetProperties
    <3> QED
      BY <1>1, <3>2, <3>3
  <2>2. ASSUME p \in ToSet(a) PROVE p \in ToSet(s)
    <3>1. PICK i \in 1 .. n : a[i] = p
      BY <2>2, <1>3, ToSetProperties
    <3> QED
      BY <1>1, <3>1, <1>3, ToSetProperties
  <2>3. ASSUME p \in ToSet(b) PROVE p \in ToSet(s)
    <3>1. PICK i \in 1 .. Len(s) - n : b[i] = p
      BY <2>3, <1>4, ToSetProperties
    <3>2. n + i \in 1 .. Len(s) /\ s[n + i] = p
      BY <1>1, <3>1, <1>4
    <3> QED
      BY <3>2, ToSetProperties
  <2> QED
    BY <2>1, <2>2, <2>3
<1>8. ToSet(a) \cup ToSet(b) = ToSet(s)
  BY <1>7
<1> QED
  BY <1>3, <1>4, <1>5, <1>6, <1>8 DEF a, b

\* A new event at the end.
LEMMA AppendDistinct ==
    ASSUME NEW s \in Seq(Handles), Distinct(s),
           NEW p \in Handles, p \notin ToSet(s)
    PROVE  /\ Append(s, p) \in Seq(Handles)
           /\ Distinct(Append(s, p))
           /\ ToSet(Append(s, p)) = ToSet(s) \cup {p}
<1> DEFINE a == Append(s, p)
<1>1. /\ a \in Seq(Handles) /\ Len(a) = Len(s) + 1 /\ Len(s) \in Nat
      /\ \A i \in 1 .. Len(s) : a[i] = s[i]
      /\ a[Len(s) + 1] = p
  BY AppendProperties, LenProperties
<1> HIDE DEF a
<1>2. \A q : q \in ToSet(s) <=> \E i \in 1 .. Len(s) : s[i] = q
  BY ToSetProperties
<1>3. \A q : q \in ToSet(a) <=> \E i \in 1 .. Len(s) + 1 : a[i] = q
  BY <1>1, ToSetProperties
<1>4. \A i \in 1 .. Len(s) : s[i] # p
  BY <1>2
<1>5. Distinct(a)
  <2> SUFFICES ASSUME NEW i \in 1 .. Len(s) + 1, NEW j \in 1 .. Len(s) + 1, a[i] = a[j]
               PROVE  i = j
    BY <1>1 DEF Distinct
  <2>1. CASE i \in 1 .. Len(s) /\ j \in 1 .. Len(s)
    BY <2>1, <1>1 DEF Distinct
  <2>2. CASE i = Len(s) + 1 \/ j = Len(s) + 1
    BY <2>2, <1>1, <1>4
  <2> QED
    BY <1>1, <2>1, <2>2
<1>6. ToSet(a) = ToSet(s) \cup {p}
  <2>1. \A q : q \in ToSet(a) => q \in ToSet(s) \/ q = p
    BY <1>1, <1>2, <1>3
  <2>2. \A q : q \in ToSet(s) => q \in ToSet(a)
    BY <1>1, <1>2, <1>3
  <2>3. p \in ToSet(a)
    BY <1>1, <1>3
  <2> QED
    BY <2>1, <2>2, <2>3
<1> QED
  BY <1>1, <1>5, <1>6 DEF a

\* The first event and the others.
LEMMA HeadTailDistinct ==
    ASSUME NEW s \in Seq(Handles), Distinct(s), s # <<>>
    PROVE  /\ Tail(s) \in Seq(Handles) /\ Distinct(Tail(s))
           /\ Head(s) \in ToSet(s)
           /\ ToSet(Tail(s)) = ToSet(s) \ {Head(s)}
<1>1. Len(s) \in Nat /\ 1 \in 0 .. Len(s) /\ 1 \in 1 .. Len(s)
  BY EmptySeq, LenProperties
<1> DEFINE a == SubSeq(s, 1, 1)
           b == SubSeq(s, 1 + 1, Len(s))
<1>2. Tail(s) = b
  BY TailIsSubSeq
<1>3. /\ a \in Seq(Handles) /\ Len(a) = 1
      /\ Tail(s) \in Seq(Handles) /\ Distinct(Tail(s))
      /\ ToSet(a) \cup ToSet(Tail(s)) = ToSet(s)
      /\ ToSet(a) \cap ToSet(Tail(s)) = {}
  <2>1. /\ a \in Seq(Handles) /\ b \in Seq(Handles)
        /\ Len(a) = 1 /\ Distinct(b)
        /\ ToSet(a) \cup ToSet(b) = ToSet(s)
        /\ ToSet(a) \cap ToSet(b) = {}
    <3>1. PICK n \in 0 .. Len(s) : n = 1
      BY <1>1
    <3> DEFINE c == SubSeq(s, 1, n)
               d == SubSeq(s, n + 1, Len(s))
    <3>2. /\ c \in Seq(Handles) /\ d \in Seq(Handles)
          /\ Len(c) = n /\ Distinct(d)
          /\ ToSet(c) \cup ToSet(d) = ToSet(s)
          /\ ToSet(c) \cap ToSet(d) = {}
      BY CutProperties
    <3>3. c = a /\ d = b
      BY <3>1
    <3> HIDE DEF a, b, c, d
    <3> QED
      BY <3>1, <3>2, <3>3
  <2> QED
    BY <1>2, <2>1
<1>4. a[1] = s[1]
  BY <1>1, SubSeqProperties, ElementOfSeq
<1> HIDE DEF a
<1>5. ToSet(a) = {s[1]}
  BY <1>3, <1>4, ToSetProperties
<1>6. Head(s) = s[1]
  OBVIOUS
<1> QED
  BY <1>3, <1>5, <1>6

\* A sequence of InOrder(S) holds each event of S once.
LEMMA InOrderProperties ==
    ASSUME NEW S, S \subseteq Handles, IsFiniteSet(S), NEW f \in InOrder(S)
    PROVE  /\ f \in Seq(Handles) /\ Distinct(f)
           /\ ToSet(f) = S /\ Len(f) = Cardinality(S)
<1> DEFINE n == Cardinality(S)
<1>1. n \in Nat
  BY FS_CardinalityType
<1> HIDE DEF n
<1>2. /\ f \in [1 .. n -> S]
      /\ \A i, j \in 1 .. n : i # j => f[i] # f[j]
  BY DEF InOrder, SetToSeqs, n
<1>3. f \in Seq(S)
  BY <1>1, <1>2
<1>4. f \in Seq(Handles)
  BY <1>3, SeqMonotonic
<1>5. Len(f) = n
  BY <1>1, <1>2
<1>6. Distinct(f)
  BY <1>2, <1>5 DEF Distinct
<1>7. ToSet(f) \subseteq S /\ Cardinality(ToSet(f)) = n
  BY <1>2, <1>4, <1>5, <1>6, ToSetProperties
<1>8. ToSet(f) = S
  BY <1>7, FS_Subset DEF n
<1> QED
  BY <1>4, <1>5, <1>6, <1>8 DEF n

-----------------------------------------------------------------------------
(* Control: program counters, flags and the retry budget. *)

\* The part of the type invariant that is about control.
ControlType ==
    /\ signal \in BOOLEAN /\ shutting \in BOOLEAN
    /\ mode \in {"none", "plain", "wedged"}
    /\ flush_permit \in BOOLEAN
    /\ pc \in [Threads -> Pcs]
    /\ arm \in {"off", "loaded", "parked", "woken"}
    /\ attempt \in 0 .. MaxAttempts
    /\ wedge_send \in BOOLEAN

\* The part that is about events.
DataType ==
    /\ config \in [backend : Backends, batch_size : BatchSizes,
                   error_log : BOOLEAN]
    /\ next \in 0 .. N /\ permits \in SUBSET Handles
    /\ buffer \in Seq(Handles)
    /\ rest \in [Threads -> Seq(Handles)]
    /\ batch \in [Threads -> Seq(Handles)]
    /\ route \in [Threads -> Seq(Handles)]
    /\ ambiguous \in [Threads -> BOOLEAN]
    /\ disp \in [Handles -> {"none", "Delivered", "Recovered", "Dropped"}]
    /\ written \in Nat /\ failed \in Nat /\ confirmed \in Nat
    /\ maybe \in SUBSET Handles /\ dlq \in SUBSET Handles
    /\ \A t \in Threads : Len(batch[t]) <= BatchSize

\* The type invariant in the two parts the proof treats separately.
LEMMA TypeParts == TypeOK <=> ControlType /\ DataType
  BY DEF TypeOK, ControlType, DataType

\* The flags, counters and program counters stay in their types, and the retry
\* budget, the event bound and the shutdown order are kept.
LEMMA ControlStep ==
    ASSUME IInv, [Next]_vars
    PROVE  ControlType' /\ FlagInv'
<1> USE DEF ControlType, FlagInv, Threads, Pcs
<1>0. ControlType /\ FlagInv /\ next \in 0 .. N
  BY TypeParts DEF IInv, DataType
<1>1. CASE Signal
  BY <1>0, <1>1 DEF Signal, parked
<1>2. CASE Consume
  BY <1>0, <1>2 DEF Consume, Goto, flags, parked
<1>3. CASE Park
  <2>1. /\ UNCHANGED <<signal, shutting, mode, arm, attempt, wedge_send>>
        /\ pc["caller"] = "acquire" /\ flush_permit' \in BOOLEAN
        /\ pc'["caller"] = "idle" /\ pc'["actor"] \in {pc["actor"], "take"}
        /\ pc' \in [Threads -> Pcs]
    <3> DEFINE full == Len(buffer') >= BatchSize
    <3>1. CASE full /\ pc["actor"] = "wait"
      BY <1>0, <1>3, <3>1 DEF Park, Goto, flags
    <3>2. CASE ~full
      BY <1>0, <1>3, <3>2 DEF Park, Goto, flags
    <3>3. CASE full /\ pc["actor"] # "wait"
      BY <1>0, <1>3, <3>3 DEF Park, Goto, flags
    <3> QED
      BY <3>1, <3>2, <3>3
  <2> QED
    BY <1>0, <2>1
<1>4. CASE StartDrain
  BY <1>0, <1>4 DEF StartDrain, Goto, flags, parked
<1>5. CASE ConsumeShutdown
  BY <1>0, <1>5 DEF ConsumeShutdown, flags
<1>6. CASE CheckFlag \/ AwaitFlush \/ Timer \/ TakeBuffer
  <2>1. /\ UNCHANGED <<signal, shutting, mode, arm, attempt, wedge_send, next>>
        /\ flush_permit' \in BOOLEAN /\ pc'["caller"] = pc["caller"]
        /\ pc'["actor"] \in {"exit", "arm", "take", "wait", "chunk"}
        /\ pc' \in [Threads -> Pcs]
    BY <1>0, <1>6 DEF CheckFlag, AwaitFlush, Timer, TakeBuffer, Goto, flags, parked
  <2> QED
    BY <1>0, <2>1
<1>7. ASSUME NEW t \in Threads, NextChunk(t)
      PROVE  ControlType' /\ FlagInv'
  BY <1>0, <1>7 DEF NextChunk, Goto, After, flags
<1>8. ASSUME NEW t \in Threads, ChunksDone(t)
      PROVE  ControlType' /\ FlagInv'
  BY <1>0, <1>8 DEF ChunksDone, Goto, flags, parked
<1>9. ASSUME NEW t \in Threads, Prepare(t)
      PROVE  ControlType' /\ FlagInv'
  <2>1. /\ UNCHANGED <<signal, shutting, mode, flush_permit, next>>
        /\ \A u \in Threads : u # t => pc'[u] = pc[u]
        /\ pc'[t] \in {"send", "routing"} /\ pc[t] = "prepare"
        /\ pc' \in [Threads -> Pcs]
        /\ \/ UNCHANGED <<arm, attempt>> /\ (t = "actor" => pc'[t] = "routing")
           \/ t = "actor" /\ arm' = "off" /\ attempt' = 0
    BY <1>0, <1>9 DEF Prepare, RouteBatch, Goto, flags
  <2>2. wedge_send' \in BOOLEAN
    BY <1>0, <1>9, Zenon DEF Prepare
  <2>3. CASE t = "actor"
    BY <1>0, <2>1, <2>2, <2>3
  <2>4. CASE t = "caller"
    BY <1>0, <2>1, <2>2, <2>4
  <2> QED
    BY <2>3, <2>4
<1>10. ASSUME NEW t \in Threads, RouteHead(t)
       PROVE  ControlType' /\ FlagInv'
  BY <1>0, <1>10 DEF RouteHead, Goto, After, flags
<1>11. ASSUME NEW t \in Threads, SendOk(t)
       PROVE  ControlType' /\ FlagInv'
  BY <1>0, <1>11 DEF SendOk, Goto, After, flags
<1>12. CASE SendErr
  BY <1>0, <1>12 DEF SendErr, RouteBatch, Goto, flags
<1>13. CASE LoadFlag \/ Register
  BY <1>0, <1>13 DEF LoadFlag, Register, flags, parked
<1>14. CASE SendCancelled
  BY <1>0, <1>14 DEF SendCancelled, RouteBatch, Goto, flags
<1>15. CASE BackoffEnds
  BY <1>0, <1>15 DEF BackoffEnds, Goto, flags, parked
<1>16. CASE LastSendFails
  BY <1>0, <1>16 DEF LastSendFails, RouteBatch, Goto, flags
<1>17. CASE BeginShutdown
  BY <1>0, <1>17 DEF BeginShutdown, Goto, parked
<1>18. CASE NotifyWaiters
  BY <1>0, <1>18 DEF NotifyWaiters, flags, parked
<1>19. CASE Join
  BY <1>0, <1>19 DEF Join, Goto, After, flags
<1>20. CASE DropSink
  BY <1>0, <1>20 DEF DropSink
<1>21. CASE UNCHANGED vars
  BY <1>0, <1>21 DEF vars
<1> QED
  BY <1>1, <1>2, <1>3, <1>4, <1>5, <1>6, <1>7, <1>8, <1>9, <1>10, <1>11, <1>12,
     <1>13, <1>14, <1>15, <1>16, <1>17, <1>18, <1>19, <1>20, <1>21
     DEF Next, Actor, Caller

\* Every program counter says what its thread has in hand.
LEMMA PhaseStep ==
    ASSUME IInv, [Next]_vars
    PROVE  PhaseInv'
<1> USE DEF PhaseInv, Threads
<1>0. /\ PhaseInv /\ pc \in [Threads -> Pcs]
      /\ rest \in [Threads -> Seq(Handles)]
      /\ batch \in [Threads -> Seq(Handles)]
      /\ route \in [Threads -> Seq(Handles)]
  BY TypeParts DEF IInv, ControlType, DataType
<1>1. CASE Signal
  BY <1>0, <1>1 DEF Signal, work
<1>2. CASE Consume
  BY <1>0, <1>2 DEF Consume, Goto, work
<1>3. CASE Park
  <2> DEFINE full == Len(buffer') >= BatchSize
  <2>1. CASE full /\ pc["actor"] = "wait"
    BY <1>0, <1>3, <2>1 DEF Park, Goto, work
  <2>2. CASE ~full
    BY <1>0, <1>3, <2>2 DEF Park, Goto, work
  <2>3. CASE full /\ pc["actor"] # "wait"
    BY <1>0, <1>3, <2>3 DEF Park, Goto, work
  <2> QED
    BY <2>1, <2>2, <2>3
<1>4. CASE StartDrain
  BY <1>0, <1>4 DEF StartDrain, Goto, work
<1>5. CASE ConsumeShutdown
  BY <1>0, <1>5 DEF ConsumeShutdown, work
<1>6. CASE CheckFlag \/ AwaitFlush \/ Timer
  BY <1>0, <1>6 DEF CheckFlag, AwaitFlush, Timer, Goto, work
<1>7. CASE TakeBuffer
  BY <1>0, <1>7 DEF TakeBuffer, Goto
<1>8. ASSUME NEW t \in Threads, NextChunk(t)
      PROVE  PhaseInv'
  <2>1. /\ pc' = [pc EXCEPT ![t] = After(route'[t], batch'[t])]
        /\ \A u \in Threads : u # t =>
              rest'[u] = rest[u] /\ batch'[u] = batch[u] /\ route'[u] = route[u]
    BY <1>0, <1>8 DEF NextChunk, Goto
  <2> QED
    BY <1>0, <2>1 DEF After
<1>9. ASSUME NEW t \in Threads, ChunksDone(t)
      PROVE  PhaseInv'
  BY <1>0, <1>9 DEF ChunksDone, Goto, work
<1>10. ASSUME NEW t \in Threads, NEW amb, RouteBatch(t, amb), UNCHANGED rest,
              batch[t] # <<>>
       PROVE  PhaseInv'
  BY <1>0, <1>10 DEF RouteBatch, Goto
<1>11. ASSUME NEW t \in Threads, Prepare(t)
       PROVE  PhaseInv'
  <2>1. CASE RouteBatch(t, FALSE)
    BY <1>0, <1>10, <1>11, <2>1 DEF Prepare
  <2>2. CASE ~RouteBatch(t, FALSE)
    BY <1>0, <1>11, <2>2 DEF Prepare, Goto
  <2> QED
    BY <2>1, <2>2
<1>12. ASSUME NEW t \in Threads, RouteHead(t)
       PROVE  PhaseInv'
  BY <1>0, <1>12 DEF RouteHead, Goto, After
<1>13. ASSUME NEW t \in Threads, SendOk(t)
       PROVE  PhaseInv'
  <2>1. /\ pc' = [pc EXCEPT ![t] = After(route'[t], <<>>)]
        /\ batch'[t] = <<>>
        /\ \A u \in Threads : u # t =>
              rest'[u] = rest[u] /\ batch'[u] = batch[u] /\ route'[u] = route[u]
    BY <1>0, <1>13 DEF SendOk, Goto
  <2> QED
    BY <1>0, <2>1 DEF After
<1>14. CASE SendErr
  <2>1. CASE RouteBatch("actor", FALSE)
    BY <1>0, <1>10, <1>14, <2>1 DEF SendErr
  <2>2. CASE ~RouteBatch("actor", FALSE)
    BY <1>0, <1>14, <2>2 DEF SendErr, Goto
  <2> QED
    BY <2>1, <2>2
<1>15. CASE LoadFlag \/ Register
  BY <1>0, <1>15 DEF LoadFlag, Register, work
<1>16. CASE SendCancelled
  BY <1>0, <1>10, <1>16 DEF SendCancelled
<1>17. CASE BackoffEnds
  BY <1>0, <1>17 DEF BackoffEnds, Goto, work
<1>18. CASE LastSendFails
  BY <1>0, <1>10, <1>18 DEF LastSendFails
<1>19. CASE BeginShutdown
  BY <1>0, <1>19 DEF BeginShutdown, Goto, work
<1>20. CASE NotifyWaiters
  BY <1>0, <1>20 DEF NotifyWaiters, work
<1>21. CASE Join
  BY <1>0, <1>21 DEF Join, Goto, After
<1>22. CASE DropSink
  BY <1>0, <1>22 DEF DropSink
<1>23. CASE UNCHANGED vars
  BY <1>0, <1>23 DEF vars
<1> QED
  BY <1>1, <1>2, <1>3, <1>4, <1>5, <1>6, <1>7, <1>8, <1>9, <1>11, <1>12, <1>13,
     <1>14, <1>15, <1>16, <1>17, <1>18, <1>19, <1>20, <1>21, <1>22, <1>23
     DEF Next, Actor, Caller, IInv

-----------------------------------------------------------------------------
(* Data: the steps by what they do to the events. *)

\* Nothing happens to an event.
Quiet == UNCHANGED <<config, next, permits, buffer, work, outcome>>

\* A new event is parked.
Adds ==
    /\ next < N
    /\ next' = next + 1
    /\ buffer' = Append(buffer, next + 1)
    /\ \/ signal /\ UNCHANGED permits
       \/ /\ Cardinality(permits) < PermitCap
          /\ permits' = permits \cup {next + 1}
    /\ UNCHANGED <<config, work, outcome>>

\* A thread with nothing in hand takes the buffer.
Takes(t) ==
    /\ rest[t] = <<>>
    /\ rest' = [rest EXCEPT ![t] = buffer]
    /\ buffer' = <<>>
    /\ UNCHANGED <<config, next, permits, batch, route, ambiguous, outcome>>

\* shutdown_wedged takes the buffer as ambiguous.
TakesWedged ==
    /\ shutting
    /\ route["caller"] = <<>>
    /\ route' = [route EXCEPT !["caller"] = buffer]
    /\ ambiguous' = [ambiguous EXCEPT !["caller"] = TRUE]
    /\ permits' = permits \ ToSet(buffer)
    /\ buffer' = <<>>
    /\ UNCHANGED <<config, next, rest, batch, outcome>>

\* The shippable events of a thread go to the DLQ.
Routes(t, amb) ==
    /\ route[t] = <<>>
    /\ route' = [route EXCEPT ![t] = batch[t]]
    /\ batch' = [batch EXCEPT ![t] = <<>>]
    /\ ambiguous' = [ambiguous EXCEPT ![t] = amb]
    /\ permits' \subseteq permits
    /\ permits' = permits \/ shutting
    /\ maybe' = IF amb THEN maybe \cup ToSet(batch[t]) ELSE maybe
    /\ UNCHANGED <<config, next, buffer, rest, disp, written, failed, confirmed, dlq>>

\* Every step is of one of these kinds, and no flag is taken back.
LEMMA StepKinds ==
    ASSUME IInv, [Next]_vars
    PROVE  /\ signal => signal'
           /\ shutting => shutting'
           /\ \/ Quiet \/ Adds \/ TakesWedged \/ DropSink
              \/ \E t \in Threads : \/ Takes(t) \/ NextChunk(t)
                                   \/ \E amb \in BOOLEAN : Routes(t, amb)
                                   \/ SendOk(t) \/ RouteHead(t)
<1> DEFINE Kind == \/ Quiet \/ Adds \/ TakesWedged \/ DropSink
                   \/ \E t \in Threads : \/ Takes(t) \/ NextChunk(t)
                                        \/ \E amb \in BOOLEAN : Routes(t, amb)
                                        \/ SendOk(t) \/ RouteHead(t)
           Up == (signal => signal') /\ (shutting => shutting')
<1> USE DEF Up
<1>0. /\ PhaseInv /\ FlagInv /\ pc \in [Threads -> Pcs]
      /\ signal \in BOOLEAN /\ shutting \in BOOLEAN
      /\ ambiguous \in [Threads -> BOOLEAN] /\ permits \subseteq Handles
  BY TypeParts DEF IInv, ControlType, DataType
<1>1. ASSUME \/ Signal \/ Consume \/ StartDrain \/ CheckFlag \/ AwaitFlush \/ Timer
             \/ LoadFlag \/ Register \/ BackoffEnds \/ BeginShutdown
             \/ NotifyWaiters \/ UNCHANGED vars
             \/ \E t \in Threads : ChunksDone(t)
      PROVE  Kind /\ Up
  <2>1. Quiet
    BY <1>1 DEF Quiet, Signal, Consume, StartDrain, CheckFlag, AwaitFlush, Timer,
       LoadFlag, Register, BackoffEnds, BeginShutdown, NotifyWaiters, vars,
       ChunksDone, flags, parked, work, outcome
  <2>2. (signal' = signal \/ signal' = TRUE) /\ (shutting' = shutting \/ shutting' = TRUE)
    BY <1>1, Zenon DEF Signal, Consume, StartDrain, CheckFlag, AwaitFlush, Timer,
       LoadFlag, Register, BackoffEnds, BeginShutdown, NotifyWaiters, vars,
       ChunksDone, flags
  <2> QED
    BY <2>1, <2>2
<1>2. CASE Park
  <2>1. Adds
    BY <1>0, <1>2 DEF Park, MayPark, Adds, FlagInv, flags
  <2> QED
    BY <1>2, <2>1 DEF Park, flags
<1>3. CASE ConsumeShutdown
  <2>1. Adds
    BY <1>0, <1>3 DEF ConsumeShutdown, Adds, FlagInv, flags
  <2> QED
    BY <1>3, <2>1 DEF ConsumeShutdown, flags
<1>4. CASE TakeBuffer
  <2>1. Quiet \/ Takes("actor")
    BY <1>0, <1>4 DEF TakeBuffer, Quiet, Takes, PhaseInv, Threads, flags, work
  <2> QED
    BY <1>4, <2>1 DEF TakeBuffer, flags, Threads
<1>5. CASE Join
  <2>1. Takes("caller") \/ TakesWedged
    BY <1>0, <1>5 DEF Join, Takes, TakesWedged, PhaseInv, FlagInv, Threads, flags
  <2> QED
    BY <1>5, <2>1 DEF Join, flags, Threads
<1>6. ASSUME NEW t \in Threads, NEW amb \in BOOLEAN, RouteBatch(t, amb),
             t = "caller" \/ amb => shutting,
             pc[t] \in {"prepare", "send"},
             maybe' = IF amb THEN maybe \cup ToSet(batch[t]) ELSE maybe,
             UNCHANGED <<flags, next, buffer, rest, disp, written, failed, confirmed, dlq>>
      PROVE  Kind /\ Up
  <2>1. Routes(t, amb)
    <3>1. route[t] = <<>>
      BY <1>0, <1>6 DEF PhaseInv
    <3>2. /\ permits' \subseteq permits
          /\ permits' = permits \/ shutting
      BY <1>6 DEF RouteBatch
    <3> QED
      BY <1>6, <3>1, <3>2 DEF Routes, RouteBatch, flags
  <2> QED
    BY <1>6, <2>1 DEF flags
<1>7. ASSUME NEW t \in Threads, Prepare(t)
      PROVE  Kind /\ Up
  <2>1. CASE RouteBatch(t, FALSE)
    BY <1>0, <1>6, <1>7, <2>1 DEF Prepare, FlagInv, outcome
  <2>2. CASE ~RouteBatch(t, FALSE)
    <3>1. Quiet
      BY <1>7, <2>2 DEF Prepare, Quiet, flags, work
    <3> QED
      BY <1>7, <3>1 DEF Prepare, flags
  <2> QED
    BY <2>1, <2>2
<1>8. CASE SendErr
  <2>1. CASE RouteBatch("actor", FALSE)
    BY <1>0, <1>6, <1>8, <2>1 DEF SendErr, Threads, outcome
  <2>2. CASE ~RouteBatch("actor", FALSE)
    <3>1. Quiet
      BY <1>8, <2>2 DEF SendErr, Quiet, flags, work
    <3> QED
      BY <1>8, <3>1 DEF SendErr, flags
  <2> QED
    BY <2>1, <2>2
<1>9. CASE SendCancelled
  BY <1>0, <1>6, <1>9 DEF SendCancelled, FlagInv, Threads
<1>10. CASE LastSendFails
  BY <1>0, <1>6, <1>10 DEF LastSendFails, FlagInv, Threads
<1>11. CASE DropSink
  <2>1. Up
    BY <1>11, Zenon DEF DropSink
  <2> QED
    BY <1>11, <2>1
<1>12. ASSUME NEW t \in Threads, NextChunk(t) \/ SendOk(t) \/ RouteHead(t)
       PROVE  Kind /\ Up
  <2>1. UNCHANGED flags
    BY <1>12, Zenon DEF NextChunk, SendOk, RouteHead
  <2> QED
    BY <1>12, <2>1 DEF flags
<1>13. "actor" \in Threads /\ "caller" \in Threads
  BY DEF Threads
<1>14. CASE Actor
  BY <1>1, <1>4, <1>7, <1>8, <1>9, <1>12, <1>13, <1>14 DEF Actor
<1>15. CASE Caller
  BY <1>1, <1>2, <1>3, <1>5, <1>7, <1>10, <1>12, <1>13, <1>15 DEF Caller
<1>16. Kind /\ Up
  BY <1>1, <1>11, <1>14, <1>15 DEF Next
<1> QED
  BY <1>16 DEF Kind, Up

\* The shape of what a thread does: of the parked events and those it has in
\* hand it resolves S and keeps the others, each in one place.
LEMMA OwnersMove ==
    ASSUME ListInv, OwnerInv, next' = next, next \in 0 .. N,
           NEW t \in Threads, NEW S,
           \A u \in Threads : u # t =>
               rest'[u] = rest[u] /\ batch'[u] = batch[u] /\ route'[u] = route[u],
           Distinct(buffer'), Distinct(rest'[t]), Distinct(batch'[t]),
           Distinct(route'[t]),
           ToSet(rest'[t]) \cap ToSet(batch'[t]) = {},
           ToSet(rest'[t]) \cap ToSet(route'[t]) = {},
           ToSet(batch'[t]) \cap ToSet(route'[t]) = {},
           ToSet(buffer') \cap (ToSet(rest'[t]) \cup ToSet(batch'[t]) \cup ToSet(route'[t])) = {},
           ToSet(buffer') \cup ToSet(rest'[t]) \cup ToSet(batch'[t]) \cup ToSet(route'[t])
               = (ToSet(buffer) \cup Work(t)) \ S,
           S \subseteq Work(t),
           \A p \in Handles : disp'[p] = "none" <=> disp[p] = "none" /\ p \notin S
    PROVE  ListInv' /\ OwnerInv' /\ Held' = Held \ S
<1>1. PICK u \in Threads : u # t /\ Threads = {t, u}
  BY DEF Threads
<1>2. /\ ToSet(buffer) \cap Work(t) = {}
      /\ ToSet(buffer) \cap Work(u) = {}
      /\ Work(t) \cap Work(u) = {}
      /\ Held = ToSet(buffer) \cup Work(t) \cup Work(u)
  BY <1>1 DEF OwnerInv, Threads
<1>3. Work(u)' = Work(u)
  BY <1>1 DEF Work
<1>4. ToSet(buffer') \cup Work(t)' = (ToSet(buffer) \cup Work(t)) \ S
  BY DEF Work
<1>5. ToSet(buffer') \cap Work(t)' = {}
  BY DEF Work
<1>6. Held' = Held \ S
  BY DEF Held, Handles
<1>7. ListInv'
  BY <1>1 DEF ListInv
<1>8. /\ ToSet(buffer') \cap Work(u)' = {}
      /\ Work(t)' \cap Work(u)' = {}
      /\ Held' = ToSet(buffer') \cup Work(t)' \cup Work(u)'
  BY <1>2, <1>3, <1>4, <1>6
<1>9. \A p \in Handles : p > next' => disp'[p] = "none"
  <2> SUFFICES ASSUME NEW p \in Handles, p > next PROVE p \notin S /\ disp[p] = "none"
    OBVIOUS
  <2>1. p \notin Held
    BY DEF Held, Handles
  <2> QED
    BY <2>1, <1>2 DEF OwnerInv
<1>10. OwnerInv'
  BY <1>1, <1>5, <1>8, <1>9 DEF OwnerInv, Threads
<1> QED
  BY <1>6, <1>7, <1>10

\* What the events of S have become when they leave the sink; none of the
\* others changes.
Settles(S) ==
    /\ Held' = Held \ S
    /\ \A p \in S : disp'[p] # "none"
    /\ \A p \in Handles \ S : disp'[p] = disp[p]

\* The new event joins those the sink owns.
Accepts ==
    /\ next + 1 \in Handles \ Held
    /\ Held' = Held \cup {next + 1}
    /\ disp[next + 1] = "none" /\ UNCHANGED disp

\* What every step keeps of the events, and how the ack contract sees it.
Good == /\ DataType' /\ DataInv'
        /\ Accepts \/ \E S \in SUBSET Held : Settles(S)

\* The sequences of a thread.
LEMMA HandFacts ==
    ASSUME IInv, NEW t \in Threads
    PROVE  /\ buffer \in Seq(Handles) /\ rest[t] \in Seq(Handles)
           /\ batch[t] \in Seq(Handles) /\ route[t] \in Seq(Handles)
           /\ Distinct(buffer) /\ Distinct(rest[t])
           /\ Distinct(batch[t]) /\ Distinct(route[t])
           /\ Len(rest[t]) \in Nat /\ Len(batch[t]) \in Nat
           /\ ToSet(rest[t]) \cap ToSet(batch[t]) = {}
           /\ ToSet(rest[t]) \cap ToSet(route[t]) = {}
           /\ ToSet(batch[t]) \cap ToSet(route[t]) = {}
           /\ ToSet(buffer) \cap Work(t) = {}
           /\ Work(t) \subseteq Held
           /\ Held \subseteq Handles /\ \A p \in Held : disp[p] = "none"
           /\ next \in 0 .. N /\ BatchSize \in Nat \ {0}
           /\ \A u \in Threads : u # t => Work(u) \cap Work(t) = {}
<1>1. /\ DataType /\ ListInv /\ OwnerInv
  BY TypeParts DEF IInv, DataInv
<1>2. buffer \in Seq(Handles) /\ rest[t] \in Seq(Handles)
      /\ batch[t] \in Seq(Handles) /\ route[t] \in Seq(Handles)
  BY <1>1 DEF DataType
<1>3. Len(rest[t]) \in Nat /\ Len(batch[t]) \in Nat
  BY <1>2, LenProperties
<1>4. /\ Distinct(buffer) /\ Distinct(rest[t])
      /\ Distinct(batch[t]) /\ Distinct(route[t])
      /\ ToSet(rest[t]) \cap ToSet(batch[t]) = {}
      /\ ToSet(rest[t]) \cap ToSet(route[t]) = {}
      /\ ToSet(batch[t]) \cap ToSet(route[t]) = {}
  BY <1>1 DEF ListInv
<1>5. /\ ToSet(buffer) \cap Work(t) = {} /\ Work(t) \subseteq Held
      /\ \A u \in Threads : u # t => Work(u) \cap Work(t) = {}
  BY <1>1 DEF OwnerInv, Threads
<1>6. next \in 0 .. N /\ BatchSize \in Nat \ {0}
  BY <1>1 DEF DataType, BatchSize
<1>7. Held \subseteq Handles /\ \A p \in Held : disp[p] = "none"
  BY <1>6 DEF Held, Handles
<1> QED
  BY <1>2, <1>3, <1>4, <1>5, <1>6, <1>7

\* A step that resolves nothing keeps what is known of the outcomes.
LEMMA OutcomeKept ==
    ASSUME IInv, UNCHANGED <<config, disp, written, failed, maybe, dlq>>
    PROVE  NoFabricatedRecovery' /\ RecoveredIsOnRecord' /\ MetricsExact'
  BY DEF IInv, DataInv, NoFabricatedRecovery, RecoveredIsOnRecord, MetricsExact,
         Backend, ErrorLog

\* Giving permits back keeps their number in bounds.
LEMMA PermitsKept ==
    ASSUME IInv, permits' \subseteq permits, config' = config
    PROVE  /\ Cardinality(permits') <= PermitCap'
           /\ permits' \in SUBSET Handles
<1>1. /\ permits \subseteq Handles /\ Cardinality(permits) <= PermitCap
      /\ BatchSize \in Nat
  BY TypeParts DEF IInv, DataType, DataInv, PermitInv, BatchSize
<1>2. IsFiniteSet(permits) /\ IsFiniteSet(permits')
  BY <1>1, HandlesFinite
<1>3. /\ Cardinality(permits') <= Cardinality(permits)
      /\ Cardinality(permits) \in Nat /\ Cardinality(permits') \in Nat
  BY <1>2, FS_Subset, FS_CardinalityType
<1>4. PermitCap' = PermitCap /\ PermitCap \in Nat
  BY <1>1 DEF PermitCap, BatchSize
<1> QED
  BY <1>1, <1>3, <1>4

\* A step that moves no event keeps every part of the data invariant.
LEMMA QuietIsGood ==
    ASSUME IInv, Quiet, signal => signal', shutting => shutting',
           signal \in BOOLEAN, shutting \in BOOLEAN
    PROVE  Good
<1>1. DataType /\ DataInv
  BY TypeParts DEF IInv
<1>2. DataType'
  BY <1>1 DEF DataType, Quiet, work, outcome, BatchSize
<1>3. Held' = Held /\ disp' = disp
  BY DEF Held, Quiet, outcome
<1>4. ListInv' /\ OwnerInv' /\ MaybeInv'
  BY <1>1, <1>3 DEF DataInv, ListInv, OwnerInv, MaybeInv, Work, Quiet, work, outcome
<1>5. PermitInv'
  BY <1>1, <1>3 DEF DataInv, PermitInv, PermitCap, BatchSize, Quiet, work
<1>6. NoFabricatedRecovery' /\ RecoveredIsOnRecord' /\ MetricsExact'
  BY OutcomeKept DEF Quiet, outcome
<1>7. {} \in SUBSET Held /\ Settles({})
  BY <1>3 DEF Settles
<1> QED
  BY <1>2, <1>4, <1>5, <1>6, <1>7 DEF Good, DataInv

\* consume() puts the next event into the buffer.
LEMMA AddsIsGood ==
    ASSUME IInv, Adds, signal => signal', shutting => shutting'
    PROVE  Good
<1>0. /\ DataType /\ ListInv /\ OwnerInv /\ PermitInv /\ MaybeInv
      /\ signal \in BOOLEAN /\ shutting \in BOOLEAN
  BY TypeParts DEF IInv, DataInv, ControlType
<1> DEFINE p == next + 1
<1>1. p \in Handles /\ p > next /\ next \in 0 .. N
  BY <1>0 DEF Adds, DataType, Handles
<1>2. disp[p] = "none" /\ p \notin Held
  BY <1>0, <1>1 DEF OwnerInv, Held
<1>3. /\ ToSet(buffer) \subseteq Held /\ Work("actor") \subseteq Held
      /\ Work("caller") \subseteq Held
  BY <1>0 DEF OwnerInv
<1>4. /\ buffer' \in Seq(Handles) /\ Distinct(buffer')
      /\ ToSet(buffer') = ToSet(buffer) \cup {p}
  BY <1>0, <1>1, <1>2, <1>3, AppendDistinct DEF Adds, DataType, ListInv
<1>5. Held' = Held \cup {p}
  <2>1. 1 .. next + 1 = (1 .. next) \cup {p}
    BY <1>1
  <2> QED
    BY <1>2, <2>1 DEF Held, Adds, outcome
<1>6. Accepts
  BY <1>1, <1>2, <1>5 DEF Accepts, Adds, outcome
<1>7. ListInv'
  BY <1>0, <1>4 DEF ListInv, Adds, work
<1>8. OwnerInv'
  <2>1. Work("actor")' = Work("actor") /\ Work("caller")' = Work("caller")
    BY DEF Work, Adds, work
  <2>2. \A q \in Handles : q > next' => disp'[q] = "none"
    BY <1>0, <1>1 DEF OwnerInv, Adds, outcome, Handles
  <2>3. /\ ToSet(buffer') \cap Work("actor")' = {}
        /\ ToSet(buffer') \cap Work("caller")' = {}
        /\ Work("actor")' \cap Work("caller")' = {}
        /\ Held' = ToSet(buffer') \cup Work("actor")' \cup Work("caller")'
    <3> HIDE DEF p
    <3> QED
      BY <1>0, <1>2, <1>3, <1>4, <1>5, <2>1 DEF OwnerInv
  <2> QED
    BY <2>2, <2>3 DEF OwnerInv
<1>9. PermitInv' /\ permits' \in SUBSET Handles
  <2>1. permits \in SUBSET Handles /\ IsFiniteSet(permits) /\ PermitCap \in Nat
    <3>1. permits \in SUBSET Handles /\ BatchSize \in Nat
      BY <1>0 DEF DataType, BatchSize
    <3> QED
      BY <3>1, HandlesFinite DEF PermitCap
  <2>2. PermitCap' = PermitCap
    BY DEF Adds, PermitCap, BatchSize
  <2>3. CASE signal /\ UNCHANGED permits
    BY <1>0, <2>1, <2>2, <2>3 DEF PermitInv
  <2>4. CASE Cardinality(permits) < PermitCap /\ permits' = permits \cup {p}
    <3>1. Cardinality(permits') <= PermitCap
      <4>1. /\ Cardinality(permits') \in {Cardinality(permits), Cardinality(permits) + 1}
            /\ Cardinality(permits) \in Nat
        BY <2>1, <2>4, FS_AddElement, HandlesFinite
      <4> QED
        BY <2>1, <2>4, <4>1
    <3>2. ~signal' /\ ~shutting' => Held' \ ToSet(route'["actor"]) \subseteq permits'
      BY <1>0, <1>5, <2>4 DEF PermitInv, Adds, work
    <3> QED
      BY <1>1, <2>1, <2>2, <2>4, <3>1, <3>2 DEF PermitInv
  <2> QED
    BY <2>3, <2>4 DEF Adds
<1>10. MaybeInv'
  BY <1>0 DEF MaybeInv, Adds, work, outcome
<1>11. NoFabricatedRecovery' /\ RecoveredIsOnRecord' /\ MetricsExact'
  BY OutcomeKept DEF Adds, outcome
<1>12. DataType'
  BY <1>0, <1>1, <1>4, <1>9 DEF DataType, Adds, work, outcome, BatchSize, Handles
<1> QED
  BY <1>6, <1>7, <1>8, <1>9, <1>10, <1>11, <1>12 DEF Good, DataInv

\* A flush takes the buffer.
LEMMA TakesIsGood ==
    ASSUME IInv, NEW t \in Threads, Takes(t), signal => signal', shutting => shutting'
    PROVE  Good
<1>0. /\ DataType /\ ListInv /\ OwnerInv /\ PermitInv /\ MaybeInv
      /\ signal \in BOOLEAN /\ shutting \in BOOLEAN
  BY TypeParts DEF IInv, DataInv, ControlType
<1>1. /\ rest'[t] = buffer /\ batch'[t] = batch[t] /\ route'[t] = route[t]
      /\ rest[t] = <<>> /\ buffer' = <<>>
      /\ \A u \in Threads : u # t =>
            rest'[u] = rest[u] /\ batch'[u] = batch[u] /\ route'[u] = route[u]
  BY <1>0 DEF Takes, DataType
<1>2. ToSet(rest[t]) = {} /\ ToSet(buffer') = {} /\ Distinct(buffer')
  BY <1>1, EmptyIsDistinct
<1>3. ListInv' /\ OwnerInv' /\ Held' = Held
  <2>1. /\ Distinct(rest'[t]) /\ Distinct(batch'[t]) /\ Distinct(route'[t])
        /\ ToSet(rest'[t]) \cap ToSet(batch'[t]) = {}
        /\ ToSet(rest'[t]) \cap ToSet(route'[t]) = {}
        /\ ToSet(batch'[t]) \cap ToSet(route'[t]) = {}
    BY <1>1, HandFacts DEF Work
  <2>2. ToSet(buffer') \cap (ToSet(rest'[t]) \cup ToSet(batch'[t]) \cup ToSet(route'[t])) = {}
    BY <1>2
  <2>3. ToSet(buffer') \cup ToSet(rest'[t]) \cup ToSet(batch'[t]) \cup ToSet(route'[t])
          = (ToSet(buffer) \cup Work(t)) \ {}
    BY <1>1, <1>2 DEF Work
  <2>4. next' = next /\ next \in 0 .. N /\ disp' = disp
    BY <1>0 DEF Takes, outcome, DataType
  <2>5. ListInv' /\ OwnerInv' /\ Held' = Held \ {}
    BY <1>0, <1>1, <1>2, <2>1, <2>2, <2>3, <2>4, OwnersMove
  <2> QED
    BY <2>5
<1>4. DataType'
  BY <1>0, EmptyIsDistinct DEF DataType, Takes, outcome, BatchSize
<1>5. PermitInv'
  BY <1>0, <1>3 DEF PermitInv, Takes, PermitCap, BatchSize
<1>6. MaybeInv'
  BY <1>0 DEF MaybeInv, Takes, outcome
<1>7. NoFabricatedRecovery' /\ RecoveredIsOnRecord' /\ MetricsExact'
  BY OutcomeKept DEF Takes, outcome
<1>8. {} \in SUBSET Held /\ Settles({})
  BY <1>3 DEF Settles, Takes, outcome
<1> QED
  BY <1>3, <1>4, <1>5, <1>6, <1>7, <1>8 DEF Good, DataInv

\* The wedged drain takes the buffer at shutdown.
LEMMA TakesWedgedIsGood ==
    ASSUME IInv, TakesWedged, shutting'
    PROVE  Good
<1> DEFINE t == "caller"
<1>0. /\ DataType /\ ListInv /\ OwnerInv /\ MaybeInv
      /\ t \in Threads
  BY TypeParts DEF IInv, DataInv, Threads
<1> HIDE DEF t
<1>1. /\ rest'[t] = rest[t] /\ batch'[t] = batch[t] /\ route'[t] = buffer
      /\ route[t] = <<>> /\ buffer' = <<>> /\ ambiguous'[t] = TRUE
      /\ \A u \in Threads : u # t =>
            /\ rest'[u] = rest[u] /\ batch'[u] = batch[u] /\ route'[u] = route[u]
            /\ ambiguous'[u] = ambiguous[u]
  BY <1>0 DEF TakesWedged, DataType, t
<1>2. ToSet(route[t]) = {} /\ ToSet(buffer') = {} /\ Distinct(buffer')
  BY <1>1, EmptyIsDistinct
<1>3. ListInv' /\ OwnerInv' /\ Held' = Held
  <2>1. /\ Distinct(rest'[t]) /\ Distinct(batch'[t]) /\ Distinct(route'[t])
        /\ ToSet(rest'[t]) \cap ToSet(batch'[t]) = {}
        /\ ToSet(rest'[t]) \cap ToSet(route'[t]) = {}
        /\ ToSet(batch'[t]) \cap ToSet(route'[t]) = {}
    BY <1>0, <1>1, HandFacts DEF Work
  <2>2. ToSet(buffer') \cap (ToSet(rest'[t]) \cup ToSet(batch'[t]) \cup ToSet(route'[t])) = {}
    BY <1>2
  <2>3. ToSet(buffer') \cup ToSet(rest'[t]) \cup ToSet(batch'[t]) \cup ToSet(route'[t])
          = (ToSet(buffer) \cup Work(t)) \ {}
    BY <1>1, <1>2 DEF Work
  <2>4. next' = next /\ next \in 0 .. N /\ disp' = disp
    BY <1>0 DEF TakesWedged, outcome, DataType
  <2>5. ListInv' /\ OwnerInv' /\ Held' = Held \ {}
    BY <1>0, <1>1, <1>2, <2>1, <2>2, <2>3, <2>4, OwnersMove
  <2> QED
    BY <2>5
<1>4. permits' \subseteq permits /\ config' = config
  BY DEF TakesWedged
<1>5. DataType'
  BY <1>0, <1>4, EmptyIsDistinct, PermitsKept DEF DataType, TakesWedged, outcome, BatchSize, t
<1>6. PermitInv'
  BY <1>4, PermitsKept DEF PermitInv
<1>7. MaybeInv'
  <2> SUFFICES ASSUME NEW p \in maybe, disp[p] = "none"
               PROVE  \E u \in Threads : p \in ToSet(route'[u]) /\ ambiguous'[u]
    BY DEF MaybeInv, TakesWedged, outcome
  <2>1. PICK u \in Threads : p \in ToSet(route[u]) /\ ambiguous[u]
    BY <1>0 DEF MaybeInv
  <2> QED
    BY <1>1, <1>2, <2>1
<1>8. NoFabricatedRecovery' /\ RecoveredIsOnRecord' /\ MetricsExact'
  BY OutcomeKept DEF TakesWedged, outcome
<1>9. {} \in SUBSET Held /\ Settles({})
  BY <1>3 DEF Settles, TakesWedged, outcome
<1> QED
  BY <1>3, <1>5, <1>6, <1>7, <1>8, <1>9 DEF Good, DataInv

\* A batch is sent to the dead-letter route.
LEMMA RoutesIsGood ==
    ASSUME IInv, NEW t \in Threads, NEW amb \in BOOLEAN, Routes(t, amb),
           signal => signal', shutting => shutting'
    PROVE  Good
<1>0. /\ DataType /\ ListInv /\ OwnerInv /\ PermitInv /\ MaybeInv
      /\ NoFabricatedRecovery /\ RecoveredIsOnRecord /\ MetricsExact
      /\ signal \in BOOLEAN /\ shutting \in BOOLEAN
  BY TypeParts DEF IInv, DataInv, ControlType
<1>1. /\ rest'[t] = rest[t] /\ batch'[t] = <<>> /\ route'[t] = batch[t]
      /\ route[t] = <<>> /\ buffer' = buffer /\ ambiguous'[t] = amb
      /\ \A u \in Threads : u # t =>
            /\ rest'[u] = rest[u] /\ batch'[u] = batch[u] /\ route'[u] = route[u]
            /\ ambiguous'[u] = ambiguous[u]
  BY <1>0 DEF Routes, DataType
<1>2. ToSet(route[t]) = {} /\ ToSet(batch'[t]) = {} /\ Distinct(batch'[t])
  BY <1>1, EmptyIsDistinct
<1>3. ListInv' /\ OwnerInv' /\ Held' = Held
  <2>1. /\ Distinct(buffer') /\ Distinct(rest'[t]) /\ Distinct(route'[t])
        /\ ToSet(rest'[t]) \cap ToSet(batch'[t]) = {}
        /\ ToSet(rest'[t]) \cap ToSet(route'[t]) = {}
        /\ ToSet(batch'[t]) \cap ToSet(route'[t]) = {}
    BY <1>1, <1>2, HandFacts
  <2>2. ToSet(buffer') \cap (ToSet(rest'[t]) \cup ToSet(batch'[t]) \cup ToSet(route'[t])) = {}
    BY <1>1, <1>2, HandFacts DEF Work
  <2>3. ToSet(buffer') \cup ToSet(rest'[t]) \cup ToSet(batch'[t]) \cup ToSet(route'[t])
          = (ToSet(buffer) \cup Work(t)) \ {}
    BY <1>1, <1>2 DEF Work
  <2>4. next' = next /\ next \in 0 .. N /\ disp' = disp
    BY <1>0 DEF Routes, DataType
  <2>5. ListInv' /\ OwnerInv' /\ Held' = Held \ {}
    BY <1>0, <1>1, <1>2, <2>1, <2>2, <2>3, <2>4, OwnersMove
  <2> QED
    BY <2>5
<1>4. permits' \subseteq permits /\ config' = config
  BY DEF Routes
<1>5. ToSet(batch[t]) \subseteq Handles
  BY HandFacts DEF Work
<1>6. DataType'
  <2>1. \A u \in Threads : Len(batch'[u]) <= BatchSize'
    <3>1. BatchSize' = BatchSize /\ BatchSize \in Nat
      BY <1>4, HandFacts DEF BatchSize
    <3>2. Len(batch'[t]) <= BatchSize
      BY <1>1, <3>1, EmptyIsDistinct
    <3>3. \A u \in Threads : u # t => Len(batch'[u]) <= BatchSize
      BY <1>0, <1>1 DEF DataType
    <3> QED
      BY <3>1, <3>2, <3>3
  <2>2. maybe' \in SUBSET Handles
    BY <1>0, <1>5 DEF DataType, Routes
  <2> QED
    BY <1>0, <1>4, <2>1, <2>2, EmptyIsDistinct, PermitsKept DEF DataType, Routes
<1>7. PermitInv'
  <2>1. Cardinality(permits') <= PermitCap'
    BY <1>4, PermitsKept
  <2>2. ASSUME ~signal', ~shutting' PROVE Held' \ ToSet(route'["actor"]) \subseteq permits'
    <3>1. permits' = permits /\ Held \ ToSet(route["actor"]) \subseteq permits
      BY <1>0, <2>2 DEF Routes, PermitInv
    <3>2. ToSet(route["actor"]) \subseteq ToSet(route'["actor"])
      BY <1>1, <1>2 DEF Threads
    <3> QED
      BY <1>3, <3>1, <3>2
  <2> QED
    BY <2>1, <2>2 DEF PermitInv
<1>8. MaybeInv'
  <2> SUFFICES ASSUME NEW p \in maybe', disp[p] = "none"
               PROVE  \E u \in Threads : p \in ToSet(route'[u]) /\ ambiguous'[u]
    BY DEF MaybeInv, Routes
  <2>1. CASE p \in maybe
    <3>1. PICK u \in Threads : p \in ToSet(route[u]) /\ ambiguous[u]
      BY <1>0, <2>1 DEF MaybeInv
    <3> QED
      BY <1>1, <1>2, <3>1
  <2>2. CASE p \notin maybe
    BY <1>1, <2>2 DEF Routes
  <2> QED
    BY <2>1, <2>2
<1>9. NoFabricatedRecovery'
  <2>1. \A p \in ToSet(batch[t]) : disp[p] = "none"
    BY HandFacts DEF Work
  <2> QED
    BY <1>0, <2>1 DEF NoFabricatedRecovery, Routes, Backend
<1>10. RecoveredIsOnRecord' /\ MetricsExact'
  BY <1>0 DEF RecoveredIsOnRecord, MetricsExact, Routes, Backend, ErrorLog
<1>11. {} \in SUBSET Held /\ Settles({})
  BY <1>3 DEF Settles, Routes
<1> QED
  BY <1>3, <1>6, <1>7, <1>8, <1>9, <1>10, <1>11 DEF Good, DataInv

\* render_batch cuts a chunk off the drained events and splits it in two.
LEMMA NextChunkIsGood ==
    ASSUME IInv, NEW t \in Threads, NextChunk(t), signal => signal', shutting => shutting'
    PROVE  Good
<1>0. /\ DataType /\ ListInv /\ OwnerInv /\ PermitInv /\ MaybeInv
      /\ signal \in BOOLEAN /\ shutting \in BOOLEAN
      /\ FlagInv /\ PhaseInv
  BY TypeParts DEF IInv, DataInv, ControlType
<1> DEFINE n == ChunkLen(t)
           head == SubSeq(rest[t], 1, n)
           tail == SubSeq(rest[t], n + 1, Len(rest[t]))
           chunk == ToSet(head)
<1>1. batch[t] = <<>> /\ route[t] = <<>>
  BY <1>0 DEF NextChunk, PhaseInv
<1>2. ToSet(batch[t]) = {} /\ ToSet(route[t]) = {}
  BY <1>1, EmptyIsDistinct
<1>3. n \in 0 .. Len(rest[t]) /\ n <= BatchSize /\ n \in Nat
  BY HandFacts DEF ChunkLen
<1>4. /\ head \in Seq(Handles) /\ tail \in Seq(Handles)
      /\ Len(head) = n /\ Distinct(tail)
      /\ chunk \cup ToSet(tail) = ToSet(rest[t])
      /\ chunk \cap ToSet(tail) = {}
  <2> HIDE DEF n
  <2> QED
    BY <1>3, HandFacts, CutProperties
<1>a. PICK bad \in SUBSET chunk :
        /\ \E f \in InOrder(bad) : route' = [route EXCEPT ![t] = f]
        /\ \E f \in InOrder(chunk \ bad) : batch' = [batch EXCEPT ![t] = f]
        /\ permits' = permits \ bad
  BY DEF NextChunk
<1>b. PICK failing \in InOrder(bad) : route' = [route EXCEPT ![t] = failing]
  BY <1>a
<1>c. PICK shippable \in InOrder(chunk \ bad) : batch' = [batch EXCEPT ![t] = shippable]
  BY <1>a
<1>5. /\ route' = [route EXCEPT ![t] = failing]
      /\ batch' = [batch EXCEPT ![t] = shippable]
      /\ permits' = permits \ bad
  BY <1>a, <1>b, <1>c
<1>6. /\ rest' = [rest EXCEPT ![t] = tail]
      /\ ambiguous' = [ambiguous EXCEPT ![t] = FALSE]
      /\ UNCHANGED <<config, next, buffer, outcome>>
  BY DEF NextChunk, flags
<1> HIDE DEF n, head, tail
<1>7. /\ chunk \subseteq Handles /\ IsFiniteSet(chunk)
      /\ Cardinality(chunk) <= n /\ IsFiniteSet(bad)
      /\ Cardinality(chunk \ bad) <= Cardinality(chunk)
      /\ Cardinality(chunk) \in Nat /\ Cardinality(chunk \ bad) \in Nat
      /\ IsFiniteSet(chunk \ bad)
  <2>1. chunk \subseteq Handles /\ IsFiniteSet(chunk) /\ Cardinality(chunk) <= n
    BY <1>4, ToSetProperties
  <2>2. chunk \ bad \in SUBSET chunk /\ chunk \ bad \in SUBSET Handles /\ bad \in SUBSET Handles
    BY <2>1
  <2> QED
    BY <2>1, <2>2, HandlesFinite, FS_Subset
<1>8. /\ failing \in Seq(Handles) /\ Distinct(failing) /\ ToSet(failing) = bad
      /\ shippable \in Seq(Handles) /\ Distinct(shippable)
      /\ ToSet(shippable) = chunk \ bad
      /\ Len(shippable) = Cardinality(chunk \ bad)
  <2>1. bad \subseteq Handles /\ chunk \ bad \subseteq Handles
    BY <1>7
  <2> HIDE DEF chunk
  <2> QED
    BY <1>7, <2>1, InOrderProperties
<1> HIDE DEF chunk
<1>9. /\ rest'[t] = tail /\ batch'[t] = shippable /\ route'[t] = failing
      /\ \A u \in Threads : u # t =>
            /\ rest'[u] = rest[u] /\ batch'[u] = batch[u] /\ route'[u] = route[u]
            /\ ambiguous'[u] = ambiguous[u]
  BY <1>0, <1>5, <1>6 DEF DataType
<1>10. ListInv' /\ OwnerInv' /\ Held' = Held
  <2>1. /\ Distinct(buffer') /\ Distinct(rest'[t]) /\ Distinct(batch'[t])
        /\ Distinct(route'[t])
        /\ ToSet(rest'[t]) \cap ToSet(batch'[t]) = {}
        /\ ToSet(rest'[t]) \cap ToSet(route'[t]) = {}
        /\ ToSet(batch'[t]) \cap ToSet(route'[t]) = {}
    BY <1>4, <1>6, <1>8, <1>9, HandFacts
  <2>2. ToSet(rest'[t]) \cup ToSet(batch'[t]) \cup ToSet(route'[t]) = Work(t)
    BY <1>2, <1>4, <1>8, <1>9 DEF Work
  <2>3. ToSet(buffer') \cap (ToSet(rest'[t]) \cup ToSet(batch'[t]) \cup ToSet(route'[t])) = {}
    BY <1>6, <2>2, HandFacts
  <2>4. ToSet(buffer') \cup ToSet(rest'[t]) \cup ToSet(batch'[t]) \cup ToSet(route'[t])
          = (ToSet(buffer) \cup Work(t)) \ {}
    BY <1>6, <2>2
  <2>5. next' = next /\ next \in 0 .. N /\ disp' = disp
    BY <1>0, <1>6 DEF outcome, DataType
  <2>6. ListInv' /\ OwnerInv' /\ Held' = Held \ {}
    BY <1>0, <1>9, <2>1, <2>3, <2>4, <2>5, OwnersMove
  <2> QED
    BY <2>6
<1>11. DataType'
  <2>1. Len(shippable) <= BatchSize /\ BatchSize' = BatchSize
    BY <1>3, <1>6, <1>7, <1>8, HandFacts DEF BatchSize
  <2>2. \A u \in Threads : Len(batch'[u]) <= BatchSize'
    BY <1>0, <1>9, <2>1 DEF DataType
  <2> QED
    BY <1>0, <1>4, <1>5, <1>6, <1>8, <2>2 DEF DataType, outcome
<1>12. PermitInv'
  <2>1. Cardinality(permits') <= PermitCap'
    BY <1>5, <1>6, PermitsKept
  <2>2. ASSUME ~signal', ~shutting' PROVE Held' \ ToSet(route'["actor"]) \subseteq permits'
    <3>1. t = "actor"
      BY <1>0, <2>2 DEF FlagInv, NextChunk, Threads
    <3>2. Held \ ToSet(route["actor"]) \subseteq permits
      BY <1>0, <2>2 DEF PermitInv
    <3> QED
      BY <1>2, <1>5, <1>8, <1>9, <1>10, <3>1, <3>2
  <2> QED
    BY <2>1, <2>2 DEF PermitInv
<1>13. MaybeInv'
  <2> SUFFICES ASSUME NEW p \in maybe, disp[p] = "none"
               PROVE  \E u \in Threads : p \in ToSet(route'[u]) /\ ambiguous'[u]
    BY <1>6 DEF MaybeInv, outcome
  <2>1. PICK u \in Threads : p \in ToSet(route[u]) /\ ambiguous[u]
    BY <1>0 DEF MaybeInv
  <2> QED
    BY <1>2, <1>9, <2>1
<1>14. NoFabricatedRecovery' /\ RecoveredIsOnRecord' /\ MetricsExact'
  BY <1>6, OutcomeKept DEF outcome
<1>15. {} \in SUBSET Held /\ Settles({})
  BY <1>6, <1>10 DEF Settles, outcome
<1> QED
  BY <1>10, <1>11, <1>12, <1>13, <1>14, <1>15 DEF Good, DataInv

\* Counting events that come on top of others.
LEMMA CountMore ==
    ASSUME NEW S \in SUBSET Handles, NEW T \in SUBSET Handles, S \cap T = {}
    PROVE  Cardinality(S \cup T) = Cardinality(S) + Cardinality(T)
<1>1. /\ IsFiniteSet(S) /\ IsFiniteSet(T)
      /\ Cardinality(S) \in Nat /\ Cardinality(T) \in Nat
  BY HandlesFinite
<1>2. Cardinality(S \cup T) = Cardinality(S) + Cardinality(T) - Cardinality({})
  BY <1>1, FS_Union
<1> QED
  BY <1>1, <1>2, FS_EmptySet

\* An unresolved event of a cut-off send is in nobody's drained or shippable
\* events.
LEMMA MaybeIsRouted ==
    ASSUME IInv, NEW t \in Threads, NEW p \in maybe, p \in Work(t)
    PROVE  p \in ToSet(route[t]) /\ ambiguous[t] /\ p \notin ToSet(batch[t])
<1>1. disp[p] = "none"
  BY HandFacts
<1>2. PICK u \in Threads : p \in ToSet(route[u]) /\ ambiguous[u]
  BY <1>1 DEF IInv, DataInv, MaybeInv
<1>3. u = t
  BY <1>2, HandFacts DEF Work
<1> QED
  BY <1>2, <1>3, HandFacts

\* resolve_send_success: the accepted prefix is delivered, the rest routed.
LEMMA SendOkIsGood ==
    ASSUME IInv, NEW t \in Threads, SendOk(t), signal => signal', shutting => shutting'
    PROVE  Good
<1>0. /\ DataType /\ ListInv /\ OwnerInv /\ PermitInv /\ MaybeInv
      /\ NoFabricatedRecovery /\ RecoveredIsOnRecord /\ MetricsExact
      /\ signal \in BOOLEAN /\ shutting \in BOOLEAN
      /\ FlagInv /\ PhaseInv
  BY TypeParts DEF IInv, DataInv, ControlType
<1>1. PICK rejected \in 0 .. Len(batch[t]) :
        LET split == Len(batch[t]) - rejected
            accepted == ToSet(SubSeq(batch[t], 1, split)) IN
        /\ disp' = [p \in Handles |->
                      IF p \in accepted THEN "Delivered" ELSE disp[p]]
        /\ confirmed' = confirmed + split
        /\ written' = written + split
        /\ permits' = permits \ accepted
        /\ route' = [route EXCEPT ![t] =
                       SubSeq(batch[t], split + 1, Len(batch[t]))]
  BY DEF SendOk
<1> DEFINE n == Len(batch[t]) - rejected
           head == SubSeq(batch[t], 1, n)
           tail == SubSeq(batch[t], n + 1, Len(batch[t]))
           A == ToSet(head)
<1>2. /\ disp' = [p \in Handles |-> IF p \in A THEN "Delivered" ELSE disp[p]]
      /\ written' = written + n /\ confirmed' = confirmed + n
      /\ permits' = permits \ A
      /\ route' = [route EXCEPT ![t] = tail]
  BY <1>1
<1>3. /\ batch' = [batch EXCEPT ![t] = <<>>]
      /\ UNCHANGED <<config, next, buffer, rest, ambiguous, failed, maybe, dlq>>
  BY DEF SendOk, flags
<1>4. route[t] = <<>>
  BY <1>0 DEF SendOk, PhaseInv
<1>5. n \in 0 .. Len(batch[t])
  BY HandFacts
<1> HIDE DEF n
<1>6. /\ head \in Seq(Handles) /\ tail \in Seq(Handles)
      /\ Len(head) = n /\ Distinct(head) /\ Distinct(tail)
      /\ A \cup ToSet(tail) = ToSet(batch[t])
      /\ A \cap ToSet(tail) = {}
  BY <1>5, HandFacts, CutProperties
<1> HIDE DEF head, tail
<1>7. A \subseteq Handles /\ Cardinality(A) = n
  BY <1>6, ToSetProperties
<1> HIDE DEF A
<1>8. /\ ToSet(route[t]) = {} /\ ToSet(<<>>) = {} /\ Distinct(<<>>)
      /\ <<>> \in Seq(Handles) /\ Len(<<>>) = 0
  BY <1>4, EmptyIsDistinct
<1>9. /\ rest'[t] = rest[t] /\ batch'[t] = <<>> /\ route'[t] = tail
      /\ \A u \in Threads : u # t =>
            rest'[u] = rest[u] /\ batch'[u] = batch[u] /\ route'[u] = route[u]
  BY <1>0, <1>2, <1>3 DEF DataType
<1>10. A \subseteq ToSet(batch[t]) /\ A \subseteq Work(t) /\ A \subseteq Held
       /\ \A p \in A : disp[p] = "none"
  <2>1. A \subseteq ToSet(batch[t]) /\ A \subseteq Work(t)
    BY <1>6 DEF Work
  <2> QED
    BY <2>1, HandFacts
<1>11. \A p \in Handles : disp'[p] = IF p \in A THEN "Delivered" ELSE disp[p]
  BY <1>2
<1>12. ListInv' /\ OwnerInv' /\ Held' = Held \ A
  <2>1. /\ Distinct(buffer') /\ Distinct(rest'[t]) /\ Distinct(batch'[t])
        /\ Distinct(route'[t])
        /\ ToSet(rest'[t]) \cap ToSet(batch'[t]) = {}
        /\ ToSet(rest'[t]) \cap ToSet(route'[t]) = {}
        /\ ToSet(batch'[t]) \cap ToSet(route'[t]) = {}
    BY <1>3, <1>6, <1>8, <1>9, HandFacts
  <2>2. ToSet(rest'[t]) \cup ToSet(batch'[t]) \cup ToSet(route'[t]) = Work(t) \ A
    BY <1>6, <1>8, <1>9, HandFacts DEF Work
  <2>3. ToSet(buffer') \cap (ToSet(rest'[t]) \cup ToSet(batch'[t]) \cup ToSet(route'[t])) = {}
    BY <1>3, <2>2, HandFacts
  <2>4. ToSet(buffer') \cup ToSet(rest'[t]) \cup ToSet(batch'[t]) \cup ToSet(route'[t])
          = (ToSet(buffer) \cup Work(t)) \ A
    BY <1>3, <1>10, <2>2, HandFacts
  <2>5. next' = next /\ next \in 0 .. N
    BY <1>0, <1>3 DEF DataType
  <2>6. \A p \in Handles : disp'[p] = "none" <=> disp[p] = "none" /\ p \notin A
    BY <1>11
  <2> QED
    BY <1>0, <1>9, <1>10, <2>1, <2>3, <2>4, <2>5, <2>6, OwnersMove
<1>13. DataType'
  <2>1. BatchSize' = BatchSize /\ BatchSize \in Nat
    BY <1>3, HandFacts DEF BatchSize
  <2>2. \A u \in Threads : Len(batch'[u]) <= BatchSize'
    <3>1. Len(batch'[t]) <= BatchSize
      BY <1>8, <1>9, <2>1
    <3> QED
      BY <1>0, <1>9, <2>1, <3>1 DEF DataType
  <2>3. written' \in Nat /\ confirmed' \in Nat
    BY <1>0, <1>2, <1>5, HandFacts DEF DataType
  <2>4. permits' \in SUBSET Handles /\ disp' \in [Handles -> {"none", "Delivered", "Recovered", "Dropped"}]
    BY <1>0, <1>2 DEF DataType
  <2>5. batch' \in [Threads -> Seq(Handles)] /\ route' \in [Threads -> Seq(Handles)]
    BY <1>0, <1>2, <1>3, <1>6, <1>8 DEF DataType
  <2> QED
    BY <1>0, <1>3, <2>2, <2>3, <2>4, <2>5 DEF DataType
<1>14. PermitInv'
  <2>1. Cardinality(permits') <= PermitCap'
    BY <1>2, <1>3, PermitsKept
  <2>2. ASSUME ~signal', ~shutting' PROVE Held' \ ToSet(route'["actor"]) \subseteq permits'
    <3>1. t = "actor"
      BY <1>0, <2>2 DEF FlagInv, SendOk, Threads
    <3>2. Held \ ToSet(route["actor"]) \subseteq permits
      BY <1>0, <2>2 DEF PermitInv
    <3> QED
      BY <1>2, <1>8, <1>12, <3>1, <3>2
  <2> QED
    BY <2>1, <2>2 DEF PermitInv
<1>15. MaybeInv'
  <2> SUFFICES ASSUME NEW p \in maybe, disp'[p] = "none"
               PROVE  \E u \in Threads : p \in ToSet(route'[u]) /\ ambiguous'[u]
    BY <1>3 DEF MaybeInv
  <2>1. disp[p] = "none"
    BY <1>0, <1>11 DEF DataType
  <2>2. PICK u \in Threads : p \in ToSet(route[u]) /\ ambiguous[u]
    BY <1>0, <2>1 DEF MaybeInv
  <2> QED
    BY <1>3, <1>8, <1>9, <2>2
<1>16. NoFabricatedRecovery'
  <2>1. \A p \in maybe : p \notin A
    BY <1>10, MaybeIsRouted
  <2>2. Backend' = Backend /\ maybe' = maybe /\ maybe \subseteq Handles
    BY <1>0, <1>3 DEF Backend, DataType
  <2> QED
    BY <1>0, <1>11, <2>1, <2>2 DEF NoFabricatedRecovery
<1>17. RecoveredIsOnRecord'
  BY <1>0, <1>3, <1>11 DEF RecoveredIsOnRecord, Backend, ErrorLog
<1>18. MetricsExact'
  <2> DEFINE D == {p \in Handles : disp[p] = "Delivered"}
  <2>1. {p \in Handles : disp'[p] = "Delivered"} = D \cup A
    BY <1>7, <1>11
  <2>2. D \in SUBSET Handles /\ D \cap A = {}
    BY <1>10
  <2>3. Cardinality(D \cup A) = Cardinality(D) + n
    BY <1>7, <2>2, CountMore
  <2>4. {p \in Handles : disp'[p] = "Recovered"} = {p \in Handles : disp[p] = "Recovered"}
    BY <1>10, <1>11
  <2> QED
    BY <1>0, <1>2, <1>3, <2>1, <2>3, <2>4 DEF MetricsExact
<1>19. A \in SUBSET Held /\ Settles(A)
  BY <1>10, <1>11, <1>12, HandFacts DEF Settles
<1> QED
  BY <1>12, <1>13, <1>14, <1>15, <1>16, <1>17, <1>18, <1>19 DEF Good, DataInv

\* One event goes to the DLQ and its handle is resolved.
LEMMA RouteHeadIsGood ==
    ASSUME IInv, NEW t \in Threads, RouteHead(t), signal => signal', shutting => shutting'
    PROVE  Good
<1>0. /\ DataType /\ ListInv /\ OwnerInv /\ PermitInv /\ MaybeInv
      /\ NoFabricatedRecovery /\ RecoveredIsOnRecord /\ MetricsExact
      /\ signal \in BOOLEAN /\ shutting \in BOOLEAN
      /\ FlagInv /\ PhaseInv
  BY TypeParts DEF IInv, DataInv, ControlType
<1> DEFINE p == Head(route[t])
<1>1. PICK recorded \in IF ErrorLog THEN BOOLEAN ELSE {FALSE} :
        LET d == DlqDisposition(RoutedAsDropped(ambiguous[t], recorded)) IN
        /\ dlq' = IF recorded THEN dlq \cup {p} ELSE dlq
        /\ disp' = [disp EXCEPT ![p] = d]
        /\ failed' = failed + FailedDelta(d)
        /\ permits' = permits \ {p}
  BY DEF RouteHead
<1> DEFINE d == DlqDisposition(RoutedAsDropped(ambiguous[t], recorded))
<1>2. /\ disp' = [disp EXCEPT ![p] = d]
      /\ failed' = failed + FailedDelta(d)
      /\ permits' = permits \ {p}
      /\ dlq' = IF recorded THEN dlq \cup {p} ELSE dlq
  BY <1>1
<1>3. /\ route' = [route EXCEPT ![t] = Tail(route[t])]
      /\ UNCHANGED <<config, next, buffer, rest, batch, ambiguous, written, confirmed, maybe>>
  BY <1>0 DEF RouteHead, flags, DataType
<1>4. route[t] # <<>>
  BY <1>0 DEF RouteHead, PhaseInv
<1>5. /\ Tail(route[t]) \in Seq(Handles) /\ Distinct(Tail(route[t]))
      /\ p \in ToSet(route[t]) /\ ToSet(Tail(route[t])) = ToSet(route[t]) \ {p}
  BY <1>4, HandFacts, HeadTailDistinct
<1>6. d \in {"Recovered", "Dropped"}
  BY DEF DlqDisposition
<1>7. Backend = "disk" /\ ambiguous[t] => d = "Dropped"
  BY DEF DlqDisposition, RoutedAsDropped
<1>8. Backend = "disk" /\ ErrorLog /\ d = "Recovered" => p \in dlq'
  <2>1. CASE recorded
    BY <1>2, <2>1
  <2>2. CASE ~recorded
    BY <2>2 DEF DlqDisposition, RoutedAsDropped
  <2> QED
    BY <2>1, <2>2
<1> HIDE DEF p, d
<1>9. /\ rest'[t] = rest[t] /\ batch'[t] = batch[t] /\ route'[t] = Tail(route[t])
      /\ \A u \in Threads : u # t =>
            rest'[u] = rest[u] /\ batch'[u] = batch[u] /\ route'[u] = route[u]
  BY <1>0, <1>3 DEF DataType
<1>10. p \in Work(t) /\ p \in Held /\ p \in Handles /\ disp[p] = "none"
  <2>1. p \in Work(t)
    BY <1>5 DEF Work
  <2> QED
    BY <2>1, HandFacts
<1>11. \A q \in Handles : disp'[q] = IF q = p THEN d ELSE disp[q]
  BY <1>0, <1>2, <1>10 DEF DataType
<1>12. ListInv' /\ OwnerInv' /\ Held' = Held \ {p}
  <2> DEFINE A == {p}
  <2>0. /\ A \subseteq ToSet(route[t]) /\ A \subseteq Work(t)
        /\ ToSet(route'[t]) = ToSet(route[t]) \ A
        /\ \A q \in Handles : disp'[q] = "none" <=> disp[q] = "none" /\ q \notin A
    BY <1>5, <1>6, <1>9, <1>10, <1>11
  <2> HIDE DEF A
  <2>1. /\ Distinct(buffer') /\ Distinct(rest'[t]) /\ Distinct(batch'[t])
        /\ Distinct(route'[t])
        /\ ToSet(rest'[t]) \cap ToSet(batch'[t]) = {}
        /\ ToSet(rest'[t]) \cap ToSet(route'[t]) = {}
        /\ ToSet(batch'[t]) \cap ToSet(route'[t]) = {}
    BY <1>3, <1>5, <1>9, <2>0, HandFacts
  <2>2. ToSet(rest'[t]) \cup ToSet(batch'[t]) \cup ToSet(route'[t]) = Work(t) \ A
    BY <1>9, <2>0, HandFacts DEF Work
  <2>3. ToSet(buffer') \cap (ToSet(rest'[t]) \cup ToSet(batch'[t]) \cup ToSet(route'[t])) = {}
    BY <1>3, <2>2, HandFacts
  <2>4. ToSet(buffer') \cup ToSet(rest'[t]) \cup ToSet(batch'[t]) \cup ToSet(route'[t])
          = (ToSet(buffer) \cup Work(t)) \ A
    BY <1>3, <2>0, <2>2, HandFacts
  <2>5. next' = next /\ next \in 0 .. N
    BY <1>0, <1>3 DEF DataType
  <2>6. ListInv' /\ OwnerInv' /\ Held' = Held \ A
    BY <1>0, <1>9, <2>0, <2>1, <2>3, <2>4, <2>5, OwnersMove
  <2> QED
    BY <2>6 DEF A
<1>13. DataType'
  <2>1. failed' \in Nat
    BY <1>0, <1>2 DEF DataType, FailedDelta
  <2>2. /\ permits' \in SUBSET Handles /\ dlq' \in SUBSET Handles
        /\ disp' \in [Handles -> {"none", "Delivered", "Recovered", "Dropped"}]
        /\ route' \in [Threads -> Seq(Handles)]
    BY <1>0, <1>2, <1>3, <1>5, <1>6, <1>10 DEF DataType
  <2> QED
    BY <1>0, <1>3, <2>1, <2>2 DEF DataType, BatchSize
<1>14. PermitInv'
  <2>1. Cardinality(permits') <= PermitCap'
    BY <1>2, <1>3, PermitsKept
  <2>2. ASSUME ~signal', ~shutting' PROVE Held' \ ToSet(route'["actor"]) \subseteq permits'
    <3>1. t = "actor"
      BY <1>0, <2>2 DEF FlagInv, RouteHead, Threads
    <3>2. Held \ ToSet(route["actor"]) \subseteq permits
      BY <1>0, <2>2 DEF PermitInv
    <3> QED
      BY <1>2, <1>5, <1>9, <1>12, <3>1, <3>2
  <2> QED
    BY <2>1, <2>2 DEF PermitInv
<1>15. MaybeInv'
  <2> SUFFICES ASSUME NEW q \in maybe, disp'[q] = "none"
               PROVE  \E u \in Threads : q \in ToSet(route'[u]) /\ ambiguous'[u]
    BY <1>3 DEF MaybeInv
  <2>1. disp[q] = "none" /\ q # p
    BY <1>0, <1>6, <1>10, <1>11 DEF DataType
  <2>2. PICK u \in Threads : q \in ToSet(route[u]) /\ ambiguous[u]
    BY <1>0, <2>1 DEF MaybeInv
  <2> QED
    BY <1>3, <1>5, <1>9, <2>1, <2>2
<1>16. NoFabricatedRecovery'
  <2>1. Backend' = Backend /\ maybe' = maybe /\ maybe \subseteq Handles
    BY <1>0, <1>3 DEF Backend, DataType
  <2>2. Backend = "disk" /\ p \in maybe => d = "Dropped"
    BY <1>7, <1>10, MaybeIsRouted
  <2> QED
    BY <1>0, <1>11, <2>1, <2>2 DEF NoFabricatedRecovery
<1>17. RecoveredIsOnRecord'
  BY <1>0, <1>2, <1>3, <1>8, <1>11 DEF RecoveredIsOnRecord, Backend, ErrorLog
<1>18. MetricsExact'
  <2> DEFINE R == {q \in Handles : disp[q] = "Recovered"}
             R2 == {q \in Handles : disp'[q] = "Recovered"}
  <2>1. {q \in Handles : disp'[q] = "Delivered"} = {q \in Handles : disp[q] = "Delivered"}
    BY <1>6, <1>10, <1>11
  <2>2. failed' = Cardinality(R2)
    <3>1. failed = Cardinality(R) /\ failed \in Nat
      BY <1>0 DEF MetricsExact, DataType
    <3>2. CASE d = "Recovered"
      <4>1. R2 = R \cup {p} /\ R \cap {p} = {} /\ R \in SUBSET Handles /\ {p} \in SUBSET Handles
        BY <1>10, <1>11, <3>2
      <4>2. Cardinality({p}) = 1
        BY FS_Singleton
      <4>3. Cardinality(R \cup {p}) = Cardinality(R) + 1
        BY <4>1, <4>2, CountMore
      <4>4. failed' = failed + 1
        BY <1>2, <3>2 DEF FailedDelta
      <4> QED
        BY <3>1, <4>1, <4>3, <4>4
    <3>3. CASE d # "Recovered"
      <4>1. R2 = R
        BY <1>10, <1>11, <3>3
      <4>2. failed' = failed
        BY <1>2, <3>1, <3>3 DEF FailedDelta
      <4> QED
        BY <3>1, <4>1, <4>2
    <3> QED
      BY <3>2, <3>3
  <2> QED
    BY <1>0, <1>3, <2>1, <2>2 DEF MetricsExact
<1>19. {p} \in SUBSET Held /\ Settles({p})
  BY <1>6, <1>10, <1>11, <1>12 DEF Settles
<1> QED
  BY <1>12, <1>13, <1>14, <1>15, <1>16, <1>17, <1>18, <1>19 DEF Good, DataInv

\* Drop: every handle left is resolved as Dropped.
LEMMA DropSinkIsGood ==
    ASSUME IInv, DropSink
    PROVE  Good
<1>0. /\ DataType /\ ListInv /\ OwnerInv /\ MaybeInv
      /\ NoFabricatedRecovery /\ RecoveredIsOnRecord /\ MetricsExact
  BY TypeParts DEF IInv, DataInv
<1>1. /\ Held \subseteq Handles /\ next \in 0 .. N /\ \A p \in Held : disp[p] = "none"
      /\ BatchSize \in Nat
  BY HandFacts DEF Threads
<1>2. /\ \A p \in Handles : disp'[p] = IF p \in Held THEN "Dropped" ELSE disp[p]
      /\ buffer' = <<>> /\ permits' = {}
      /\ \A t \in Threads : rest'[t] = <<>> /\ batch'[t] = <<>> /\ route'[t] = <<>>
      /\ UNCHANGED <<config, next, written, failed, confirmed, maybe, dlq, ambiguous>>
  BY DEF DropSink
<1>3. /\ <<>> \in Seq(Handles) /\ Len(<<>>) = 0 /\ Distinct(<<>>) /\ ToSet(<<>>) = {}
  BY EmptyIsDistinct
<1>4. Held' = {}
  BY <1>1, <1>2 DEF Held, Handles
<1>5. ListInv'
  BY <1>2, <1>3 DEF ListInv
<1>6. OwnerInv'
  <2>1. Work("actor")' = {} /\ Work("caller")' = {} /\ ToSet(buffer') = {}
    BY <1>2, <1>3 DEF Work, Threads
  <2>2. \A p \in Handles : p > next' => disp'[p] = "none"
    BY <1>0, <1>1, <1>2 DEF OwnerInv, Held, Handles
  <2> QED
    BY <1>4, <2>1, <2>2 DEF OwnerInv
<1>7. DataType'
  <2>1. \A t \in Threads : Len(batch'[t]) <= BatchSize'
    BY <1>1, <1>2, <1>3 DEF BatchSize
  <2>2. /\ disp' \in [Handles -> {"none", "Delivered", "Recovered", "Dropped"}]
        /\ rest' \in [Threads -> Seq(Handles)] /\ batch' \in [Threads -> Seq(Handles)]
        /\ route' \in [Threads -> Seq(Handles)]
    BY <1>0, <1>3 DEF DropSink, DataType
  <2> QED
    BY <1>0, <1>2, <1>3, <2>1, <2>2 DEF DataType
<1>8. PermitInv'
  <2>1. Cardinality(permits') <= PermitCap'
    BY <1>2, PermitsKept
  <2> QED
    BY <1>4, <2>1 DEF PermitInv
<1>9. \A p \in maybe : disp'[p] # "none"
  <2> SUFFICES ASSUME NEW p \in maybe, disp[p] = "none" PROVE p \in Held
    BY <1>0, <1>1, <1>2 DEF DataType
  <2>1. PICK u \in Threads : p \in ToSet(route[u])
    BY <1>0 DEF MaybeInv
  <2> QED
    BY <2>1, HandFacts DEF Work
<1>10. MaybeInv'
  BY <1>2, <1>9 DEF MaybeInv
<1>11. NoFabricatedRecovery' /\ RecoveredIsOnRecord'
  BY <1>0, <1>2 DEF NoFabricatedRecovery, RecoveredIsOnRecord, Backend, ErrorLog, DataType
<1>12. MetricsExact'
  <2>1. /\ {p \in Handles : disp'[p] = "Delivered"} = {p \in Handles : disp[p] = "Delivered"}
        /\ {p \in Handles : disp'[p] = "Recovered"} = {p \in Handles : disp[p] = "Recovered"}
    BY <1>1, <1>2
  <2> QED
    BY <1>0, <1>2, <2>1 DEF MetricsExact
<1>13. Held \in SUBSET Held /\ Settles(Held)
  BY <1>1, <1>2, <1>4 DEF Settles
<1> QED
  BY <1>5, <1>6, <1>7, <1>8, <1>10, <1>11, <1>12, <1>13 DEF Good, DataInv

-----------------------------------------------------------------------------
(* The inductive invariant. *)

\* A fresh sink satisfies the invariant.
LEMMA InitIsGood == Init => IInv
<1> SUFFICES ASSUME Init PROVE IInv
  OBVIOUS
<1>1. /\ <<>> \in Seq(Handles) /\ Len(<<>>) = 0 /\ Distinct(<<>>) /\ ToSet(<<>>) = {}
  BY EmptyIsDistinct
<1>2. BatchSize \in Nat /\ PermitCap \in Nat
  <2>1. BatchSize \in Nat
    BY DEF Init, BatchSize
  <2> QED
    BY <2>1 DEF PermitCap
<1>3. TypeOK
  <2>1. ControlType
    <3>1. pc \in [Threads -> Pcs]
      BY DEF Init, Pcs, Threads
    <3>2. attempt \in 0 .. MaxAttempts
      BY DEF Init
    <3> QED
      BY <3>1, <3>2 DEF Init, ControlType
  <2>2. \A t \in Threads : Len(batch[t]) <= BatchSize
    BY <1>1, <1>2 DEF Init
  <2>3. DataType
    BY <1>1, <2>2 DEF Init, DataType
  <2> QED
    BY <2>1, <2>3, TypeParts
<1>4. PhaseInv /\ FlagInv
  BY DEF Init, PhaseInv, FlagInv, Threads
<1>5. ListInv
  BY <1>1 DEF Init, ListInv
<1>6. Held = {}
  BY DEF Held, Init
<1>7. OwnerInv
  <2>1. Work("actor") = {} /\ Work("caller") = {} /\ ToSet(buffer) = {}
    BY <1>1 DEF Work, Init, Threads
  <2>2. \A p \in Handles : disp[p] = "none"
    BY DEF Init
  <2> QED
    BY <1>6, <2>1, <2>2 DEF OwnerInv
<1>8. PermitInv
  BY <1>2, <1>6, FS_EmptySet DEF PermitInv, Init
<1>9. MaybeInv /\ NoFabricatedRecovery /\ RecoveredIsOnRecord
  BY DEF MaybeInv, NoFabricatedRecovery, RecoveredIsOnRecord, Init
<1>10. MetricsExact
  <2>1. /\ {p \in Handles : disp[p] = "Delivered"} = {}
        /\ {p \in Handles : disp[p] = "Recovered"} = {}
    BY DEF Init
  <2> QED
    BY <2>1, FS_EmptySet DEF MetricsExact, Init
<1> QED
  BY <1>3, <1>4, <1>5, <1>7, <1>8, <1>9, <1>10 DEF IInv, DataInv

\* Every step keeps the invariant; to the ack contract it takes one handle,
\* resolves some, or does nothing.
LEMMA StepIsGood ==
    ASSUME IInv, [Next]_vars
    PROVE  IInv' /\ (Accepts \/ \E S \in SUBSET Held : Settles(S))
<1>1. Good
  <2>0. signal \in BOOLEAN /\ shutting \in BOOLEAN
    BY TypeParts DEF IInv, ControlType
  <2>1. (signal => signal') /\ (shutting => shutting')
    BY StepKinds
  <2>2. CASE Quiet \/ Adds \/ DropSink
    BY <2>0, <2>1, <2>2, QuietIsGood, AddsIsGood, DropSinkIsGood
  <2>3. CASE TakesWedged
    <3>1. shutting'
      BY <2>1, <2>3 DEF TakesWedged
    <3> QED
      BY <2>3, <3>1, TakesWedgedIsGood
  <2>4. ASSUME NEW t \in Threads, Takes(t) \/ NextChunk(t) \/ SendOk(t) \/ RouteHead(t)
        PROVE  Good
    BY <2>1, <2>4, TakesIsGood, NextChunkIsGood, SendOkIsGood, RouteHeadIsGood
  <2>5. ASSUME NEW t \in Threads, NEW amb \in BOOLEAN, Routes(t, amb)
        PROVE  Good
    BY <2>1, <2>5, RoutesIsGood
  <2> QED
    BY <2>2, <2>3, <2>4, <2>5, StepKinds
<1>2. ControlType' /\ FlagInv' /\ PhaseInv'
  BY ControlStep, PhaseStep
<1>3. TypeOK'
  BY <1>1, <1>2, TypeParts DEF Good, TypeOK, ControlType, DataType
<1> QED
  BY <1>1, <1>2, <1>3 DEF IInv, Good

\* The invariant holds in every state of every run of the sink.
THEOREM Invariance == Spec => []IInv
<1>1. Init => IInv
  BY InitIsGood
<1>2. IInv /\ [Next]_vars => IInv'
  BY StepIsGood
<1> QED
  BY <1>1, <1>2, PTL DEF Spec

\* The type invariant; no chunk, and so no request, exceeds batch_size, and the
\* actor never spends more than its retry budget.
THEOREM TypeCorrect == Spec => []TypeOK
<1>1. IInv => TypeOK
  BY DEF IInv
<1> QED
  BY <1>1, Invariance, PTL

\* No event is lost by the flusher, the shutdown routes or Drop, and no two
\* places own it.
THEOREM EventsOwnedOnce == Spec => []OwnedOnce
<1> DEFINE places == <<buffer, rest["actor"], batch["actor"], route["actor"],
                       rest["caller"], batch["caller"], route["caller"]>>
<1>1. ASSUME IInv, NEW p \in 1 .. N
      PROVE  Cardinality({i \in 1 .. 7 : p \in ToSet(places[i])})
               = IF p \in Held THEN 1 ELSE 0
  <2> DEFINE J == {i \in 1 .. 7 : p \in ToSet(places[i])}
  <2>1. "actor" \in Threads /\ "caller" \in Threads
    BY DEF Threads
  <2>2. /\ places[1] = buffer /\ places[2] = rest["actor"]
        /\ places[3] = batch["actor"] /\ places[4] = route["actor"]
        /\ places[5] = rest["caller"] /\ places[6] = batch["caller"]
        /\ places[7] = route["caller"]
    OBVIOUS
  <2> HIDE DEF places
  <2>3. Held = ToSet(buffer) \cup Work("actor") \cup Work("caller")
    BY <1>1 DEF IInv, DataInv, OwnerInv
  <2>4. p \in Held <=> \E i \in 1 .. 7 : p \in ToSet(places[i])
    <3>1. p \in Held <=> \/ p \in ToSet(places[1]) \/ p \in ToSet(places[2])
                         \/ p \in ToSet(places[3]) \/ p \in ToSet(places[4])
                         \/ p \in ToSet(places[5]) \/ p \in ToSet(places[6])
                         \/ p \in ToSet(places[7])
      BY <2>2, <2>3 DEF Work
    <3>2. \A i \in 1 .. 7 : i \in {1, 2, 3, 4, 5, 6, 7}
      OBVIOUS
    <3> QED
      BY <3>1, <3>2
  <2>5. \A i, j \in 1 .. 7 : i < j /\ p \in ToSet(places[i]) => p \notin ToSet(places[j])
    <3>1. /\ ToSet(buffer) \cap Work("actor") = {} /\ ToSet(buffer) \cap Work("caller") = {}
          /\ Work("actor") \cap Work("caller") = {}
      BY <1>1 DEF IInv, DataInv, OwnerInv
    <3>2. \A t \in Threads :
            /\ ToSet(rest[t]) \cap ToSet(batch[t]) = {}
            /\ ToSet(rest[t]) \cap ToSet(route[t]) = {}
            /\ ToSet(batch[t]) \cap ToSet(route[t]) = {}
      BY <1>1 DEF IInv, DataInv, ListInv
    <3> SUFFICES ASSUME NEW i \in 1 .. 7, NEW j \in 1 .. 7, i < j, p \in ToSet(places[i])
                 PROVE  p \notin ToSet(places[j])
      OBVIOUS
    <3>3. CASE i = 1
      BY <2>2, <3>1, <3>3 DEF Work
    <3>4. CASE i \in 2 .. 4 /\ j \in 2 .. 4
      BY <2>1, <2>2, <3>2, <3>4
    <3>5. CASE i \in 2 .. 4 /\ j \in 5 .. 7
      BY <2>2, <3>1, <3>5 DEF Work
    <3>6. CASE i \in 5 .. 7
      BY <2>1, <2>2, <3>2, <3>6
    <3> QED
      BY <3>3, <3>4, <3>5, <3>6
  <2>6. CASE p \in Held
    <3>1. PICK i \in 1 .. 7 : p \in ToSet(places[i])
      BY <2>4, <2>6
    <3>2. \A j \in 1 .. 7 : p \in ToSet(places[j]) => j = i
      BY <2>5, <3>1
    <3>3. J = {i}
      BY <3>1, <3>2
    <3> QED
      BY <2>6, <3>3, FS_Singleton
  <2>7. CASE p \notin Held
    <3>1. J = {}
      BY <2>4, <2>7
    <3> QED
      BY <2>7, <3>1, FS_EmptySet
  <2> QED
    BY <2>6, <2>7
<1>2. IInv => OwnedOnce
  BY <1>1 DEF OwnedOnce
<1> QED
  BY <1>2, Invariance, PTL

\* A send that shutdown cut off is never turned into a Recovered on a disk
\* queue, whichever thread routes it and however the DLQ write ends.
THEOREM CutOffIsNotRecovered == Spec => []NoFabricatedRecovery
<1>1. IInv => NoFabricatedRecovery
  BY DEF IInv, DataInv
<1> QED
  BY <1>1, Invariance, PTL

\* A disk cursor passes an undelivered event only with its DLQ record written.
THEOREM RecoveryIsRecorded == Spec => []RecoveredIsOnRecord
<1>1. IInv => RecoveredIsOnRecord
  BY DEF IInv, DataInv
<1> QED
  BY <1>1, Invariance, PTL

\* events_written and the sink's part of events_failed count each event once.
THEOREM MetricsAreExact == Spec => []MetricsExact
<1>1. IInv => MetricsExact
  BY DEF IInv, DataInv
<1> QED
  BY <1>1, Invariance, PTL

\* The permits bound what the sink owns until shutdown.
THEOREM OwnershipIsBounded == Spec => []OwnershipBound
<1>1. IInv => OwnershipBound
  <2> SUFFICES ASSUME IInv, ~signal, ~shutting
               PROVE  Cardinality(Held \ ToSet(route["actor"])) <= PermitCap
    BY DEF OwnershipBound
  <2> DEFINE S == Held \ ToSet(route["actor"])
  <2>1. /\ S \in SUBSET permits /\ Cardinality(permits) <= PermitCap
        /\ permits \in SUBSET Handles /\ BatchSize \in Nat
    BY TypeParts DEF IInv, DataInv, PermitInv, DataType, BatchSize
  <2>2. PermitCap \in Nat
    BY <2>1 DEF PermitCap
  <2> HIDE DEF S
  <2>3. S \in SUBSET Handles
    BY <2>1
  <2>4. /\ Cardinality(S) <= Cardinality(permits)
        /\ Cardinality(S) \in Nat /\ Cardinality(permits) \in Nat
    BY <2>1, <2>3, HandlesFinite, FS_Subset
  <2>5. Cardinality(S) <= PermitCap
    BY <2>1, <2>2, <2>4
  <2> QED
    BY <2>5 DEF S
<1> QED
  BY <1>1, Invariance, PTL

\* events_written counts the records the peer said it took.
CountInv == confirmed = written

LEMMA WrittenIsConfirmed == Spec => []CountInv
<1> USE DEF CountInv
<1>1. Init => CountInv
  BY DEF Init
<1>2. ASSUME IInv, CountInv, [Next]_vars
      PROVE  CountInv'
  <2>1. CASE Quiet \/ Adds \/ TakesWedged \/ DropSink
    BY <1>2, <2>1 DEF Quiet, Adds, TakesWedged, DropSink, outcome
  <2>2. ASSUME NEW t \in Threads, Takes(t) \/ NextChunk(t) \/ RouteHead(t)
        PROVE  CountInv'
    BY <1>2, <2>2 DEF Takes, NextChunk, RouteHead, outcome
  <2>3. ASSUME NEW t \in Threads, NEW amb \in BOOLEAN, Routes(t, amb)
        PROVE  CountInv'
    BY <1>2, <2>3 DEF Routes
  <2>4. ASSUME NEW t \in Threads, SendOk(t)
        PROVE  CountInv'
    BY <1>2, <2>4 DEF SendOk
  <2> QED
    BY <1>2, <2>1, <2>2, <2>3, <2>4, StepKinds
<1> HIDE DEF CountInv
<1> QED
  BY <1>1, <1>2, Invariance, PTL DEF Spec

\* The contract counts as the sink does.
LEMMA SameCount == \A T : Contract!Cardinality(T) = Cardinality(T)
  BY DEF Contract!Cardinality, Cardinality

\* The sink keeps the contract the queue consumer relies on: it takes each
\* handle once, gives back one disposition that never changes, and Delivered
\* to exactly as many handles as the peer took records, whatever part of each
\* chunk it rejected.
THEOREM KeepsContract == Spec => ImplementsContract
<1> DEFINE Took == {p \in Handles : disp[p] = "Delivered"}
<1>1. Init => Contract!Init
  <2>1. Init => Held = {}
    BY DEF Init, Held
  <2> QED
    BY <2>1 DEF Init, Contract!Init
<1>2. ASSUME IInv, IInv', CountInv, CountInv', [Next]_vars
      PROVE  [Contract!Next]_<<Held, disp, confirmed>>
  <2>0. confirmed = Cardinality(Took) /\ (confirmed = Cardinality(Took))'
    BY <1>2 DEF CountInv, IInv, DataInv, MetricsExact
  <2>1. CASE Accepts
    <3>1. confirmed' = confirmed
      BY <2>0, <2>1 DEF Accepts
    <3>2. Contract!Take(next + 1) /\ next + 1 \in Handles
      BY <2>1, <3>1 DEF Accepts, Contract!Take
    <3> QED
      BY <3>2 DEF Contract!Next
  <2>2. ASSUME NEW S \in SUBSET Held, Settles(S)
        PROVE  [Contract!Next]_<<Held, disp, confirmed>>
    <3>1. disp' \in [Handles -> {"Delivered", "Recovered", "Dropped"} \cup {"none"}]
      BY <1>2 DEF IInv, TypeOK
    <3>2. Contract!Resolve(S)
      <4>1. confirmed' = Cardinality({p \in Handles : disp'[p] = "Delivered"})
        BY <2>0
      <4>2. /\ Held' = Held \ S /\ (\A p \in S : disp'[p] # "none")
            /\ \A p \in Handles \ S : disp'[p] = disp[p]
        BY <2>2 DEF Settles
      <4> QED
        BY <4>1, <4>2, <3>1, SameCount, Zenon DEF Contract!Resolve
    <3>3. CASE S # {}
      BY <3>2, <3>3 DEF Contract!Next
    <3>4. CASE S = {}
      <4>1. disp \in [Handles -> {"none", "Delivered", "Recovered", "Dropped"}]
        BY <1>2 DEF IInv, TypeOK
      <4>2. Held' = Held /\ disp' = disp
        BY <2>2, <3>1, <3>4, <4>1 DEF Settles
      <4>3. confirmed' = confirmed
        BY <2>0, <4>2
      <4> QED
        BY <4>2, <4>3
    <3> QED
      BY <3>3, <3>4
  <2> QED
    BY <1>2, <2>1, <2>2, StepIsGood
<1> QED
  BY <1>1, <1>2, Invariance, WrittenIsConfirmed, PTL DEF Spec, ImplementsContract, Contract!Spec
=============================================================================
