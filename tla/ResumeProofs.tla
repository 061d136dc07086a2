---------------------------- MODULE ResumeProofs ----------------------------
(***************************************************************************)
(* What the inputs that keep a position resume from after a restart, for    *)
(* any log, any number of rotations, restarts and failed saves, and any     *)
(* capacity of the channels; and type correctness of all the inputs.        *)
(*                                                                          *)
(* The argument is one for tail, journal and event log: an ack vouches for  *)
(* a set of lines, and each of those was completed, was passed over, or is  *)
(* ahead of the ack's own event in the pipe.  What is passed over and had   *)
(* been read is accounted for apart (LossInv).                              *)
(***************************************************************************)
EXTENDS ListenerInputProofs

-----------------------------------------------------------------------------
(* Events and acks on their way. *)

\* What an input acknowledges, and the lines it reads.
Positions == IF kind = "tail"
             THEN [generation : Nat, off : 1 .. MaxLines, of : 0 .. MaxContents]
             ELSE Nat
Lines     == IF kind = "tail" THEN (0 .. MaxContents) \X (1 .. MaxLines) ELSE Nat
EventsOf  == [line : Lines, ack : Seq(Positions)]

\* The lines that are passed over, those that are done with, the one the worker
\* has, and those in the pipe.
LinesPassed   == passed \cup lines_lost
EntriesPassed == skipped \cup entries_lost
Known  == processed \cup LinesPassed \cup EntriesPassed
Held   == IF cur = <<>> THEN {} ELSE {cur[1].line}
InPipe == Held \cup {chan[j].line : j \in 1 .. Len(chan)}

\* The lines below a position of the tail input, if its content is not misread.
Below(p) == IF p.of \in misread THEN {} ELSE {<<p.of, i>> : i \in 1 .. p.off}

\* The lines that are taken for processed once position a is acknowledged: an
\* ack of an earlier generation does not count.
Vouched(a) ==
    IF kind = "tail" THEN (IF a.generation = generation THEN Below(a) ELSE {})
                     ELSE 1 .. a

\* The positions of which some reference, or the ack, is still there.
InFlight == ToSet(acks)
            \cup (IF cur = <<>> THEN {} ELSE ToSet(cur[1].ack))
            \cup (IF tap = <<>> THEN {} ELSE ToSet(tap[1].ack))
            \cup UNION {ToSet(chan[k].ack) : k \in 1 .. Len(chan)}

PathType ==
    /\ chan \in Seq(EventsOf) /\ Len(chan) <= Capacity
    /\ cur = <<>> \/ (cur = <<cur[1]>> /\ cur[1] \in EventsOf)
    /\ tap = <<>> \/ (tap = <<tap[1]>> /\ tap[1] \in EventsOf)
    /\ acks \in Seq(Positions) /\ shared \in BOOLEAN

\* An event vouches for nothing but what is known, ahead of it, or itself; an
\* ack, and a clone that outlived the worker's reference, for what is known.
PathInv ==
    /\ shared => cur # <<>> /\ tap = cur
    /\ cur # <<>> => \A a \in ToSet(cur[1].ack) : Vouched(a) \subseteq Known \cup Held
    /\ \A k \in 1 .. Len(chan) : \A a \in ToSet(chan[k].ack) : \A l \in Vouched(a) :
         l \in Known \cup Held \/ \E j \in 1 .. k : chan[j].line = l
    /\ tap # <<>> /\ ~shared => \A a \in ToSet(tap[1].ack) : Vouched(a) \subseteq Known
    /\ \A a \in ToSet(acks) : Vouched(a) \subseteq Known

Quiet == chan = <<>> /\ cur = <<>> /\ tap = <<>> /\ acks = <<>>

-----------------------------------------------------------------------------
(* The inputs that follow a log by a cursor. *)

\* The input that is not configured does nothing.
CursorIdle == cursor = 0 /\ apc = "down" /\ EntriesPassed = {}

CursorType ==
    /\ jlen \in Nat /\ oldest \in 1 .. jlen /\ cursor \in 0 .. jlen
    /\ rpc \in {"open", "loop", "send", "done"} /\ rpos \in 0 .. jlen /\ rhand \in 0 .. jlen
    /\ entries \in Seq(Nat) /\ Len(entries) <= EntryCapacity /\ entries_open \in BOOLEAN
    /\ apc \in {"down", "startup", "select", "send", "join", "stopped"} /\ ahand \in 0 .. jlen
    /\ log \in CursorKinds

\* Where the actor still takes entries.
Feeding   == apc \in {"select", "send"}
WithActor == Known \cup InPipe \cup (IF apc = "send" THEN {ahand} ELSE {})

\* What was read and is not done with is on its way, in the order of the log.
FeedInv ==
    /\ apc \in {"down", "startup"} =>
         Quiet /\ entries = <<>> /\ rpos = 0 /\ rpc \in {"open", "done"} /\ entries_open
    /\ (apc = "startup") <=> (rpc = "open")
    /\ Feeding => entries_open
    /\ rpc = "send" => rhand = rpos
    /\ \A k \in 1 .. Len(entries) : entries[k] \in 0 .. jlen
    /\ InFlight \subseteq 0 .. jlen
    /\ apc = "send" => 1 .. ahand \subseteq WithActor
    /\ Feeding => \A k \in 1 .. Len(entries) : \A l \in 1 .. entries[k] :
                    l \in WithActor \/ \E j \in 1 .. k : entries[j] = l
    /\ Feeding => \A l \in 1 .. rpos :
                    \/ l \in WithActor \/ \E j \in 1 .. Len(entries) : entries[j] = l
                    \/ rpc = "send" /\ l = rhand
    /\ 1 .. cursor \subseteq Known

CursorInv == CursorType /\ (kind \notin CursorKinds => CursorIdle)
             /\ (kind \in CursorKinds => LinesPassed = {} /\ FeedInv)

-----------------------------------------------------------------------------
(* The tail input. *)

TailIdle == saved = NoState /\ tpc = "down" /\ LinesPassed = {} /\ opened = 0

TailType ==
    /\ contents \in 1 .. MaxContents /\ path \in 0 .. contents
    /\ store \in [Inodes -> [no : 0 .. MaxContents, lines : Seq(Kinds)]]
    /\ \A n \in Inodes : Len(store[n].lines) <= MaxLines /\ store[n].no <= contents
    /\ tpc \in {"down", "starting", "select", "inode", "open", "read", "drain", "stopped"}
    /\ read \in [off : 0 .. MaxLines, of : 0 .. contents]
    /\ acked \in [off : 0 .. MaxLines, of : 0 .. contents]
    /\ saved = NoState \/ saved \in [off : 0 .. MaxLines, of : 0 .. contents]
    /\ last_inode \in 0 .. MaxContents /\ generation \in Nat /\ base \in 0 .. contents + 1
    /\ opened \in 0 .. contents /\ pos \in 0 .. MaxLines
    /\ (opened # 0) <=> (tpc = "read")

\* What is saved and what is in the watermark covers lines that are done with;
\* what was read is done with or in the pipe, and so is what read_new_lines has
\* read so far, unless the content was replaced under it: then the next turn
\* finds it misread.
TailRead ==
    /\ tpc = "down" => Quiet
    /\ tpc \in {"down", "starting"} => generation = 0
    /\ saved.off > 0 => Below(saved) \subseteq Known
    /\ acked.off > 0 => Below(acked) \subseteq Known
    /\ read.off > 0 => Below(read) \subseteq Known \cup InPipe
    /\ tpc = "read" => pos >= read.off
    /\ tpc = "read" /\ (pos = 0 \/ read.of = store[opened].no) =>
         Below([off |-> pos, of |-> store[opened].no]) \subseteq Known \cup InPipe

\* Nothing in the current generation is of a content older than the last reset.
BaseInv ==
    /\ path # 0 => store[path].no >= base
    /\ opened # 0 => store[opened].no >= base
    /\ acked.off > 0 => acked.of >= base
    /\ saved.off > 0 => saved.of >= base
    /\ \A a \in InFlight : /\ a.generation \in 0 .. generation /\ a.of \in 0 .. contents
                           /\ a.generation = generation => a.of >= base

TailInv == TailType /\ (kind # "tail" => TailIdle)
           /\ (kind = "tail" => TailRead /\ BaseInv)

-----------------------------------------------------------------------------
\* The inductive invariant.
IInv == kind \in InputKinds /\ PathType /\ PathInv /\ CursorInv /\ TailInv

\* What was read by this run of the daemon is not ahead of its reader, so only
\* a later run can pass over it.
TailLoss ==
    /\ starts \in Nat /\ (starts = 0 => tpc = "down" /\ lines_read = {})
    /\ lines_lost # {} => starts > 1

CursorLoss ==
    /\ jstarts \in Nat /\ (jstarts = 0 => apc = "down" /\ entries_read = {} /\ cursor = 0)
    /\ jstarts = 1 /\ apc # "down" => entries_read \subseteq 1 .. rpos
    /\ jstarts = 1 /\ apc = "startup" => cursor = 0
    /\ entries_lost # {} => jstarts > 1

LossInv == TailLoss /\ CursorLoss

-----------------------------------------------------------------------------
\* The histories are taken apart everywhere.
USE DEF LinesPassed, EntriesPassed, cursorHist

-----------------------------------------------------------------------------
(* Sequences of acks and of events. *)

\* The acks after a reference was dropped.
LEMMA Fired ==
    ASSUME NEW S, NEW s \in Seq(S), NEW t \in Seq(S)
    PROVE  s \o t \in Seq(S) /\ \A x \in ToSet(s \o t) : x \in ToSet(s) \/ x \in ToSet(t)
<1>1. /\ s \o t \in Seq(S) /\ Len(s \o t) = Len(s) + Len(t)
      /\ \A i \in 1 .. Len(s) + Len(t) : (s \o t)[i] = IF i <= Len(s) THEN s[i] ELSE t[i - Len(s)]
  BY ConcatProperties
<1>2. Len(s) \in Nat /\ Len(t) \in Nat
  BY LenProperties
<1>3. ASSUME NEW x \in ToSet(s \o t) PROVE x \in ToSet(s) \/ x \in ToSet(t)
  <2>1. PICK i \in 1 .. Len(s \o t) : (s \o t)[i] = x
    BY <1>1, Places
  <2>2. CASE i <= Len(s)
    <3>1. i \in 1 .. Len(s) /\ s[i] = x
      BY <1>1, <1>2, <2>1, <2>2
    <3> QED
      BY <3>1, Places
  <2>3. CASE ~(i <= Len(s))
    <3>1. i - Len(s) \in 1 .. Len(t) /\ t[i - Len(s)] = x
      BY <1>1, <1>2, <2>1, <2>3
    <3> QED
      BY <3>1, Places
  <2> QED
    BY <2>2, <2>3
<1> QED
  BY <1>1, <1>3

\* The first element and the others.
LEMMA FirstAndRest ==
    ASSUME NEW S, NEW s \in Seq(S), s # <<>>
    PROVE  /\ Head(s) = s[1] /\ Head(s) \in S /\ Tail(s) \in Seq(S) /\ Head(s) \in ToSet(s)
           /\ Len(s) \in Nat \ {0} /\ Len(Tail(s)) = Len(s) - 1
           /\ \A i \in 1 .. Len(Tail(s)) : Tail(s)[i] = s[i + 1] /\ i + 1 \in 1 .. Len(s)
           /\ ToSet(Tail(s)) \subseteq ToSet(s)
<1>1. /\ Head(s) \in S /\ Tail(s) \in Seq(S) /\ Len(Tail(s)) = Len(s) - 1
      /\ \A i \in 1 .. Len(Tail(s)) : Tail(s)[i] = s[i + 1]
  BY HeadTailProperties
<1>2. Len(s) \in Nat \ {0} /\ Head(s) = s[1]
  BY EmptySeq
<1>3. \A i \in 1 .. Len(Tail(s)) : i + 1 \in 1 .. Len(s)
  BY <1>1, <1>2
<1>4. 1 \in 1 .. Len(s)
  BY <1>2
<1>5. Head(s) \in ToSet(s)
  BY <1>2, <1>4, Places
<1>6. ToSet(Tail(s)) \subseteq ToSet(s)
  <2> SUFFICES ASSUME NEW x \in ToSet(Tail(s)) PROVE x \in ToSet(s)
    OBVIOUS
  <2>1. PICK i \in 1 .. Len(Tail(s)) : Tail(s)[i] = x
    BY <1>1, Places
  <2> QED
    BY <1>1, <1>3, <2>1, Places
<1> QED
  BY <1>1, <1>2, <1>3, <1>5, <1>6

\* The last element.
LEMMA LastIsThere ==
    ASSUME NEW S, NEW s \in Seq(S), s # <<>>
    PROVE  Last(s) \in ToSet(s) /\ Last(s) \in S
<1>1. Len(s) \in Nat \ {0}
  BY EmptySeq
<1>2. Len(s) \in 1 .. Len(s)
  BY <1>1
<1> QED
  BY <1>2, Places DEF Last

-----------------------------------------------------------------------------
(* The worker and the taps. *)

\* What a step of the worker or of a tap does for the positions: it carries
\* lines and acks on and loses none.
Carries ==
    /\ PathType' /\ PathInv' /\ InFlight' \subseteq InFlight /\ Known \subseteq Known'
    /\ Known \cup InPipe \subseteq Known' \cup InPipe' /\ (Quiet => Quiet')

\* The positions an input has, and the lines it has passed, are its own.
Elsewhere == UNCHANGED <<kind, generation, misread, LinesPassed, EntriesPassed>>

\* What positions vouch for changes only with the input.
LEMMA VouchedKept ==
    ASSUME Elsewhere
    PROVE  /\ \A a : Vouched(a)' = Vouched(a)
           /\ Positions' = Positions /\ EventsOf' = EventsOf
           /\ UNCHANGED processed => Known' = Known
  BY DEF Elsewhere, Vouched, Below, Positions, Lines, EventsOf, Known

\* process_event begins.
LEMMA DispatchCarries ==
    ASSUME PathType, PathInv, Elsewhere, Dispatch
    PROVE  Carries
<1>1. /\ cur = <<>> /\ chan # <<>> /\ chan \in Seq(EventsOf) /\ Len(chan) <= Capacity
      /\ cur' = <<Head(chan)>> /\ chan' = Tail(chan)
      /\ Emit(Head(chan)) /\ UNCHANGED <<acks, processed>> /\ shared = FALSE
  BY DEF Dispatch, PathType, PathInv
<1>2. /\ \A a : Vouched(a)' = Vouched(a)
      /\ Positions' = Positions /\ EventsOf' = EventsOf /\ Known' = Known
  BY <1>1, VouchedKept
<1>3. /\ Head(chan) = chan[1] /\ Head(chan) \in EventsOf /\ Tail(chan) \in Seq(EventsOf)
      /\ Len(chan) \in Nat \ {0} /\ Len(chan') = Len(chan) - 1
      /\ \A i \in 1 .. Len(chan') : chan'[i] = chan[i + 1] /\ i + 1 \in 1 .. Len(chan)
  BY <1>1, FirstAndRest
<1>4. cur'[1] = chan[1] /\ cur' # <<>> /\ Held' = {chan[1].line} /\ Held = {}
  BY <1>1, <1>3 DEF Held
<1>5. (tap' = tap /\ shared' = FALSE) \/ (tap = <<>> /\ tap' = cur' /\ shared' = TRUE)
  BY <1>1 DEF Emit
<1>6. PathType'
  <2>1. chan' \in Seq(EventsOf') /\ Len(chan') <= Capacity
    <3>1. Capacity \in Nat
      BY InputsAssumption
    <3> QED
      BY <1>1, <1>2, <1>3, <3>1
  <2>2. cur' = <<cur'[1]>> /\ cur'[1] \in EventsOf'
    BY <1>1, <1>2, <1>3
  <2>3. tap' = <<>> \/ (tap' = <<tap'[1]>> /\ tap'[1] \in EventsOf')
    BY <1>2, <1>5, <2>2 DEF PathType
  <2>4. acks' \in Seq(Positions') /\ shared' \in BOOLEAN
    BY <1>1, <1>2, <1>5 DEF PathType
  <2> QED
    BY <2>1, <2>2, <2>3, <2>4 DEF PathType
<1>7. 1 \in 1 .. Len(chan)
  BY <1>3
<1>8. PathInv'
  <2>1. shared' => cur' # <<>> /\ tap' = cur'
    BY <1>4, <1>5
  <2>2. \A a \in ToSet(cur'[1].ack) : Vouched(a)' \subseteq Known' \cup Held'
    <3>1. \A a \in ToSet(chan[1].ack) : \A l \in Vouched(a) :
            l \in Known \cup Held \/ \E j \in 1 .. 1 : chan[j].line = l
      BY <1>7 DEF PathInv
    <3> QED
      BY <1>2, <1>4, <3>1
  <2>3. ASSUME NEW k \in 1 .. Len(chan'), NEW a \in ToSet(chan'[k].ack), NEW l \in Vouched(a)'
        PROVE  l \in Known' \cup Held' \/ \E j \in 1 .. k : chan'[j].line = l
    <3>1. k \in Nat /\ k + 1 \in 1 .. Len(chan) /\ chan'[k] = chan[k + 1] /\ l \in Vouched(a)
      BY <1>2, <1>3, <2>3
    <3>2. l \in Known \cup Held \/ \E j \in 1 .. k + 1 : chan[j].line = l
      BY <2>3, <3>1 DEF PathInv
    <3>3. ASSUME NEW j \in 1 .. k + 1, chan[j].line = l
          PROVE  l \in Known' \cup Held' \/ \E i \in 1 .. k : chan'[i].line = l
      <4>1. CASE j = 1
        BY <1>4, <3>3, <4>1
      <4>2. CASE j # 1
        <5>1. j - 1 \in 1 .. k /\ j - 1 \in 1 .. Len(chan') /\ (j - 1) + 1 = j
          BY <1>3, <3>1, <4>2
        <5>2. chan'[j - 1] = chan[j]
          BY <1>3, <5>1
        <5> QED
          BY <3>3, <5>1, <5>2
      <4> QED
        BY <4>1, <4>2
    <3> QED
      BY <1>2, <1>4, <3>2, <3>3
  <2>4. tap' # <<>> /\ ~shared' => \A a \in ToSet(tap'[1].ack) : Vouched(a)' \subseteq Known'
    BY <1>1, <1>2, <1>5 DEF PathInv
  <2>5. \A a \in ToSet(acks') : Vouched(a)' \subseteq Known'
    BY <1>1, <1>2 DEF PathInv
  <2> QED
    BY <2>1, <2>2, <2>3, <2>4, <2>5 DEF PathInv
<1>9. InFlight' \subseteq InFlight
  <2>1. ToSet(chan[1].ack) \subseteq InFlight
    BY <1>7 DEF InFlight
  <2>2. \A k \in 1 .. Len(chan') : ToSet(chan'[k].ack) \subseteq InFlight
    BY <1>3 DEF InFlight
  <2>3. tap' # <<>> => ToSet(tap'[1].ack) \subseteq InFlight
    BY <1>4, <1>5, <2>1 DEF InFlight
  <2>4. ToSet(acks') \subseteq InFlight
    BY <1>1 DEF InFlight
  <2> QED
    BY <1>4, <2>1, <2>2, <2>3, <2>4 DEF InFlight
<1>10. InPipe \subseteq InPipe'
  <2> SUFFICES ASSUME NEW k \in 1 .. Len(chan) PROVE chan[k].line \in InPipe'
    BY <1>4 DEF InPipe
  <2>1. CASE k = 1
    BY <1>4, <2>1 DEF InPipe
  <2>2. CASE k # 1
    <3>1. k - 1 \in 1 .. Len(chan') /\ (k - 1) + 1 = k
      BY <1>3, <2>2
    <3>2. chan'[k - 1] = chan[k]
      BY <1>3, <3>1
    <3> QED
      BY <3>1, <3>2 DEF InPipe
  <2> QED
    BY <2>1, <2>2
<1> QED
  BY <1>1, <1>2, <1>6, <1>8, <1>9, <1>10 DEF Carries, Quiet

\* process_event returns: the line is done with, and the ack fires unless a
\* tap holds a clone.
LEMMA CompleteCarries ==
    ASSUME PathType, PathInv, Elsewhere, Complete
    PROVE  Carries
<1>1. /\ cur # <<>> /\ cur' = <<>> /\ shared' = FALSE /\ UNCHANGED <<chan, tap>>
      /\ processed' = processed \cup {cur[1].line}
      /\ IF shared THEN UNCHANGED acks ELSE acks' = acks \o cur[1].ack
      /\ cur = <<cur[1]>> /\ cur[1] \in EventsOf /\ acks \in Seq(Positions)
  BY DEF Complete, Fire, PathType
<1>2. /\ \A a : Vouched(a)' = Vouched(a)
      /\ Positions' = Positions /\ EventsOf' = EventsOf
  BY VouchedKept
<1>3. Known' = Known \cup {cur[1].line} /\ Held = {cur[1].line} /\ Held' = {}
  BY <1>1 DEF Known, Elsewhere, Held
<1>4. cur[1].ack \in Seq(Positions)
  BY <1>1 DEF EventsOf
<1>5. /\ acks' \in Seq(Positions)
      /\ \A x \in ToSet(acks') : x \in ToSet(acks) \/ (~shared /\ x \in ToSet(cur[1].ack))
  BY <1>1, <1>4, Fired
<1>6. PathType'
  BY <1>1, <1>2, <1>5 DEF PathType
<1>7. PathInv'
  <2>1. shared' => cur' # <<>> /\ tap' = cur'
    BY <1>1
  <2>2. \A k \in 1 .. Len(chan') : \A a \in ToSet(chan'[k].ack) : \A l \in Vouched(a)' :
          l \in Known' \cup Held' \/ \E j \in 1 .. k : chan'[j].line = l
    BY <1>1, <1>2, <1>3 DEF PathInv
  <2>3. \A a \in ToSet(cur[1].ack) : Vouched(a)' \subseteq Known'
    BY <1>1, <1>2, <1>3 DEF PathInv
  <2>4. tap' # <<>> /\ ~shared' => \A a \in ToSet(tap'[1].ack) : Vouched(a)' \subseteq Known'
    BY <1>1, <1>2, <1>3, <2>3 DEF PathInv
  <2>5. \A a \in ToSet(acks') : Vouched(a)' \subseteq Known'
    BY <1>2, <1>3, <1>5, <2>3 DEF PathInv
  <2> QED
    BY <1>1, <2>1, <2>2, <2>4, <2>5 DEF PathInv
<1>8. InFlight' \subseteq InFlight
  BY <1>1, <1>5 DEF InFlight
<1>9. Known \cup InPipe \subseteq Known' \cup InPipe'
  BY <1>1, <1>3 DEF InPipe
<1> QED
  BY <1>1, <1>3, <1>6, <1>7, <1>8, <1>9 DEF Carries, Quiet

\* A subscriber is done with its clone.
LEMMA TapReleaseCarries ==
    ASSUME PathType, PathInv, Elsewhere, TapRelease
    PROVE  Carries
<1>1. /\ tap # <<>> /\ tap' = <<>> /\ shared' = FALSE /\ UNCHANGED <<chan, cur, processed>>
      /\ IF shared THEN UNCHANGED acks ELSE acks' = acks \o tap[1].ack
      /\ tap = <<tap[1]>> /\ tap[1] \in EventsOf /\ acks \in Seq(Positions)
  BY DEF TapRelease, Fire, PathType
<1>2. /\ \A a : Vouched(a)' = Vouched(a)
      /\ Positions' = Positions /\ EventsOf' = EventsOf /\ Known' = Known
  BY <1>1, VouchedKept
<1>3. Held' = Held /\ InPipe' = InPipe
  BY <1>1 DEF Held, InPipe
<1>4. tap[1].ack \in Seq(Positions)
  BY <1>1 DEF EventsOf
<1>5. /\ acks' \in Seq(Positions)
      /\ \A x \in ToSet(acks') : x \in ToSet(acks) \/ (~shared /\ x \in ToSet(tap[1].ack))
  BY <1>1, <1>4, Fired
<1>6. PathType'
  BY <1>1, <1>2, <1>5 DEF PathType
<1>7. PathInv'
  <2>1. \A a \in ToSet(acks') : Vouched(a)' \subseteq Known'
    BY <1>1, <1>2, <1>5 DEF PathInv
  <2> QED
    BY <1>1, <1>2, <1>3, <2>1 DEF PathInv
<1>8. InFlight' \subseteq InFlight
  BY <1>1, <1>5 DEF InFlight
<1> QED
  BY <1>1, <1>2, <1>3, <1>6, <1>7, <1>8 DEF Carries, Quiet

\* Every step of the worker, a tap or the shutdown watch carries on.
LEMMA PathCarries ==
    ASSUME PathType, PathInv, Elsewhere, WorkerStep \/ TapRelease \/ SignalShutdown
    PROVE  Carries
<1>1. CASE UNCHANGED <<chan, cur, tap, shared, acks, processed>>
  <2>1. /\ \A a : Vouched(a)' = Vouched(a)
        /\ Positions' = Positions /\ EventsOf' = EventsOf /\ Known' = Known
    BY <1>1, VouchedKept
  <2>2. Held' = Held /\ InPipe' = InPipe /\ InFlight' = InFlight
    BY <1>1 DEF Held, InPipe, InFlight
  <2>3. PathType'
    BY <1>1, <2>1 DEF PathType
  <2>4. PathInv'
    BY <1>1, <2>1, <2>2 DEF PathInv
  <2> QED
    BY <1>1, <2>1, <2>2, <2>3, <2>4 DEF Carries, Quiet
<1>2. CASE Dispatch
  BY <1>2, DispatchCarries
<1>3. CASE Complete
  BY <1>3, CompleteCarries
<1>4. CASE TapRelease
  BY <1>4, TapReleaseCarries
<1> QED
  BY <1>1, <1>2, <1>3, <1>4 DEF WorkerStep, WorkerClose, SignalShutdown

-----------------------------------------------------------------------------
(* The inputs' ends of the path. *)

\* Acks are taken out of the channel, or nothing happens on the path, and no
\* position in flight vouches for more than before.
LEMMA AcksTaken ==
    ASSUME PathType, PathInv, UNCHANGED <<kind, chan, cur, tap, shared>>,
           acks' \in Seq(Positions), ToSet(acks') \subseteq ToSet(acks),
           Known \subseteq Known', \A a \in InFlight : Vouched(a)' \subseteq Vouched(a)
    PROVE  /\ PathType' /\ PathInv' /\ InFlight' \subseteq InFlight
           /\ InPipe' = InPipe /\ Known \cup InPipe \subseteq Known' \cup InPipe'
<1>1. Positions' = Positions /\ EventsOf' = EventsOf
  BY DEF Positions, Lines, EventsOf
<1>2. Held' = Held /\ InPipe' = InPipe
  BY DEF Held, InPipe
<1>3. InFlight' \subseteq InFlight
  BY DEF InFlight
<1>4. PathType'
  BY <1>1 DEF PathType
<1>5. PathInv'
  <2>1. shared' => cur' # <<>> /\ tap' = cur'
    BY DEF PathInv
  <2>2. cur' # <<>> => \A a \in ToSet(cur'[1].ack) : Vouched(a)' \subseteq Known' \cup Held'
    <3>1. cur # <<>> => \A a \in ToSet(cur[1].ack) : a \in InFlight
      BY DEF InFlight
    <3> QED
      BY <1>2, <3>1 DEF PathInv
  <2>3. \A k \in 1 .. Len(chan') : \A a \in ToSet(chan'[k].ack) : \A l \in Vouched(a)' :
          l \in Known' \cup Held' \/ \E j \in 1 .. k : chan'[j].line = l
    <3>1. \A k \in 1 .. Len(chan) : \A a \in ToSet(chan[k].ack) : a \in InFlight
      BY DEF InFlight
    <3> QED
      BY <1>2, <3>1 DEF PathInv
  <2>4. tap' # <<>> /\ ~shared' => \A a \in ToSet(tap'[1].ack) : Vouched(a)' \subseteq Known'
    <3>1. tap # <<>> => \A a \in ToSet(tap[1].ack) : a \in InFlight
      BY DEF InFlight
    <3> QED
      BY <3>1 DEF PathInv
  <2>5. \A a \in ToSet(acks') : Vouched(a)' \subseteq Known'
    <3>1. \A a \in ToSet(acks) : a \in InFlight
      BY DEF InFlight
    <3> QED
      BY <3>1 DEF PathInv
  <2> QED
    BY <2>1, <2>2, <2>3, <2>4, <2>5 DEF PathInv
<1> QED
  BY <1>2, <1>3, <1>4, <1>5

\* An event is sent that vouches for what is known or in the pipe, and itself.
LEMMA EventSent ==
    ASSUME PathType, PathInv, UNCHANGED <<kind, cur, tap, shared, acks>>,
           NEW e \in EventsOf, Send(e), Known \subseteq Known',
           \A a \in InFlight : Vouched(a)' \subseteq Vouched(a),
           \A a \in ToSet(e.ack) : Vouched(a)' \subseteq Known \cup InPipe \cup {e.line}
    PROVE  /\ PathType' /\ PathInv' /\ InFlight' \subseteq InFlight \cup ToSet(e.ack)
           /\ InPipe' = InPipe \cup {e.line}
<1>1. Positions' = Positions /\ EventsOf' = EventsOf /\ Held' = Held
  BY DEF Positions, Lines, EventsOf, Held
<1>2. chan \in Seq(EventsOf) /\ chan' = Append(chan, e) /\ Len(chan) < Capacity
  BY DEF PathType, Send, Accepts
<1>3. PICK n \in Nat : n = Len(chan)
  BY <1>2, LenProperties
<1>4. /\ chan' \in Seq(EventsOf) /\ Len(chan') = n + 1 /\ chan'[n + 1] = e
      /\ \A i \in 1 .. n : chan'[i] = chan[i]
  BY <1>2, <1>3, AppendProperties
<1>5. 1 .. n + 1 = (1 .. n) \cup {n + 1}
  BY <1>3
<1>6. InPipe' = InPipe \cup {e.line}
  BY <1>1, <1>3, <1>4, <1>5 DEF InPipe
<1>7. InFlight' \subseteq InFlight \cup ToSet(e.ack)
  BY <1>3, <1>4, <1>5 DEF InFlight
<1>8. PathType'
  <2>1. Len(chan') <= Capacity
    BY <1>2, <1>3, <1>4, InputsAssumption
  <2> QED
    BY <1>1, <1>4, <2>1 DEF PathType
<1>9. PathInv'
  <2>1. shared' => cur' # <<>> /\ tap' = cur'
    BY DEF PathInv
  <2>2. cur' # <<>> => \A a \in ToSet(cur'[1].ack) : Vouched(a)' \subseteq Known' \cup Held'
    <3>1. cur # <<>> => \A a \in ToSet(cur[1].ack) : a \in InFlight
      BY DEF InFlight
    <3> QED
      BY <1>1, <3>1 DEF PathInv
  <2>3. ASSUME NEW k \in 1 .. Len(chan'), NEW a \in ToSet(chan'[k].ack), NEW l \in Vouched(a)'
        PROVE  l \in Known' \cup Held' \/ \E j \in 1 .. k : chan'[j].line = l
    <3>1. CASE k \in 1 .. n
      <4>1. chan'[k] = chan[k] /\ a \in InFlight
        BY <1>3, <1>4, <2>3, <3>1 DEF InFlight
      <4>2. l \in Known \cup Held \/ \E j \in 1 .. k : chan[j].line = l
        BY <1>3, <2>3, <3>1, <4>1 DEF PathInv
      <4>3. \A j \in 1 .. k : j \in 1 .. n
        BY <3>1
      <4> QED
        BY <1>1, <1>4, <4>2, <4>3
    <3>2. CASE k = n + 1
      <4>1. l \in Known \cup InPipe \cup {e.line}
        BY <1>4, <2>3, <3>2
      <4>2. l \in Known \cup Held \/ l = e.line \/ \E j \in 1 .. n : chan[j].line = l
        BY <1>3, <4>1 DEF InPipe
      <4>3. n + 1 \in 1 .. k /\ \A j \in 1 .. n : j \in 1 .. k
        BY <3>2
      <4> QED
        BY <1>1, <1>4, <4>2, <4>3
    <3> QED
      BY <1>4, <1>5, <2>3, <3>1, <3>2
  <2>4. tap' # <<>> /\ ~shared' => \A a \in ToSet(tap'[1].ack) : Vouched(a)' \subseteq Known'
    <3>1. tap # <<>> => \A a \in ToSet(tap[1].ack) : a \in InFlight
      BY DEF InFlight
    <3> QED
      BY <3>1 DEF PathInv
  <2>5. \A a \in ToSet(acks') : Vouched(a)' \subseteq Known'
    <3>1. \A a \in ToSet(acks) : a \in InFlight
      BY DEF InFlight
    <3> QED
      BY <3>1 DEF PathInv
  <2> QED
    BY <2>1, <2>2, <2>3, <2>4, <2>5 DEF PathInv
<1> QED
  BY <1>6, <1>7, <1>8, <1>9

\* Nothing is on its way when the path is empty.
LEMMA QuietPath ==
    Quiet => /\ InFlight = {} /\ InPipe = {}
             /\ shared = FALSE => PathType /\ PathInv
<1> SUFFICES ASSUME Quiet
             PROVE  /\ InFlight = {} /\ InPipe = {}
                    /\ shared = FALSE => PathType /\ PathInv
  OBVIOUS
<1>1. chan = <<>> /\ cur = <<>> /\ tap = <<>> /\ acks = <<>>
  BY DEF Quiet
<1>2. ToSet(acks) = {} /\ Len(chan) = 0
  BY <1>1 DEF ToSet
<1>3. InFlight = {} /\ InPipe = {}
  BY <1>1, <1>2 DEF InFlight, InPipe, Held
<1>4. ASSUME shared = FALSE PROVE PathType /\ PathInv
  <2>1. chan \in Seq(EventsOf) /\ acks \in Seq(Positions)
    BY <1>1
  <2>2. Len(chan) <= Capacity /\ 1 .. Len(chan) = {}
    BY <1>2, InputsAssumption
  <2>3. PathType
    BY <1>1, <1>4, <2>1, <2>2 DEF PathType
  <2>4. PathInv
    BY <1>1, <1>2, <1>4, <2>2 DEF PathInv
  <2> QED
    BY <2>3, <2>4
<1> QED
  BY <1>3, <1>4

-----------------------------------------------------------------------------
(* The inputs that follow a log by a cursor. *)

\* What is passed over is known from then on.
LEMMA PassedOver ==
    ASSUME NEW S, NEW T, PassOver(S, T)
    PROVE  EntriesPassed' = EntriesPassed \cup S /\ EntriesPassed \subseteq EntriesPassed'
  BY DEF PassOver

\* Nothing changes on the path, but entries may be passed over.
PathSame ==
    /\ InFlight' = InFlight /\ InPipe' = InPipe /\ Quiet' = Quiet /\ Known \subseteq Known'

\* An input's step off the path.
LEMMA OffThePath ==
    ASSUME PathType, PathInv, UNCHANGED <<kind, generation, misread>>, UNCHANGED pathVars,
           LinesPassed \subseteq LinesPassed', EntriesPassed \subseteq EntriesPassed'
    PROVE  PathType' /\ PathInv' /\ PathSame
<1>1. UNCHANGED <<chan, cur, tap, shared, acks, processed>>
  BY DEF pathVars
<1>2. Known \subseteq Known'
  BY <1>1 DEF Known
<1>3. \A a : Vouched(a)' = Vouched(a)
  BY DEF Vouched, Below
<1>4. acks' \in Seq(Positions) /\ ToSet(acks') \subseteq ToSet(acks)
  BY <1>1 DEF PathType
<1>5. PathType' /\ PathInv' /\ InPipe' = InPipe
  BY <1>1, <1>2, <1>3, <1>4, AcksTaken
<1>6. InFlight' = InFlight /\ Quiet' = Quiet
  BY <1>1 DEF InFlight, Quiet
<1> QED
  BY <1>2, <1>5, <1>6 DEF PathSame

\* What the worker and the taps do, a cursor input's invariant survives.
LEMMA CursorCarried ==
    ASSUME CursorInv, Carries, UNCHANGED <<kind, LinesPassed>>, UNCHANGED cursorVars
    PROVE  CursorInv'
<1>1. UNCHANGED <<log, jlen, oldest, rpc, rpos, rhand, stop, entries,
                  entries_open, apc, ahand, cursor, EntriesPassed>>
  BY DEF cursorVars
<1>2. CursorType'
  BY <1>1 DEF CursorInv, CursorType
<1>3. kind \notin CursorKinds => CursorIdle'
  BY <1>1 DEF CursorInv, CursorIdle
<1>4. ASSUME FeedInv PROVE FeedInv'
  <2>1. WithActor \subseteq WithActor' /\ Known \subseteq Known' /\ InFlight' \subseteq InFlight
        /\ (Quiet => Quiet')
    BY <1>1 DEF Carries, WithActor
  <2> QED
    BY <1>1, <1>4, <2>1 DEF FeedInv, Feeding
<1> QED
  BY <1>2, <1>3, <1>4 DEF CursorInv

\* The log service.
LEMMA LogKeeps ==
    ASSUME CursorType, FeedInv, PathSame, LogStep
    PROVE  CursorType' /\ FeedInv'
<1>1. /\ UNCHANGED <<log, rpc, rpos, rhand, stop, entries, entries_open, apc, ahand, cursor>>
      /\ jlen' \in Nat /\ jlen' >= jlen /\ oldest' \in 1 .. jlen'
  BY DEF LogStep, LogEntry, Vacuum, reader, actor, CursorType
<1>2. WithActor \subseteq WithActor'
  BY <1>1 DEF PathSame, WithActor
<1>3. CursorType'
  BY <1>1 DEF CursorType
<1>4. 0 .. jlen \subseteq 0 .. jlen'
  BY <1>1 DEF CursorType
<1>5. FeedInv'
  BY <1>1, <1>2, <1>4 DEF FeedInv, Feeding, PathSame
<1> QED
  BY <1>3, <1>5

\* A start: the reader opens the log, nothing is on its way.
LEMMA StartKeeps ==
    ASSUME CursorType, FeedInv, PathSame, StartInput
    PROVE  CursorType' /\ FeedInv'
<1>1. /\ UNCHANGED <<log, jlen, oldest, rpos, rhand, stop, entries, entries_open, ahand, cursor>>
      /\ apc = "down" /\ apc' = "startup" /\ rpc' = "open"
  BY DEF StartInput, logVars
<1>2. CursorType'
  BY <1>1 DEF CursorType
<1>3. FeedInv'
  BY <1>1 DEF FeedInv, Feeding, PathSame
<1> QED
  BY <1>2, <1>3

\* The log is opened: what is before the first entry that will be read is
\* known, by the state file or because it is passed over.
LEMMA OpenLogKeeps ==
    ASSUME CursorType, FeedInv, PathSame, OpenLog, UNCHANGED <<processed, LinesPassed>>
    PROVE  CursorType' /\ FeedInv'
<1>1. /\ UNCHANGED <<log, jlen, oldest, rhand, stop, entries, entries_open, ahand, cursor>>
      /\ rpc = "open" /\ rpc' = "loop" /\ apc' = "select" /\ apc = "startup"
      /\ AtTail \/ Resume
  BY DEF OpenLog, logVars, FeedInv
<1>2. Quiet /\ entries = <<>> /\ rpos = 0 /\ entries_open
  BY <1>1 DEF FeedInv
<1>3. Known' = Known \cup EntriesPassed' /\ 1 .. cursor \subseteq Known /\ EntriesPassed \subseteq Known
  BY DEF Known, FeedInv, PathSame
<1>4. jlen \in Nat /\ oldest \in 1 .. jlen /\ cursor \in 0 .. jlen
  BY DEF CursorType
<1>5. rpos' \in 0 .. jlen /\ 1 .. rpos' \subseteq Known'
  <2>1. CASE AtTail
    <3>1. rpos' = jlen /\ EntriesPassed' = EntriesPassed \cup (rpos + 1 .. jlen)
      BY <2>1, PassedOver DEF AtTail
    <3> QED
      BY <1>2, <1>3, <1>4, <3>1
  <2>2. CASE Resume
    <3>1. CASE cursor >= oldest
      BY <1>3, <1>4, <2>2, <3>1 DEF Resume
    <3>2. CASE ~(cursor >= oldest) /\ log = "journal"
      <4>1. rpos' = oldest /\ EntriesPassed' = EntriesPassed \cup (cursor + 1 .. oldest)
        BY <2>2, <3>2, PassedOver DEF Resume
      <4>2. \A l \in 1 .. oldest : l \in 1 .. cursor \/ l \in cursor + 1 .. oldest
        BY <1>4
      <4> QED
        BY <1>3, <1>4, <4>1, <4>2
    <3>3. CASE ~(cursor >= oldest) /\ log # "journal"
      <4>1. rpos' = jlen /\ EntriesPassed' = EntriesPassed \cup (cursor + 1 .. jlen)
        BY <2>2, <3>3, PassedOver DEF Resume
      <4>2. \A l \in 1 .. jlen : l \in 1 .. cursor \/ l \in cursor + 1 .. jlen
        BY <1>4
      <4> QED
        BY <1>3, <1>4, <4>1, <4>2
    <3> QED
      BY <3>1, <3>2, <3>3
  <2> QED
    BY <1>1, <2>1, <2>2
<1>6. CursorType'
  BY <1>1, <1>5 DEF CursorType
<1>7. FeedInv'
  <2>1. Len(entries') = 0 /\ 1 .. Len(entries') = {}
    BY <1>1, <1>2
  <2>2. Known' \subseteq WithActor' /\ 1 .. cursor' \subseteq Known'
    BY <1>1, <1>3 DEF WithActor, PathSame
  <2>3. InFlight' \subseteq 0 .. jlen'
    BY <1>1 DEF PathSame, FeedInv
  <2> QED
    BY <1>1, <1>2, <1>5, <2>1, <2>2, <2>3 DEF FeedInv
<1> QED
  BY <1>6, <1>7

\* The reader moves on: it passes over entries, or takes the next one.
LEMMA ReaderMoves ==
    ASSUME CursorType, FeedInv, PathSame, rpc = "loop",
           UNCHANGED <<log, jlen, oldest, stop, entries, entries_open, apc, ahand, cursor>>,
           rpc' \in {"loop", "send", "done"}, rpos' \in rpos .. jlen, rhand' \in 0 .. jlen,
           rpc' = "send" => rhand' = rpos',
           \A l \in rpos + 1 .. rpos' : l \in Known' \/ (rpc' = "send" /\ l = rhand')
    PROVE  CursorType' /\ FeedInv'
<1>1. jlen \in Nat /\ rpos \in 0 .. jlen /\ rpos' \in 0 .. jlen
  BY DEF CursorType
<1>2. CursorType'
  BY <1>1 DEF CursorType
<1>3. WithActor \subseteq WithActor' /\ Known' \subseteq WithActor'
  BY DEF WithActor, PathSame
<1>4. Feeding' => \A l \in 1 .. rpos' :
                    \/ l \in WithActor' \/ \E j \in 1 .. Len(entries') : entries'[j] = l
                    \/ rpc' = "send" /\ l = rhand'
  <2> SUFFICES ASSUME Feeding', NEW l \in 1 .. rpos'
               PROVE  \/ l \in WithActor' \/ \E j \in 1 .. Len(entries') : entries'[j] = l
                      \/ rpc' = "send" /\ l = rhand'
    OBVIOUS
  <2>1. CASE l \in 1 .. rpos
    BY <1>3, <2>1 DEF FeedInv, Feeding
  <2>2. CASE l \in rpos + 1 .. rpos'
    BY <1>3, <2>2
  <2> QED
    BY <1>1, <2>1, <2>2
<1>5. FeedInv'
  BY <1>3, <1>4 DEF FeedInv, Feeding, PathSame
<1> QED
  BY <1>2, <1>5

\* The reader's turns.
LEMMA ReadKeeps ==
    ASSUME CursorType, FeedInv, PathSame, UNCHANGED <<processed, LinesPassed>>,
           ReadEntry \/ ReadFails \/ Resubscribe \/ ReaderStops
    PROVE  CursorType' /\ FeedInv'
<1>1. /\ UNCHANGED <<log, jlen, oldest, stop, entries, entries_open, apc, ahand, cursor>>
      /\ rpc = "loop"
  BY DEF ReadEntry, ReadFails, Resubscribe, ReaderStops, logVars, actor
<1>2. Known' = processed \cup LinesPassed \cup EntriesPassed'
  BY DEF Known
<1>3. jlen \in Nat /\ oldest \in 1 .. jlen /\ rpos \in 0 .. jlen /\ rhand \in 0 .. jlen
  BY DEF CursorType
<1>4. Following \in rpos + 1 .. Following /\ Following \in Nat
  BY <1>3 DEF Following
<1>5. CASE ReadEntry
  <2>1. /\ Following <= jlen /\ EntriesPassed' = EntriesPassed \cup (rpos + 1 .. Following - 1)
        /\ rpc' = "send" /\ rhand' = Following /\ rpos' = Following
    BY <1>5, PassedOver DEF ReadEntry
  <2>2. \A l \in rpos + 1 .. rpos' : l \in Known' \/ (rpc' = "send" /\ l = rhand')
    BY <1>2, <1>3, <1>4, <2>1
  <2>3. rpos' \in rpos .. jlen /\ rhand' \in 0 .. jlen
    BY <1>3, <1>4, <2>1
  <2> QED
    BY <1>1, <2>1, <2>2, <2>3, ReaderMoves
<1>6. CASE ReadFails /\ log = "journal"
  <2>1. /\ Following <= jlen /\ EntriesPassed' = EntriesPassed \cup (rpos + 1 .. Following)
        /\ rpc' = rpc /\ rhand' = rhand /\ rpos' = Following
    BY <1>6, PassedOver DEF ReadFails
  <2>2. \A l \in rpos + 1 .. rpos' : l \in Known'
    BY <1>2, <2>1
  <2>3. rpos' \in rpos .. jlen
    BY <1>3, <1>4, <2>1
  <2> QED
    BY <1>1, <1>3, <2>1, <2>2, <2>3, ReaderMoves
<1>7. CASE Resubscribe
  <2>1. /\ EntriesPassed' = EntriesPassed \cup (rpos + 1 .. jlen)
        /\ rpc' = rpc /\ rhand' = rhand /\ rpos' = jlen
    BY <1>7, PassedOver DEF Resubscribe, AtTail
  <2>2. \A l \in rpos + 1 .. rpos' : l \in Known'
    BY <1>2, <2>1
  <2>3. rpos' \in rpos .. jlen
    BY <1>3, <2>1
  <2> QED
    BY <1>1, <1>3, <2>1, <2>2, <2>3, ReaderMoves
<1>8. CASE (ReadFails /\ log # "journal") \/ ReaderStops
  <2>1. rpc' = "done" /\ rhand' = rhand /\ rpos' = rpos
    BY <1>8 DEF ReadFails, ReaderStops
  <2>2. rpos' \in rpos .. jlen /\ rpos + 1 .. rpos' = {}
    BY <1>3, <2>1
  <2> QED
    BY <1>1, <1>3, <2>1, <2>2, ReaderMoves
<1> QED
  BY <1>5, <1>6, <1>7, <1>8

\* The entry goes into the channel; the channel is closed only when the actor
\* takes no more.
LEMMA HandOverKeeps ==
    ASSUME CursorType, FeedInv, PathSame, HandOver
    PROVE  CursorType' /\ FeedInv'
<1>1. /\ UNCHANGED <<log, jlen, oldest, rpos, stop, entries_open, apc, ahand, cursor>>
      /\ rpc = "send" /\ rhand' = 0
  BY DEF HandOver, logVars, actor
<1>2. /\ jlen \in Nat /\ rhand \in 0 .. jlen /\ rhand = rpos
      /\ entries \in Seq(Nat) /\ EntryCapacity \in Nat
  BY <1>1, InputsAssumption DEF CursorType, FeedInv
<1>3. WithActor \subseteq WithActor'
  BY <1>1 DEF WithActor, PathSame
<1>4. CASE entries_open /\ Len(entries) < EntryCapacity
           /\ entries' = Append(entries, rhand) /\ rpc' = "loop"
  <2>1. PICK n \in Nat : n = Len(entries)
    BY <1>2, LenProperties
  <2>2. /\ entries' \in Seq(Nat) /\ Len(entries') = n + 1 /\ entries'[n + 1] = rhand
        /\ \A i \in 1 .. n : entries'[i] = entries[i]
    BY <1>2, <1>4, <2>1, AppendProperties
  <2>3. 1 .. n + 1 = (1 .. n) \cup {n + 1} /\ \A k \in 1 .. n : \A j \in 1 .. k : j \in 1 .. n
    BY <2>1
  <2>4. CursorType'
    <3>1. Len(entries') <= EntryCapacity
      BY <1>2, <1>4, <2>1, <2>2
    <3> QED
      BY <1>1, <1>2, <1>4, <2>2, <3>1 DEF CursorType
  <2>5. \A k \in 1 .. Len(entries') : entries'[k] \in 0 .. jlen
    BY <1>2, <2>1, <2>2, <2>3 DEF FeedInv
  <2>6. ASSUME Feeding, NEW k \in 1 .. Len(entries'), NEW l \in 1 .. entries'[k]
        PROVE  l \in WithActor' \/ \E j \in 1 .. k : entries'[j] = l
    <3>1. CASE k \in 1 .. n
      BY <1>3, <2>1, <2>2, <2>3, <2>6, <3>1 DEF FeedInv
    <3>2. CASE k = n + 1
      <4>1. l \in 1 .. rpos
        BY <1>2, <2>2, <2>6, <3>2
      <4>2. l \in WithActor \/ (\E j \in 1 .. n : entries[j] = l) \/ l = rhand
        BY <2>1, <2>6, <4>1 DEF FeedInv
      <4> QED
        BY <1>3, <2>2, <2>3, <3>2, <4>2
    <3> QED
      BY <2>2, <2>3, <2>6, <3>1, <3>2
  <2>7. ASSUME Feeding, NEW l \in 1 .. rpos
        PROVE  l \in WithActor' \/ \E j \in 1 .. Len(entries') : entries'[j] = l
    <3>1. l \in WithActor \/ (\E j \in 1 .. n : entries[j] = l) \/ l = rhand
      BY <2>1, <2>7 DEF FeedInv
    <3> QED
      BY <1>3, <2>2, <2>3, <3>1
  <2>8. FeedInv'
    BY <1>1, <1>3, <1>4, <2>5, <2>6, <2>7 DEF FeedInv, Feeding, PathSame
  <2> QED
    BY <2>4, <2>8
<1>5. CASE ~entries_open /\ rpc' = "done" /\ UNCHANGED entries
  <2>1. ~Feeding /\ apc \notin {"down", "startup"}
    BY <1>5 DEF FeedInv
  <2>2. CursorType'
    BY <1>1, <1>2, <1>5 DEF CursorType
  <2>3. FeedInv'
    BY <1>1, <1>5, <2>1 DEF FeedInv, Feeding, PathSame
  <2> QED
    BY <2>2, <2>3
<1> QED
  BY <1>4, <1>5 DEF HandOver

\* The actor leaves its loop: nothing more is fed to the pipeline.
LEMMA LeaveKeeps ==
    ASSUME CursorType, FeedInv, PathSame,
           ActorShutdown \/ ActorNone \/ ActorGivesUp \/ OpenFails
    PROVE  CursorType' /\ FeedInv'
<1>1. /\ UNCHANGED <<log, jlen, oldest, rpos, rhand, entries, cursor>>
      /\ apc' \in {"join", "stopped"} /\ rpc' \in {rpc, "done"} /\ rpc' # "open"
      /\ ahand' \in {0, ahand} /\ entries_open' \in BOOLEAN
  <2>1. CASE OpenFails
    BY <2>1 DEF OpenFails, logVars
  <2>2. CASE ActorShutdown \/ ActorNone \/ ActorGivesUp
    <3>1. apc \in {"select", "send"} /\ Leave /\ UNCHANGED <<logVars, reader, entries, cursor>>
      BY <2>2 DEF ActorShutdown, ActorNone, ActorGivesUp
    <3>2. rpc # "open"
      BY <3>1 DEF FeedInv
    <3> QED
      BY <3>1, <3>2 DEF Leave, logVars, reader
  <2> QED
    BY <2>1, <2>2
<1>2. CursorType'
  BY <1>1 DEF CursorType
<1>3. FeedInv'
  BY <1>1 DEF FeedInv, Feeding, PathSame
<1> QED
  BY <1>2, <1>3

\* The actor takes the next entry out of the channel.
LEMMA EntryKeeps ==
    ASSUME CursorType, FeedInv, PathSame, ActorEntry
    PROVE  CursorType' /\ FeedInv'
<1>1. /\ UNCHANGED <<log, jlen, oldest, rpc, rpos, rhand, stop, entries_open, cursor>>
      /\ apc = "select" /\ apc' = "send" /\ entries # <<>>
      /\ ahand' = Head(entries) /\ entries' = Tail(entries)
  BY DEF ActorEntry, logVars, reader
<1>2. jlen \in Nat /\ entries \in Seq(Nat) /\ Len(entries) <= EntryCapacity /\ EntryCapacity \in Nat
  BY InputsAssumption DEF CursorType
<1>3. PICK n \in Nat : n = Len(entries')
  BY <1>1, <1>2, FirstAndRest, LenProperties
<1>4. /\ Head(entries) = entries[1] /\ entries' \in Seq(Nat) /\ Len(entries) = n + 1
      /\ \A i \in 1 .. n : entries'[i] = entries[i + 1] /\ i + 1 \in 1 .. Len(entries)
  BY <1>1, <1>2, <1>3, FirstAndRest
<1>5. 1 \in 1 .. Len(entries)
  BY <1>4
<1>6. ahand' = entries[1] /\ ahand' \in 0 .. jlen
  BY <1>1, <1>4, <1>5 DEF FeedInv
<1>7. CursorType'
  <2>1. Len(entries') <= EntryCapacity
    BY <1>2, <1>3, <1>4
  <2> QED
    BY <1>1, <1>4, <1>6, <2>1 DEF CursorType
<1>8. WithActor' = Known' \cup InPipe \cup {entries[1]} /\ WithActor = Known \cup InPipe
      /\ Known \subseteq Known'
  BY <1>1, <1>6 DEF WithActor, PathSame
<1>9. 1 .. ahand' \subseteq WithActor'
  <2>1. \A l \in 1 .. entries[1] : l \in WithActor \/ \E j \in 1 .. 1 : entries[j] = l
    BY <1>1, <1>5 DEF FeedInv, Feeding
  <2> QED
    BY <1>6, <1>8, <2>1
<1>10. ASSUME NEW m \in Nat, NEW l, \E j \in 1 .. m + 1 : entries[j] = l, m <= n
       PROVE  l \in WithActor' \/ \E j \in 1 .. m : entries'[j] = l
  <2>1. PICK j \in 1 .. m + 1 : entries[j] = l
    BY <1>10
  <2>2. CASE j = 1
    BY <1>8, <2>1, <2>2
  <2>3. CASE j # 1
    <3>1. j - 1 \in 1 .. m /\ j - 1 \in 1 .. n /\ (j - 1) + 1 = j
      BY <1>10, <2>3
    <3>2. entries'[j - 1] = entries[j]
      BY <1>4, <3>1
    <3> QED
      BY <2>1, <3>1, <3>2
  <2> QED
    BY <2>2, <2>3
<1>11. ASSUME NEW k \in 1 .. Len(entries'), NEW l \in 1 .. entries'[k]
       PROVE  l \in WithActor' \/ \E j \in 1 .. k : entries'[j] = l
  <2>1. k \in Nat /\ k <= n /\ k + 1 \in 1 .. Len(entries) /\ l \in 1 .. entries[k + 1]
    BY <1>3, <1>4, <1>11
  <2>2. l \in WithActor \/ \E j \in 1 .. k + 1 : entries[j] = l
    BY <1>1, <2>1 DEF FeedInv, Feeding
  <2> QED
    BY <1>8, <1>10, <2>1, <2>2
<1>12. ASSUME NEW l \in 1 .. rpos
       PROVE  \/ l \in WithActor' \/ \E j \in 1 .. Len(entries') : entries'[j] = l
              \/ rpc = "send" /\ l = rhand
  <2>1. \/ l \in WithActor \/ \E j \in 1 .. n + 1 : entries[j] = l
        \/ rpc = "send" /\ l = rhand
    BY <1>1, <1>4 DEF FeedInv, Feeding
  <2>2. (\E j \in 1 .. n + 1 : entries[j] = l) =>
          l \in WithActor' \/ \E j \in 1 .. n : entries'[j] = l
    <3>1. n <= n
      BY <1>3
    <3> QED
      BY <1>10, <3>1
  <2> QED
    BY <1>3, <1>8, <2>1, <2>2
<1>13. \A k \in 1 .. Len(entries') : entries'[k] \in 0 .. jlen
  BY <1>3, <1>4 DEF FeedInv
<1>14. FeedInv'
  BY <1>1, <1>8, <1>9, <1>11, <1>12, <1>13 DEF FeedInv, Feeding, PathSame
<1> QED
  BY <1>7, <1>14

\* The actor sends the entry to the pipeline.
LEMMA ActorSendKeeps ==
    ASSUME PathType, PathInv, CursorType, FeedInv, kind \in CursorKinds,
           UNCHANGED <<kind, generation, misread, LinesPassed>>, ActorSend
    PROVE  PathType' /\ PathInv' /\ CursorType' /\ FeedInv'
<1>1. /\ UNCHANGED <<log, jlen, oldest, rpc, rpos, rhand, stop, entries, entries_open, cursor>>
      /\ UNCHANGED <<cur, tap, shared, acks, processed, EntriesPassed>>
      /\ apc = "send" /\ apc' = "select" /\ ahand' = 0
      /\ Send([line |-> ahand, ack |-> <<ahand>>])
  BY DEF ActorSend, logVars, reader
<1> DEFINE e == [line |-> ahand, ack |-> <<ahand>>]
<1>2. kind # "tail" /\ jlen \in Nat /\ ahand \in 0 .. jlen
  BY DEF CursorKinds, CursorType
<1>3. e \in EventsOf /\ e.line = ahand /\ ToSet(e.ack) = {ahand}
  <2>1. <<ahand>> \in Seq(Nat) /\ Len(<<ahand>>) = 1 /\ <<ahand>>[1] = ahand
    BY <1>2
  <2>2. ToSet(<<ahand>>) = {ahand}
    BY <2>1, ShortSets
  <2> QED
    BY <1>2, <2>1, <2>2 DEF EventsOf, Lines, Positions
<1>4. Known' = Known /\ \A a : Vouched(a)' = Vouched(a)
  BY <1>1, VouchedKept DEF Elsewhere
<1>5. \A a \in ToSet(e.ack) : Vouched(a)' \subseteq Known \cup InPipe \cup {e.line}
  <2>1. Vouched(ahand) = 1 .. ahand
    BY <1>2 DEF Vouched
  <2>2. 1 .. ahand \subseteq Known \cup InPipe \cup {ahand}
    BY <1>1 DEF FeedInv, WithActor
  <2> QED
    BY <1>3, <1>4, <2>1, <2>2
<1>6. Send(e)
  BY <1>1
<1> HIDE DEF e
<1>7. /\ PathType' /\ PathInv' /\ InFlight' \subseteq InFlight \cup ToSet(e.ack)
      /\ InPipe' = InPipe \cup {e.line}
  BY <1>1, <1>3, <1>4, <1>5, <1>6, EventSent
<1>8. CursorType'
  BY <1>1, <1>2 DEF CursorType
<1>9. WithActor' = WithActor
  BY <1>1, <1>3, <1>4, <1>7 DEF WithActor
<1>10. InFlight' \subseteq 0 .. jlen
  BY <1>2, <1>3, <1>7 DEF FeedInv
<1>11. FeedInv'
  BY <1>1, <1>4, <1>9, <1>10 DEF FeedInv, Feeding
<1> QED
  BY <1>7, <1>8, <1>11

\* The last ack that came is saved: it covers entries that are known.
LEMMA CursorSaved ==
    ASSUME PathType, PathInv, CursorType, FeedInv, kind \in CursorKinds,
           UNCHANGED <<kind, generation, misread, LinesPassed>>, ActorAck \/ ActorJoined
    PROVE  PathType' /\ PathInv' /\ CursorType' /\ FeedInv'
<1>1. /\ UNCHANGED <<log, jlen, oldest, rpc, rpos, rhand, stop, entries, entries_open, ahand>>
      /\ UNCHANGED <<chan, cur, tap, shared, processed, EntriesPassed>> /\ acks' = <<>>
      /\ (apc = "select" /\ apc' = apc) \/ (apc = "join" /\ apc' = "stopped")
      /\ UNCHANGED cursor \/ (acks # <<>> /\ cursor' = Last(acks))
  BY DEF ActorAck, ActorJoined, SaveCursor, logVars, reader, actor, Unsent
<1>2. kind # "tail"
  BY DEF CursorKinds
<1>3. Known' = Known /\ \A a : Vouched(a)' = Vouched(a)
  BY <1>1, VouchedKept DEF Elsewhere
<1>4. acks' \in Seq(Positions) /\ ToSet(acks') = {}
  BY <1>1 DEF ToSet
<1>5. PathType' /\ PathInv' /\ InFlight' \subseteq InFlight /\ InPipe' = InPipe
  BY <1>1, <1>3, <1>4, AcksTaken
<1>6. cursor' \in 0 .. jlen /\ 1 .. cursor' \subseteq Known
  <2>1. CASE UNCHANGED cursor
    BY <2>1 DEF CursorType, FeedInv
  <2>2. CASE acks # <<>> /\ cursor' = Last(acks)
    <3>1. Last(acks) \in ToSet(acks)
      BY <2>2, LastIsThere DEF PathType
    <3>2. Last(acks) \in InFlight /\ Vouched(Last(acks)) \subseteq Known
      BY <3>1 DEF InFlight, PathInv
    <3>3. Vouched(Last(acks)) = 1 .. Last(acks)
      BY <1>2 DEF Vouched
    <3> QED
      BY <2>2, <3>2, <3>3 DEF FeedInv
  <2> QED
    BY <1>1, <2>1, <2>2
<1>7. CursorType'
  BY <1>1, <1>6 DEF CursorType
<1>8. WithActor \subseteq WithActor' \/ ~Feeding'
  BY <1>1, <1>3, <1>5 DEF WithActor, Feeding
<1>9. FeedInv'
  BY <1>1, <1>3, <1>5, <1>6, <1>8 DEF FeedInv, Feeding
<1> QED
  BY <1>5, <1>7, <1>9

\* The process goes: the state file is what is left.
LEMMA CursorGoneKeeps ==
    ASSUME CursorType, FeedInv, CursorGone, UNCHANGED <<kind, LinesPassed>>
    PROVE  PathType' /\ PathInv' /\ CursorType' /\ FeedInv'
<1>1. /\ UNCHANGED <<log, jlen, oldest, cursor, EntriesPassed, processed>> /\ apc' = "down"
      /\ rpc' = "done" /\ rpos' = 0 /\ rhand' = 0 /\ entries' = <<>> /\ entries_open' = TRUE
      /\ ahand' = 0 /\ Quiet' /\ shared' = FALSE
  BY DEF CursorGone, PathReset, Quiet, logVars
<1>2. PathType' /\ PathInv' /\ InFlight' = {}
  <2>1. (Quiet => /\ InFlight = {} /\ InPipe = {}
                  /\ shared = FALSE => PathType /\ PathInv)'
    BY QuietPath, PTL
  <2> QED
    BY <1>1, <2>1
<1>3. CursorType'
  <2>1. entries' \in Seq(Nat) /\ Len(entries') <= EntryCapacity
    BY <1>1, InputsAssumption
  <2> QED
    BY <1>1, <2>1 DEF CursorType
<1>4. FeedInv'
  <2>1. Len(entries') = 0 /\ 1 .. Len(entries') = {}
    BY <1>1
  <2>2. Known' = Known
    BY <1>1 DEF Known
  <2> QED
    BY <1>1, <1>2, <2>1, <2>2 DEF FeedInv, Feeding
<1> QED
  BY <1>2, <1>3, <1>4

\* Every step of a cursor input keeps the invariant.
LEMMA CursorKeeps ==
    ASSUME PathType, PathInv, CursorInv, kind \in CursorKinds, UNCHANGED kind, UNCHANGED tailVars,
           CursorStep \/ LogStep \/ CursorExit \/ CursorCrash
    PROVE  PathType' /\ PathInv' /\ CursorInv'
<1>1. CursorType /\ FeedInv /\ LinesPassed = {} /\ UNCHANGED <<generation, misread, LinesPassed>>
  BY DEF CursorInv, tailVars
<1> SUFFICES PathType' /\ PathInv' /\ CursorType' /\ FeedInv'
  BY <1>1 DEF CursorInv
<1>2. ASSUME UNCHANGED pathVars, EntriesPassed \subseteq EntriesPassed'
      PROVE  PathType' /\ PathInv' /\ PathSame /\ UNCHANGED <<processed, LinesPassed>>
  BY <1>1, <1>2, OffThePath DEF pathVars
<1>3. CASE LogStep
  BY <1>1, <1>2, <1>3, LogKeeps DEF LogStep
<1>4. CASE StartInput
  BY <1>1, <1>2, <1>4, StartKeeps DEF StartInput
<1>5. CASE OpenLog
  BY <1>1, <1>2, <1>5, OpenLogKeeps, PassedOver DEF OpenLog, AtTail, Resume
<1>6. CASE ReadEntry \/ ReadFails \/ Resubscribe \/ ReaderStops
  BY <1>1, <1>2, <1>6, ReadKeeps, PassedOver DEF ReadEntry, ReadFails, Resubscribe, ReaderStops, AtTail
<1>7. CASE HandOver
  BY <1>1, <1>2, <1>7, HandOverKeeps DEF HandOver
<1>8. CASE ActorShutdown \/ ActorNone \/ OpenFails
  BY <1>1, <1>2, <1>8, LeaveKeeps DEF ActorShutdown, ActorNone, OpenFails
<1>9. CASE ActorGivesUp
  BY <1>1, <1>2, <1>9, LeaveKeeps DEF ActorGivesUp, Disarm, Unsent, pathVars
<1>10. CASE ActorEntry
  BY <1>1, <1>2, <1>10, EntryKeeps DEF ActorEntry
<1>11. CASE ActorSend
  BY <1>1, <1>11, ActorSendKeeps
<1>12. CASE ActorAck \/ ActorJoined
  BY <1>1, <1>12, CursorSaved
<1>13. CASE CursorExit \/ CursorCrash
  BY <1>1, <1>13, CursorGoneKeeps DEF CursorExit, CursorCrash
<1> QED
  BY <1>3, <1>4, <1>5, <1>6, <1>7, <1>8, <1>9, <1>10, <1>11, <1>12, <1>13
     DEF CursorStep, ReaderStep, ActorStep

-----------------------------------------------------------------------------
(* The tail input. *)

\* What the worker and the taps do, the tail input's invariant survives.
LEMMA TailCarried ==
    ASSUME TailInv, Carries, UNCHANGED kind, UNCHANGED tailVars
    PROVE  TailInv'
<1>1. UNCHANGED <<path, store, contents, tpc, read, acked, saved, last_inode,
                  generation, opened, pos, base, misread, LinesPassed>>
  BY DEF tailVars
<1>2. TailType'
  BY <1>1 DEF TailInv, TailType
<1>3. kind # "tail" => TailIdle'
  BY <1>1 DEF TailInv, TailIdle
<1>4. \A p : Below(p)' = Below(p)
  BY <1>1 DEF Below
<1>5. ASSUME TailRead PROVE TailRead'
  <2>1. Known \subseteq Known' /\ Known \cup InPipe \subseteq Known' \cup InPipe' /\ (Quiet => Quiet')
    BY DEF Carries
  <2> QED
    BY <1>1, <1>4, <1>5, <2>1 DEF TailRead
<1>6. ASSUME BaseInv PROVE BaseInv'
  BY <1>1, <1>6 DEF BaseInv, Carries
<1> QED
  BY <1>2, <1>3, <1>5, <1>6 DEF TailInv

\* The file that is there, or none.
LEMMA HereIs ==
    ASSUME TailType
    PROVE  /\ MaxContents \in Nat \ {0} /\ MaxLines \in Nat \ {0}
           /\ contents \in 1 .. MaxContents
           /\ \A n \in 0 .. contents : n # 0 => n \in Inodes
           /\ path # 0 => Here = store[path] /\ path \in Inodes
           /\ path = 0 => Here.lines = <<>> /\ Here.no = 0
           /\ Here.lines \in Seq(Kinds) /\ Len(Here.lines) \in 0 .. MaxLines /\ Here.no \in 0 .. contents
<1>1. /\ MaxContents \in Nat \ {0} /\ MaxLines \in Nat \ {0}
      /\ contents \in 1 .. MaxContents /\ path \in 0 .. contents
  BY InputsAssumption DEF TailType
<1>2. \A n \in 0 .. contents : n # 0 => n \in Inodes
  BY <1>1 DEF Inodes
<1>3. CASE path # 0
  <2>1. Here = store[path] /\ path \in Inodes
    BY <1>1, <1>2, <1>3 DEF Here
  <2>2. /\ store[path] \in [no : 0 .. MaxContents, lines : Seq(Kinds)]
        /\ Len(store[path].lines) <= MaxLines /\ store[path].no <= contents
    BY <2>1 DEF TailType
  <2>3. /\ store[path].lines \in Seq(Kinds) /\ Len(store[path].lines) \in Nat
        /\ store[path].no \in 0 .. contents
    BY <1>1, <2>2, LenProperties
  <2> QED
    BY <1>1, <1>2, <1>3, <2>1, <2>2, <2>3
<1>4. CASE path = 0
  <2>1. Here = [no |-> 0, lines |-> <<>>]
    BY <1>4 DEF Here, NoFile
  <2>2. Here.lines = <<>> /\ Here.no = 0 /\ Here.lines \in Seq(Kinds) /\ Len(Here.lines) = 0
    BY <2>1
  <2> QED
    BY <1>1, <1>2, <1>4, <2>2
<1> QED
  BY <1>3, <1>4

\* What a writer of the log may do to the files.
FilesMoved ==
    /\ contents' \in contents .. MaxContents /\ path' \in 0 .. contents'
    /\ store' \in [Inodes -> [no : 0 .. MaxContents, lines : Seq(Kinds)]]
    /\ \A n \in Inodes : Len(store'[n].lines) <= MaxLines /\ store'[n].no <= contents'
    /\ opened # 0 => store'[opened].no = store[opened].no
                     \/ (contents' = contents + 1 /\ store'[opened].no = contents')
    /\ path' # 0 => (path' = path /\ store'[path].no = store[path].no)
                    \/ (contents' = contents + 1 /\ store'[path'].no = contents')

\* Lines are added to the file at the path.
LEMMA LinesAdded ==
    ASSUME TailType, path # 0, NEW ls \in Seq(Kinds), Len(ls) <= MaxLines,
           store' = [store EXCEPT ![path].lines = ls], UNCHANGED <<path, contents>>
    PROVE  FilesMoved
<1>1. path \in Inodes /\ contents \in 1 .. MaxContents /\ path \in 0 .. contents
      /\ MaxContents \in Nat /\ opened \in 0 .. contents /\ (opened # 0 => opened \in Inodes)
  BY HereIs DEF TailType
<1>2. /\ store \in [Inodes -> [no : 0 .. MaxContents, lines : Seq(Kinds)]]
      /\ \A n \in Inodes : Len(store[n].lines) <= MaxLines /\ store[n].no <= contents
  BY DEF TailType
<1>3. /\ store'[path].no = store[path].no /\ store'[path].lines = ls
      /\ \A n \in Inodes : n # path => store'[n] = store[n]
      /\ store' \in [Inodes -> [no : 0 .. MaxContents, lines : Seq(Kinds)]]
  BY <1>1, <1>2
<1>4. \A n \in Inodes : store'[n].no = store[n].no /\ Len(store'[n].lines) <= MaxLines
  BY <1>2, <1>3
<1> QED
  BY <1>1, <1>2, <1>3, <1>4 DEF FilesMoved

\* The steps of whoever writes the log.
LEMMA WorldMoves ==
    ASSUME TailType, WorldStep
    PROVE  FilesMoved
<1>1. /\ MaxContents \in Nat \ {0} /\ MaxLines \in Nat \ {0}
      /\ contents \in 1 .. MaxContents /\ path \in 0 .. contents /\ opened \in 0 .. contents
      /\ \A n \in 0 .. contents : n # 0 => n \in Inodes
  BY HereIs DEF TailType
<1>2. /\ store \in [Inodes -> [no : 0 .. MaxContents, lines : Seq(Kinds)]]
      /\ \A n \in Inodes : Len(store[n].lines) <= MaxLines /\ store[n].no <= contents
  BY DEF TailType
<1> DEFINE new == [no |-> contents + 1, lines |-> <<>>]
<1>3. ASSUME contents < MaxContents
      PROVE  /\ contents + 1 \in Inodes /\ new \in [no : 0 .. MaxContents, lines : Seq(Kinds)]
             /\ Len(new.lines) <= MaxLines /\ new.no = contents + 1
  BY <1>1, <1>3 DEF Inodes
<1>4. /\ NoFile \in [no : 0 .. MaxContents, lines : Seq(Kinds)]
      /\ Len(NoFile.lines) <= MaxLines /\ NoFile.no = 0
  BY <1>1 DEF NoFile
<1>5. /\ Unlinked \in [Inodes -> [no : 0 .. MaxContents, lines : Seq(Kinds)]]
      /\ \A n \in Inodes : Unlinked[n] = IF n = opened THEN store[n] ELSE NoFile
  BY <1>2, <1>4 DEF Unlinked
<1>12. \A n \in Inodes : Len(store[n].lines) <= MaxLines /\ store[n].no \in 0 .. contents
  <2>1. \A n \in Inodes : store[n].no \in 0 .. MaxContents
    BY <1>2
  <2> QED
    BY <1>1, <1>2, <2>1
<1>6. ASSUME NEW n \in Inodes
      PROVE  Len(Unlinked[n].lines) <= MaxLines /\ Unlinked[n].no \in 0 .. contents
  <2>1. CASE n = opened
    BY <1>5, <1>12, <2>1
  <2>2. CASE n # opened
    <3>1. Unlinked[n] = NoFile
      BY <1>5, <2>2
    <3>2. 0 \in 0 .. contents
      BY <1>1
    <3> QED
      BY <1>4, <3>1, <3>2
  <2> QED
    BY <2>1, <2>2
<1>13. 0 .. contents \subseteq 0 .. contents + 1 /\ \A x \in 0 .. contents : x <= contents + 1 /\ x # contents + 1
  BY <1>1
<1>7. ASSUME NEW k \in Kinds, WriteLine(k) PROVE FilesMoved
  <2>1. path # 0 /\ Here = store[path] /\ Here.lines \in Seq(Kinds) /\ Len(Here.lines) < MaxLines
    BY <1>7, HereIs DEF WriteLine
  <2>2. PICK n \in Nat : n = Len(Here.lines)
    BY <2>1, LenProperties
  <2>3. Append(Here.lines, k) \in Seq(Kinds) /\ Len(Append(Here.lines, k)) = n + 1
    BY <2>1, <2>2, AppendProperties
  <2>4. Len(Append(Here.lines, k)) <= MaxLines
    BY <1>1, <2>1, <2>2, <2>3
  <2>5. store' = [store EXCEPT ![path].lines = Append(Here.lines, k)] /\ UNCHANGED <<path, contents>>
    BY <1>7, <2>1 DEF WriteLine
  <2> QED
    BY <2>1, <2>3, <2>4, <2>5, LinesAdded
<1>8. ASSUME FinishLine PROVE FilesMoved
  <2>1. path # 0 /\ Here = store[path] /\ Here.lines \in Seq(Kinds) /\ Len(Here.lines) \in 0 .. MaxLines
        /\ Here.lines # <<>>
    BY <1>8, HereIs DEF FinishLine
  <2>2. PICK n \in Nat : n = Len(Here.lines)
    BY <2>1, LenProperties
  <2>3. n # 0 /\ n <= MaxLines
    BY <1>1, <2>1, <2>2, EmptySeq
  <2>4. Front(Here.lines) \in Seq(Kinds) /\ Len(Front(Here.lines)) = n - 1
    <3>1. \A i \in 1 .. n - 1 : Here.lines[i] \in Kinds
      BY <2>1, <2>2, ElementOfSeq
    <3>2. Front(Here.lines) = SubSeq(Here.lines, 1, n - 1)
      BY <2>2 DEF Front
    <3>3. /\ SubSeq(Here.lines, 1, n - 1) \in Seq(Kinds)
          /\ Len(SubSeq(Here.lines, 1, n - 1)) = IF 1 <= n - 1 THEN n - 1 - 1 + 1 ELSE 0
      BY <2>2, <3>1, SubSeqProperties
    <3> QED
      BY <2>2, <2>3, <3>2, <3>3
  <2> DEFINE ls == Append(Front(Here.lines), "text")
  <2>5. ls \in Seq(Kinds) /\ Len(ls) = n - 1 + 1
    <3>1. "text" \in Kinds
      BY DEF Kinds
    <3> QED
      BY <2>4, <3>1, AppendProperties
  <2>6. Len(ls) <= MaxLines
    BY <1>1, <2>2, <2>3, <2>5
  <2>7. store' = [store EXCEPT ![path].lines = ls] /\ UNCHANGED <<path, contents>>
    BY <1>8, <2>1 DEF FinishLine
  <2> HIDE DEF ls
  <2> QED
    BY <2>1, <2>5, <2>6, <2>7, LinesAdded
<1>9. ASSUME Rotate PROVE FilesMoved
  <2>1. contents < MaxContents /\ contents' = contents + 1 /\ path' = contents + 1
        /\ store' = [Unlinked EXCEPT ![contents + 1] = new]
    BY <1>9 DEF Rotate
  <2>2. /\ store'[contents + 1] = new
        /\ \A n \in Inodes : n # contents + 1 => store'[n] = Unlinked[n]
        /\ store' \in [Inodes -> [no : 0 .. MaxContents, lines : Seq(Kinds)]]
    BY <1>3, <1>5, <2>1
  <2> HIDE DEF new
  <2>3. ASSUME NEW n \in Inodes
        PROVE  Len(store'[n].lines) <= MaxLines /\ store'[n].no <= contents + 1
    <3>1. CASE n = contents + 1
      BY <1>1, <1>3, <2>1, <2>2, <3>1
    <3>2. CASE n # contents + 1
      BY <1>6, <1>13, <2>2, <3>2
    <3> QED
      BY <3>1, <3>2
  <2>4. ASSUME opened # 0 PROVE store'[opened].no = store[opened].no
    <3>1. opened \in Inodes /\ opened # contents + 1
      BY <1>1, <1>13, <2>4
    <3> QED
      BY <1>5, <2>2, <3>1
  <2> QED
    BY <1>1, <1>3, <2>1, <2>2, <2>3, <2>4 DEF FilesMoved
<1>10. ASSUME Truncate PROVE FilesMoved
  <2>1. contents < MaxContents /\ contents' = contents + 1 /\ path' = path /\ path \in Inodes
        /\ store' = [store EXCEPT ![path] = new]
    BY <1>1, <1>10 DEF Truncate
  <2>2. /\ store'[path] = new
        /\ \A n \in Inodes : n # path => store'[n] = store[n]
        /\ store' \in [Inodes -> [no : 0 .. MaxContents, lines : Seq(Kinds)]]
    BY <1>2, <1>3, <2>1
  <2> HIDE DEF new
  <2>3. \A n \in Inodes : Len(store'[n].lines) <= MaxLines /\ store'[n].no <= contents + 1
    BY <1>1, <1>2, <1>3, <2>1, <2>2
  <2> QED
    BY <1>1, <1>3, <2>1, <2>2, <2>3 DEF FilesMoved
<1>11. ASSUME MoveAway PROVE FilesMoved
  <2>1. path' = 0 /\ store' = Unlinked /\ contents' = contents
    BY <1>11 DEF MoveAway
  <2> QED
    BY <1>1, <1>5, <1>6, <2>1 DEF FilesMoved
<1> QED
  BY <1>7, <1>8, <1>9, <1>10, <1>11 DEF WorldStep

\* Whoever writes the log can make no position cover a line it did not.
LEMMA WorldKeeps ==
    ASSUME TailType, TailRead, BaseInv, PathSame, WorldStep
    PROVE  TailType' /\ TailRead' /\ BaseInv'
<1>1. UNCHANGED <<tpc, read, acked, saved, last_inode, generation, opened, pos, base, misread, LinesPassed>>
  BY DEF WorldStep, looks, tailHist
<1>2. FilesMoved
  BY WorldMoves
<1>3. contents \in 1 .. MaxContents /\ MaxContents \in Nat /\ contents' \in contents .. MaxContents
      /\ opened \in 0 .. contents /\ base \in 0 .. contents + 1
  BY <1>2, HereIs DEF FilesMoved, TailType
<1>4. 0 .. contents \subseteq 0 .. contents' /\ base' \in 0 .. contents' + 1
      /\ contents' \in 1 .. MaxContents
  <2>1. PICK c \in Int : c = contents'
    BY <1>3
  <2>2. c >= contents /\ c <= MaxContents
    BY <1>3, <2>1
  <2>3. 0 .. contents \subseteq 0 .. c /\ c \in 1 .. MaxContents
    BY <1>3, <2>2
  <2>4. base \in 0 .. c + 1
    BY <1>3, <2>2
  <2> QED
    BY <1>1, <2>1, <2>3, <2>4
<1>5. TailType'
  <2>1. read \in [off : 0 .. MaxLines, of : 0 .. contents']
        /\ acked \in [off : 0 .. MaxLines, of : 0 .. contents']
        /\ (saved = NoState \/ saved \in [off : 0 .. MaxLines, of : 0 .. contents'])
    BY <1>4 DEF TailType
  <2> QED
    BY <1>1, <1>2, <1>3, <1>4, <2>1 DEF TailType, FilesMoved
<1>6. \A p : Below(p)' = Below(p)
  BY <1>1 DEF Below
<1>7. ASSUME tpc = "read", pos = 0 \/ read.of = store'[opened].no
      PROVE  Below([off |-> pos, of |-> store'[opened].no]) \subseteq Known \cup InPipe
  <2>1. CASE pos = 0
    <3>1. Below([off |-> pos, of |-> store'[opened].no]) = {}
      BY <2>1 DEF Below
    <3> QED
      BY <3>1
  <2>2. CASE pos # 0
    <3>1. read.of = store'[opened].no /\ read.of \in 0 .. contents /\ opened # 0
      BY <1>7, <2>2 DEF TailType
    <3>2. store'[opened].no = store[opened].no
      BY <1>2, <1>3, <3>1 DEF FilesMoved
    <3> QED
      BY <1>7, <3>1, <3>2 DEF TailRead
  <2> QED
    BY <2>1, <2>2
<1>8. TailRead'
  BY <1>1, <1>6, <1>7 DEF TailRead, PathSame
<1>9. BaseInv'
  <2>1. opened # 0 => store'[opened].no >= base
    BY <1>2, <1>3 DEF FilesMoved, BaseInv
  <2>2. path' # 0 => store'[path'].no >= base
    BY <1>2, <1>3 DEF FilesMoved, BaseInv
  <2> QED
    BY <1>1, <1>4, <2>1, <2>2 DEF BaseInv, PathSame
<1> QED
  BY <1>5, <1>8, <1>9

\* A position below which everything is known stays one while misread grows.
LEMMA BelowShrinks ==
    ASSUME NEW p, misread \subseteq misread' \/ (p.off > 0 /\ misread' = StillMisread(p))
    PROVE  Below(p)' \subseteq Below(p)
<1>1. p.of \in misread => p.of \in misread'
  BY DEF StillMisread
<1> QED
  BY <1>1 DEF Below

\* Nothing lies below offset zero.
LEMMA BelowZero ==
    ASSUME NEW p, p.off \in Int, ~(p.off > 0)
    PROVE  Below(p) = {}
<1>1. 1 .. p.off = {}
  OBVIOUS
<1> QED
  BY <1>1 DEF Below

\* initial_offset: the saved offset, or the end of the file that is there.
LEMMA LoadKeeps ==
    ASSUME PathType, PathInv, TailType, TailRead, BaseInv, UNCHANGED <<kind, EntriesPassed>>, LoadPosition
    PROVE  PathType' /\ PathInv' /\ TailType' /\ TailRead' /\ BaseInv'
<1>12. PICK at : at = IF saved = NoState THEN [off |-> Len(Here.lines), of |-> Here.no] ELSE saved
  OBVIOUS
<1>1. /\ UNCHANGED <<path, store, contents, saved, last_inode, generation, opened, pos, base>>
      /\ UNCHANGED <<chan, cur, tap, shared, acks, processed>>
      /\ tpc = "down" /\ tpc' = "starting" /\ read' = at /\ acked' = at
      /\ misread' = StillMisread(saved)
      /\ LinesPassed' = IF saved = NoState THEN LinesPassed \cup PassedIn(Here) ELSE LinesPassed
  BY <1>12 DEF LoadPosition, StartAtEnd, world, looks, pathVars
<1>2. Quiet /\ Quiet' /\ InFlight = {} /\ InPipe = {} /\ generation = 0 /\ opened = 0
  BY <1>1, QuietPath DEF TailRead, Quiet, TailType
<1>3. Known \subseteq Known' /\ (saved = NoState => PassedIn(Here) \subseteq Known')
  BY <1>1 DEF Known
<1>4. acks' \in Seq(Positions) /\ ToSet(acks') \subseteq ToSet(acks)
  BY <1>1 DEF PathType
<1>5. PathType' /\ PathInv' /\ InFlight' = {} /\ InPipe' = {}
  BY <1>1, <1>2, <1>3, <1>4, AcksTaken
<1>6. at \in [off : 0 .. MaxLines, of : 0 .. contents]
  BY <1>12, HereIs DEF TailType
<1>7. at.off > 0 => Below(at)' \subseteq Known' /\ at.of >= base
  <2> SUFFICES ASSUME at.off > 0 PROVE Below(at)' \subseteq Known' /\ at.of >= base
    OBVIOUS
  <2>1. CASE saved # NoState
    <3>1. at = saved /\ saved.off > 0
      BY <1>12, <2>1
    <3>2. Below(at)' \subseteq Below(at)
      BY <1>1, <3>1, BelowShrinks
    <3> QED
      BY <1>3, <3>1, <3>2 DEF TailRead, BaseInv
  <2>2. CASE saved = NoState
    <3>1. at.off = Len(Here.lines) /\ at.of = Here.no
      BY <1>12, <2>2
    <3>2. path # 0
      <4>1. Len(<<>>) = 0
        OBVIOUS
      <4> QED
        BY <3>1, <4>1, HereIs
    <3>3. Here.no >= base
      BY <3>2, HereIs DEF BaseInv
    <3>4. DOMAIN Here.lines = 1 .. Len(Here.lines)
      BY HereIs, LenProperties
    <3>5. Below(at)' \subseteq PassedIn(Here)
      BY <3>1, <3>4 DEF Below, PassedIn
    <3> QED
      BY <1>3, <2>2, <3>1, <3>3, <3>5
  <2> QED
    BY <2>1, <2>2
<1>8. saved.off > 0 => Below(saved)' \subseteq Known'
  BY <1>1, <1>3, BelowShrinks DEF TailRead
<1>9. TailType'
  BY <1>1, <1>2, <1>6 DEF TailType
<1>10. TailRead'
  BY <1>1, <1>7, <1>8 DEF TailRead
<1>11. BaseInv'
  BY <1>1, <1>5, <1>7 DEF BaseInv
<1> QED
  BY <1>5, <1>9, <1>10, <1>11

\* The start of run() and the looks at the path move no position.
LEMMA LookKeeps ==
    ASSUME TailType, TailRead, BaseInv, PathSame, StartTail \/ Poll \/ OpenFile
    PROVE  TailType' /\ TailRead' /\ BaseInv'
<1>1. /\ UNCHANGED <<path, store, contents, read, acked, saved, base, misread, LinesPassed>>
      /\ \/ /\ tpc = "starting" /\ tpc' = "select" /\ last_inode' = path /\ generation' = 0
            /\ UNCHANGED <<opened, pos>>
         \/ /\ tpc = "select" /\ tpc' = "inode" /\ UNCHANGED <<last_inode, generation, opened, pos>>
         \/ /\ tpc = "open" /\ opened' = path /\ pos' = read.off
            /\ tpc' = (IF path = 0 THEN "drain" ELSE "read") /\ UNCHANGED <<last_inode, generation>>
  BY DEF StartTail, Poll, OpenFile, world, tailHist
<1>2. \A p : Below(p)' = Below(p)
  BY <1>1 DEF Below
<1>3. contents \in 1 .. MaxContents /\ path \in 0 .. contents /\ MaxContents \in Nat
      /\ read.off \in 0 .. MaxLines
  BY HereIs DEF TailType
<1>4. TailType'
  BY <1>1, <1>3 DEF TailType
<1>5. tpc' = "read" => opened' = path /\ pos' = read.off
  BY <1>1 DEF TailType
<1>6. ASSUME tpc' = "read", pos' = 0 \/ read.of = store[opened'].no
      PROVE  Below([off |-> pos', of |-> store[opened'].no]) \subseteq Known \cup InPipe
  <2>1. CASE pos' = 0
    <3>1. Below([off |-> pos', of |-> store[opened'].no]) = {}
      BY <2>1 DEF Below
    <3> QED
      BY <3>1
  <2>2. CASE pos' # 0
    <3>1. read.of = store[opened'].no /\ read.off > 0 /\ pos' = read.off
      BY <1>3, <1>5, <1>6, <2>2
    <3>2. Below([off |-> pos', of |-> store[opened'].no]) = Below(read)
      BY <3>1 DEF Below
    <3> QED
      BY <3>1, <3>2 DEF TailRead
  <2> QED
    BY <2>1, <2>2
<1>7. TailRead'
  <2>1. tpc' = "read" => pos' >= read'.off
    BY <1>1, <1>3, <1>5
  <2>2. tpc' # "down"
    BY <1>1
  <2> QED
    BY <1>1, <1>2, <1>6, <2>1, <2>2 DEF TailRead, PathSame
<1>8. BaseInv'
  <2>1. generation' = generation
    BY <1>1 DEF TailRead
  <2>2. opened' # 0 => store'[opened'].no >= base'
    BY <1>1 DEF BaseInv
  <2> QED
    BY <1>1, <2>1, <2>2 DEF BaseInv, PathSame
<1> QED
  BY <1>4, <1>7, <1>8

\* The file at the path was replaced: both offsets and the generation are
\* reset, and no ack on its way counts any more.
LEMMA ResetKeeps ==
    ASSUME PathType, PathInv, TailType, TailRead, BaseInv, kind = "tail", UNCHANGED kind,
           UNCHANGED <<chan, cur, tap, shared, processed, EntriesPassed, LinesPassed>>, tpc = "inode",
           tpc' \in {"select", "open"}, UNCHANGED <<path, store, contents, opened, pos>>, Reset
    PROVE  PathType' /\ PathInv' /\ TailType' /\ TailRead' /\ BaseInv'
<1>1. /\ read' = NoPos /\ acked' = NoPos /\ generation' = generation + 1 /\ acks' = <<>>
      /\ last_inode' = path /\ saved' \in {NoPos, saved} /\ misread' = StillMisread(saved')
      /\ base' = IF saved' # NoPos THEN base ELSE IF path = 0 THEN contents + 1 ELSE Here.no
  BY DEF Reset, SavePosition
<1>2. NoPos = [off |-> 0, of |-> 0] /\ NoPos.off = 0 /\ NoPos.of = 0
  BY DEF NoPos
<1>3. opened = 0 /\ generation \in Nat /\ contents \in 1 .. MaxContents /\ path \in 0 .. contents
      /\ MaxContents \in Nat /\ MaxLines \in Nat
  BY HereIs DEF TailType
<1>4. Known' = Known
  BY DEF Known
<1>5. \A a \in InFlight : a.generation # generation' /\ a.generation \in 0 .. generation'
  BY <1>1, <1>3 DEF BaseInv
<1>6. \A a \in InFlight : Vouched(a)' \subseteq Vouched(a)
  <2>1. \A a \in InFlight : Vouched(a)' = {}
    BY <1>5 DEF Vouched
  <2> QED
    BY <2>1
<1>7. acks' \in Seq(Positions) /\ ToSet(acks') = {}
  BY <1>1 DEF ToSet
<1>8. PathType' /\ PathInv' /\ InFlight' \subseteq InFlight /\ InPipe' = InPipe
  BY <1>4, <1>6, <1>7, AcksTaken
<1>9. TailType'
  <2>1. NoPos \in [off : 0 .. MaxLines, of : 0 .. contents]
    BY <1>2, <1>3
  <2>2. base' \in 0 .. contents + 1 /\ last_inode' \in 0 .. MaxContents
    <3>1. base \in 0 .. contents + 1
      BY DEF TailType
    <3>2. Here.no \in 0 .. contents
      BY HereIs
    <3>3. base' \in {base, contents + 1, Here.no}
      BY <1>1
    <3>4. base' \in 0 .. contents + 1
      BY <1>3, <3>1, <3>2, <3>3
    <3>5. last_inode' \in 0 .. MaxContents
      BY <1>1, <1>3
    <3> QED
      BY <3>4, <3>5
  <2>3. saved' = NoState \/ saved' \in [off : 0 .. MaxLines, of : 0 .. contents]
    BY <1>1, <2>1 DEF TailType
  <2> QED
    BY <1>1, <1>3, <2>1, <2>2, <2>3 DEF TailType
<1>10. saved'.off > 0 => saved' = saved /\ base' = base
  BY <1>1, <1>2
<1>11. TailRead'
  <2>1. saved'.off > 0 => Below(saved)' \subseteq Known'
    <3> SUFFICES ASSUME saved'.off > 0 PROVE Below(saved)' \subseteq Known'
      OBVIOUS
    <3>1. saved' = saved /\ saved.off > 0 /\ misread' = StillMisread(saved)
      BY <1>1, <1>10
    <3>2. Below(saved)' \subseteq Below(saved)
      BY <3>1, BelowShrinks
    <3> QED
      BY <1>4, <3>1, <3>2 DEF TailRead
  <2> QED
    BY <1>1, <1>2, <2>1 DEF TailRead
<1>12. BaseInv'
  <2>1. path' # 0 => store'[path'].no >= base'
    <3> SUFFICES ASSUME path # 0 PROVE store[path].no >= base'
      OBVIOUS
    <3>1. Here = store[path] /\ Here.no \in Int
      BY HereIs
    <3> QED
      BY <1>1, <3>1 DEF BaseInv
  <2>2. saved'.off > 0 => saved'.of >= base'
    BY <1>10 DEF BaseInv
  <2>3. \A a \in InFlight' : a.generation \in 0 .. generation' /\ a.of \in 0 .. contents'
                             /\ a.generation # generation'
    BY <1>5, <1>8 DEF BaseInv
  <2> QED
    BY <1>1, <1>2, <1>3, <2>1, <2>2, <2>3 DEF BaseInv
<1> QED
  BY <1>8, <1>9, <1>11, <1>12

\* check for rotation and truncation.
LEMMA CheckKeeps ==
    ASSUME PathType, PathInv, TailType, TailRead, BaseInv, kind = "tail",
           UNCHANGED <<kind, EntriesPassed>>, CheckFile
    PROVE  PathType' /\ PathInv' /\ TailType' /\ TailRead' /\ BaseInv'
<1>1. /\ tpc = "inode" /\ tpc' \in {"select", "open"}
      /\ UNCHANGED <<path, store, contents, opened, pos, LinesPassed, chan, cur, tap, shared, processed>>
  BY DEF CheckFile, world
<1>2. CASE Replaced
  <2>1. Reset
    BY <1>2 DEF CheckFile
  <2> QED
    BY <1>1, <2>1, ResetKeeps
<1>3. CASE ~Replaced
  <2>1. UNCHANGED <<read, acked, generation, acks, last_inode, saved, base, misread>>
    BY <1>3 DEF CheckFile
  <2>2. Known' = Known /\ Quiet' = Quiet /\ InFlight' = InFlight /\ \A a : Vouched(a)' = Vouched(a)
    BY <1>1, <2>1 DEF Known, Quiet, InFlight, Vouched, Below
  <2>3. PathType' /\ PathInv' /\ InPipe' = InPipe
    <3>1. acks' \in Seq(Positions) /\ ToSet(acks') \subseteq ToSet(acks)
      BY <2>1 DEF PathType
    <3> QED
      BY <1>1, <2>2, <3>1, AcksTaken
  <2>4. \A p : Below(p)' = Below(p)
    BY <2>1 DEF Below
  <2>5. TailType' /\ BaseInv'
    BY <1>1, <2>1, <2>2 DEF TailType, BaseInv
  <2>6. TailRead'
    BY <1>1, <2>1, <2>2, <2>3, <2>4 DEF TailRead
  <2> QED
    BY <2>3, <2>5, <2>6
<1> QED
  BY <1>2, <1>3

\* The watermark moves only to a position of this generation whose lines are
\* done with.
LEMMA AdvanceKeeps ==
    ASSUME PathType, PathInv, TailType, TailRead, BaseInv, kind = "tail", Advance
    PROVE  /\ acked' \in [off : 0 .. MaxLines, of : 0 .. contents]
           /\ acked'.off > 0 => Below(acked') \subseteq Known /\ acked'.of >= base
<1>1. CASE UNCHANGED acked
  BY <1>1 DEF TailType, TailRead, BaseInv
<1>2. ASSUME NEW a \in Highest, acked' = [off |-> a.off, of |-> a.of]
      PROVE  /\ acked' \in [off : 0 .. MaxLines, of : 0 .. contents]
             /\ Below(acked') \subseteq Known /\ acked'.of >= base
  <2>1. a \in Counted
    BY DEF Highest
  <2>2. PICK j \in DOMAIN acks : a = acks[j] /\ Counts(acks[j])
    BY <2>1 DEF Counted
  <2>3. a.generation = generation /\ a \in ToSet(acks) /\ a \in Positions
    BY <2>2, Places DEF Counts, PathType
  <2>4. a \in InFlight /\ Vouched(a) \subseteq Known
    BY <2>3 DEF InFlight, PathInv
  <2>5. a.of \in 0 .. contents /\ a.of >= base /\ a.off \in 1 .. MaxLines /\ MaxLines \in Nat
    BY <2>3, <2>4, HereIs DEF BaseInv, Positions
  <2>6. Below(acked') = Vouched(a)
    BY <1>2, <2>3 DEF Below, Vouched
  <2> QED
    BY <1>2, <2>4, <2>5, <2>6
<1> QED
  BY <1>1, <1>2 DEF Advance

\* The acks that have come are taken, and the watermark or nothing is saved.
LEMMA AcksKeep ==
    ASSUME PathType, PathInv, TailType, TailRead, BaseInv, kind = "tail",
           UNCHANGED <<kind, EntriesPassed>>, TailStop \/ TailAck \/ Drain
    PROVE  PathType' /\ PathInv' /\ TailType' /\ TailRead' /\ BaseInv'
<1>1. /\ UNCHANGED <<path, store, contents, read, last_inode, generation, opened, pos>>
      /\ UNCHANGED <<base, misread, LinesPassed, chan, cur, tap, shared, processed>>
      /\ tpc \in {"select", "drain"} /\ tpc' \in {"select", "stopped"}
      /\ acks' = <<>> \/ (acks # <<>> /\ acks' = Tail(acks))
      /\ Advance \/ UNCHANGED acked
      /\ saved' \in {saved, acked'}
  BY DEF TailStop, TailAck, Drain, DrainAcks, SavePosition, world, looks, tailHist
<1>2. /\ acked' \in [off : 0 .. MaxLines, of : 0 .. contents]
      /\ acked'.off > 0 => Below(acked') \subseteq Known /\ acked'.of >= base
  <2>1. CASE Advance
    BY <2>1, AdvanceKeeps
  <2>2. CASE UNCHANGED acked
    BY <2>2 DEF TailType, TailRead, BaseInv
  <2> QED
    BY <1>1, <2>1, <2>2
<1>3. Known' = Known /\ (\A p : Below(p)' = Below(p)) /\ \A a : Vouched(a)' = Vouched(a)
  BY <1>1 DEF Known, Vouched, Below
<1>4. acks' \in Seq(Positions) /\ ToSet(acks') \subseteq ToSet(acks)
  <2>1. CASE acks' = <<>>
    BY <2>1 DEF ToSet
  <2>2. CASE acks # <<>> /\ acks' = Tail(acks)
    BY <2>2, FirstAndRest DEF PathType
  <2> QED
    BY <1>1, <2>1, <2>2
<1>5. PathType' /\ PathInv' /\ InFlight' \subseteq InFlight /\ InPipe' = InPipe
  BY <1>1, <1>3, <1>4, AcksTaken
<1>6. /\ saved' = NoState \/ saved' \in [off : 0 .. MaxLines, of : 0 .. contents]
      /\ saved'.off > 0 => Below(saved') \subseteq Known /\ saved'.of >= base
  BY <1>1, <1>2 DEF TailType, TailRead, BaseInv
<1>7. TailType'
  BY <1>1, <1>2, <1>6 DEF TailType
<1>8. TailRead'
  <2>1. saved'.off > 0 => Below(saved)' \subseteq Known'
    BY <1>3, <1>6
  <2>2. acked'.off > 0 => Below(acked)' \subseteq Known'
    BY <1>2, <1>3
  <2> QED
    BY <1>1, <1>3, <1>5, <2>1, <2>2 DEF TailRead
<1>9. BaseInv'
  BY <1>1, <1>2, <1>5, <1>6 DEF BaseInv
<1> QED
  BY <1>5, <1>7, <1>8, <1>9

\* The process goes: the state file is what is left.
LEMMA TailGoneKeeps ==
    ASSUME TailType, TailRead, BaseInv, UNCHANGED <<kind, EntriesPassed>>, TailGone
    PROVE  PathType' /\ PathInv' /\ TailType' /\ TailRead' /\ BaseInv'
<1>1. /\ UNCHANGED <<path, store, contents, saved, base, misread, LinesPassed, processed>>
      /\ tpc' = "down" /\ read' = NoPos /\ acked' = NoPos /\ last_inode' = 0
      /\ generation' = 0 /\ opened' = 0 /\ pos' = 0 /\ Quiet' /\ shared' = FALSE
  BY DEF TailGone, PathReset, Quiet, world, tailHist
<1>2. PathType' /\ PathInv' /\ InFlight' = {}
  <2>1. (Quiet => /\ InFlight = {} /\ InPipe = {}
                  /\ shared = FALSE => PathType /\ PathInv)'
    BY QuietPath, PTL
  <2> QED
    BY <1>1, <2>1
<1>3. Known' = Known /\ \A p : Below(p)' = Below(p)
  BY <1>1 DEF Known, Below
<1>4. NoPos \in [off : 0 .. MaxLines, of : 0 .. contents] /\ NoPos.off = 0
      /\ 0 \in 0 .. contents /\ 0 \in 0 .. MaxContents /\ 0 \in 0 .. MaxLines
  BY HereIs DEF NoPos
<1>5. TailType'
  BY <1>1, <1>4 DEF TailType
<1>6. TailRead'
  BY <1>1, <1>3, <1>4 DEF TailRead
<1>7. BaseInv'
  BY <1>1, <1>2, <1>4 DEF BaseInv
<1> QED
  BY <1>2, <1>5, <1>6, <1>7

\* One turn of read_new_lines ends: the offset is what was read, or was kept.
LEMMA ReadEnds ==
    ASSUME PathType, PathInv, TailType, TailRead, BaseInv, kind = "tail", UNCHANGED <<kind, EntriesPassed>>,
           UNCHANGED <<path, store, contents, acked, saved, last_inode, generation, base, LinesPassed>>,
           UNCHANGED <<chan, cur, tap, shared, acks, processed>>, tpc = "read",
           ReadingAt(pos, store[opened].no), Close,
           read' \in {read, [off |-> pos, of |-> store[opened].no]}
    PROVE  PathType' /\ PathInv' /\ TailType' /\ TailRead' /\ BaseInv'
<1>1. tpc' = "drain" /\ opened' = 0 /\ pos' = 0 /\ misread \subseteq misread'
      /\ (pos > 0 /\ read.of # store[opened].no => store[opened].no \in misread')
  BY DEF Close, ReadingAt
<1>2. opened \in Inodes /\ pos \in 0 .. MaxLines /\ store[opened].no \in 0 .. contents
      /\ MaxLines \in Nat /\ contents \in 1 .. MaxContents /\ MaxContents \in Nat
  <2>1. opened \in Inodes /\ contents \in 1 .. MaxContents /\ MaxContents \in Nat /\ MaxLines \in Nat
    BY HereIs DEF TailType
  <2>2. store[opened].no \in 0 .. MaxContents /\ store[opened].no <= contents
    BY <2>1 DEF TailType
  <2> QED
    BY <2>1, <2>2 DEF TailType
<1>3. Known' = Known /\ (\A p : Below(p)' \subseteq Below(p)) /\ \A a : Vouched(a)' \subseteq Vouched(a)
  <2>1. \A p : Below(p)' \subseteq Below(p)
    BY <1>1 DEF Below
  <2> QED
    BY <2>1 DEF Known, Vouched
<1>4. acks' \in Seq(Positions) /\ ToSet(acks') \subseteq ToSet(acks)
  BY DEF PathType
<1>5. PathType' /\ PathInv' /\ InFlight' \subseteq InFlight /\ InPipe' = InPipe
  BY <1>3, <1>4, AcksTaken
<1>6. TailType'
  BY <1>1, <1>2 DEF TailType
<1>7. read'.off > 0 => Below(read)' \subseteq Known \cup InPipe
  <2>1. CASE read' = read
    BY <1>3, <2>1 DEF TailRead
  <2>2. CASE read' = [off |-> pos, of |-> store[opened].no]
    <3>1. CASE store[opened].no \in misread'
      <4>1. Below(read)' = {}
        BY <2>2, <3>1 DEF Below
      <4> QED
        BY <4>1
    <3>2. CASE store[opened].no \notin misread'
      <4>1. pos = 0 \/ read.of = store[opened].no
        BY <1>1, <1>2, <3>2
      <4>2. Below([off |-> pos, of |-> store[opened].no]) \subseteq Known \cup InPipe
        BY <4>1 DEF TailRead
      <4>3. Below(read)' \subseteq Below([off |-> pos, of |-> store[opened].no])
        BY <1>1, <2>2 DEF Below
      <4> QED
        BY <4>2, <4>3
    <3> QED
      BY <3>1, <3>2
  <2> QED
    BY <2>1, <2>2
<1>8. TailRead'
  <2>1. saved.off > 0 => Below(saved)' \subseteq Known
    BY <1>3 DEF TailRead
  <2>2. acked.off > 0 => Below(acked)' \subseteq Known
    BY <1>3 DEF TailRead
  <2> QED
    BY <1>1, <1>3, <1>5, <1>7, <2>1, <2>2 DEF TailRead
<1>9. BaseInv'
  BY <1>1, <1>5 DEF BaseInv
<1> QED
  BY <1>5, <1>6, <1>8, <1>9

\* A line is read: it goes into the pipe or is passed over.
LEMMA ReadGoesOn ==
    ASSUME PathType, PathInv, TailType, TailRead, BaseInv, kind = "tail", UNCHANGED <<kind, EntriesPassed>>,
           UNCHANGED <<path, store, contents, tpc, opened, acked, saved, last_inode, generation, base>>,
           UNCHANGED <<cur, tap, shared, acks, processed>>, tpc = "read", ~AtEnd,
           ReadingAt(pos, store[opened].no), pos' = pos + 1,
           read' = [read EXCEPT !.of = store[opened].no],
           \/ chan' = chan /\ LinesPassed' = LinesPassed \cup {EventAt(pos + 1).line}
           \/ LinesPassed' = LinesPassed /\ Send(EventAt(pos + 1))
    PROVE  PathType' /\ PathInv' /\ TailType' /\ TailRead' /\ BaseInv'
<1>1. misread \subseteq misread'
      /\ (pos > 0 /\ read.of # store[opened].no => store[opened].no \in misread')
  BY DEF ReadingAt
<1>2. PICK c \in 0 .. contents : c = store[opened].no
  <2>1. opened \in Inodes /\ contents \in 1 .. MaxContents
    BY HereIs DEF TailType
  <2>2. store[opened].no \in 0 .. MaxContents /\ store[opened].no <= contents
    BY <2>1 DEF TailType
  <2> QED
    BY <2>1, <2>2
<1>3. PICK i \in 1 .. MaxLines : i = pos + 1
  <2>1. opened \in Inodes /\ pos \in 0 .. MaxLines /\ MaxLines \in Nat
    BY HereIs DEF TailType
  <2>2. Len(store[opened].lines) <= MaxLines /\ Len(store[opened].lines) \in Nat
    BY <2>1, LenProperties DEF TailType
  <2>3. pos < Len(store[opened].lines)
    BY DEF AtEnd
  <2> QED
    BY <2>1, <2>2, <2>3
<1>4. /\ read \in [off : 0 .. MaxLines, of : 0 .. contents] /\ pos \in 0 .. MaxLines
      /\ generation \in Nat /\ contents \in 1 .. MaxContents /\ MaxLines \in Nat
      /\ MaxContents \in Nat /\ pos >= read.off /\ c >= base /\ opened # 0
  BY <1>2, HereIs DEF TailType, TailRead, BaseInv
<1>5. read' = [off |-> read.off, of |-> c]
  BY <1>2, <1>4
<1> DEFINE q == [generation |-> generation, off |-> i, of |-> c]
           e == [line |-> <<c, i>>, ack |-> <<q>>]
           before == Known \cup InPipe
           here == IF c \in misread' THEN {} ELSE {<<c, j>> : j \in 1 .. pos}
           upto == IF c \in misread' THEN {} ELSE {<<c, j>> : j \in 1 .. i}
<1>6. EventAt(pos + 1) = e
  BY <1>2, <1>3 DEF EventAt
<1>7. e \in EventsOf /\ e.line = <<c, i>> /\ ToSet(e.ack) = {q}
  <2>1. q \in Positions
    BY <1>2, <1>3, <1>4 DEF Positions
  <2>2. <<q>> \in Seq(Positions) /\ Len(<<q>>) = 1 /\ <<q>>[1] = q
    BY <2>1
  <2>3. ToSet(<<q>>) = {q}
    BY <2>2, ShortSets
  <2>4. <<c, i>> \in Lines
    BY <1>2, <1>3, <1>4 DEF Lines
  <2> QED
    BY <2>2, <2>3, <2>4 DEF EventsOf
<1>8. (\A p : Below(p)' \subseteq Below(p)) /\ \A a : Vouched(a)' \subseteq Vouched(a)
  <2>1. \A p : Below(p)' \subseteq Below(p)
    BY <1>1 DEF Below
  <2> QED
    BY <2>1 DEF Vouched
<1>9. here \subseteq before
  <2>1. CASE c \in misread'
    BY <2>1
  <2>2. CASE c \notin misread'
    <3>1. pos = 0 \/ read.of = store[opened].no
      BY <1>1, <1>2, <1>4, <2>2
    <3>2. Below([off |-> pos, of |-> store[opened].no]) \subseteq Known \cup InPipe
      BY <3>1 DEF TailRead
    <3>3. c \notin misread
      BY <1>1, <2>2
    <3>4. Below([off |-> pos, of |-> store[opened].no]) = {<<c, j>> : j \in 1 .. pos}
      BY <1>2, <3>3 DEF Below
    <3> QED
      BY <2>2, <3>2, <3>4
  <2> QED
    BY <2>1, <2>2
<1>10. upto \subseteq before \cup {<<c, i>>}
  <2>1. \A j \in 1 .. i : j \in 1 .. pos \/ j = i
    BY <1>3, <1>4
  <2> QED
    BY <1>9, <2>1
<1>11. /\ PathType' /\ PathInv' /\ Known \subseteq Known'
       /\ before \cup {<<c, i>>} \subseteq Known' \cup InPipe'
       /\ \A a \in InFlight' : a \in InFlight \/ a = q
  <2>1. CASE chan' = chan /\ LinesPassed' = LinesPassed \cup {e.line}
    <3>1. Known' = Known \cup {<<c, i>>}
      BY <1>7, <2>1 DEF Known
    <3>2. acks' \in Seq(Positions) /\ ToSet(acks') \subseteq ToSet(acks)
      BY DEF PathType
    <3>3. PathType' /\ PathInv' /\ InFlight' \subseteq InFlight /\ InPipe' = InPipe
      BY <1>8, <2>1, <3>1, <3>2, AcksTaken
    <3> QED
      BY <3>1, <3>3
  <2>2. CASE LinesPassed' = LinesPassed /\ Send(e)
    <3>1. Known' = Known
      BY <2>2 DEF Known
    <3>2. Vouched(q)' = upto
      <4>1. Below(q)' = upto
        BY DEF Below
      <4> QED
        BY <4>1 DEF Vouched
    <3> HIDE DEF e
    <3>3. /\ PathType' /\ PathInv' /\ InFlight' \subseteq InFlight \cup ToSet(e.ack)
          /\ InPipe' = InPipe \cup {e.line}
      BY <1>7, <1>8, <1>10, <2>2, <3>1, <3>2, EventSent
    <3> QED
      BY <1>7, <3>1, <3>3
  <2> QED
    BY <1>6, <2>1, <2>2
<1> HIDE DEF before, here, upto, q, e
<1>12. TailType'
  <2>1. read' \in [off : 0 .. MaxLines, of : 0 .. contents]
    BY <1>4, <1>5
  <2>2. pos' \in 0 .. MaxLines
    BY <1>3, <1>4
  <2>3. (opened' # 0) <=> (tpc' = "read")
    BY <1>4
  <2> QED
    BY <2>1, <2>2, <2>3 DEF TailType
<1>13. TailRead'
  <2>1. saved.off > 0 => Below(saved)' \subseteq Known'
    BY <1>8, <1>11 DEF TailRead
  <2>2. acked.off > 0 => Below(acked)' \subseteq Known'
    BY <1>8, <1>11 DEF TailRead
  <2>3. Below([off |-> pos, of |-> store[opened].no])' = upto
    BY <1>2, <1>3 DEF Below, upto
  <2>4. upto \subseteq Known' \cup InPipe'
    BY <1>10, <1>11
  <2>5. Below(read)' \subseteq upto
    <3>1. \A j \in 1 .. read.off : j \in 1 .. i
      BY <1>3, <1>4
    <3> QED
      BY <1>5, <3>1 DEF Below, upto
  <2>6. pos' >= read'.off
    BY <1>4, <1>5
  <2>7. (tpc' = "read") /\ ~(tpc' = "down") /\ tpc' \notin {"down", "starting"}
    OBVIOUS
  <2> QED
    BY <2>1, <2>2, <2>3, <2>4, <2>5, <2>6, <2>7 DEF TailRead
<1>14. BaseInv'
  <2>1. q.generation \in 0 .. generation /\ q.of \in 0 .. contents /\ q.of >= base
    BY <1>2, <1>4 DEF q
  <2> QED
    BY <1>11, <2>1 DEF BaseInv
<1> QED
  BY <1>11, <1>12, <1>13, <1>14

\* read_new_lines.
LEMMA ReadLineKeeps ==
    ASSUME PathType, PathInv, TailType, TailRead, BaseInv, kind = "tail",
           UNCHANGED <<kind, EntriesPassed>>, ReadLine
    PROVE  PathType' /\ PathInv' /\ TailType' /\ TailRead' /\ BaseInv'
<1>1. /\ tpc = "read" /\ ReadingAt(pos, store[opened].no)
      /\ UNCHANGED <<path, store, contents, acked, saved, last_inode, generation, base>>
      /\ UNCHANGED <<cur, tap, shared, processed>>
  BY DEF ReadLine, world
<1>2. CASE /\ Close /\ read' \in {read, [off |-> pos, of |-> store[opened].no]}
           /\ UNCHANGED <<chan, LinesPassed, acks>>
  BY <1>1, <1>2, ReadEnds
<1>3. CASE /\ ~AtEnd /\ pos' = pos + 1 /\ read' = [read EXCEPT !.of = store[opened].no]
           /\ UNCHANGED <<tpc, opened, acks>>
           /\ \/ chan' = chan /\ LinesPassed' = LinesPassed \cup {EventAt(pos + 1).line}
              \/ LinesPassed' = LinesPassed /\ Send(EventAt(pos + 1))
  BY <1>1, <1>3, ReadGoesOn
<1> QED
  BY <1>2, <1>3 DEF ReadLine, Return, Disarm

\* Every step of the tail input keeps the invariant.
LEMMA TailKeeps ==
    ASSUME PathType, PathInv, TailInv, kind = "tail", UNCHANGED kind, UNCHANGED cursorVars,
           TailStep \/ WorldStep \/ TailExit \/ TailCrash
    PROVE  PathType' /\ PathInv' /\ TailInv'
<1>1. TailType /\ TailRead /\ BaseInv /\ UNCHANGED EntriesPassed
  BY DEF TailInv, cursorVars
<1> SUFFICES PathType' /\ PathInv' /\ TailType' /\ TailRead' /\ BaseInv'
  BY DEF TailInv
<1>2. CASE WorldStep \/ Poll \/ OpenFile \/ StartTail
  <2>1. UNCHANGED <<misread, LinesPassed>> /\ UNCHANGED pathVars
        /\ (generation' = generation \/ (tpc = "starting" /\ generation' = 0))
    BY <1>2 DEF WorldStep, Poll, OpenFile, StartTail, looks, tailHist
  <2>2. generation' = generation
    BY <1>1, <2>1 DEF TailRead
  <2>3. PathType' /\ PathInv' /\ PathSame
    BY <1>1, <2>1, <2>2, OffThePath
  <2> QED
    BY <1>1, <1>2, <2>3, WorldKeeps, LookKeeps
<1>3. CASE LoadPosition
  BY <1>1, <1>3, LoadKeeps
<1>4. CASE TailStop \/ TailAck \/ Drain
  BY <1>1, <1>4, AcksKeep
<1>5. CASE CheckFile
  BY <1>1, <1>5, CheckKeeps
<1>6. CASE ReadLine
  BY <1>1, <1>6, ReadLineKeeps
<1>7. CASE TailExit \/ TailCrash
  BY <1>1, <1>7, TailGoneKeeps DEF TailExit, TailCrash
<1> QED
  BY <1>2, <1>3, <1>4, <1>5, <1>6, <1>7 DEF TailStep

-----------------------------------------------------------------------------
(* The listeners keep no position. *)

\* The input that is not configured keeps its state.
LEMMA OthersIdle ==
    /\ CursorInv /\ kind \notin CursorKinds /\ UNCHANGED kind /\ UNCHANGED cursorVars
         => CursorInv'
    /\ TailInv /\ kind # "tail" /\ UNCHANGED kind /\ UNCHANGED tailVars => TailInv'
<1>1. ASSUME CursorInv, kind \notin CursorKinds, UNCHANGED kind, UNCHANGED cursorVars
      PROVE  CursorInv'
  <2>1. UNCHANGED <<log, jlen, oldest, rpc, rpos, rhand, stop, entries,
                    entries_open, apc, ahand, cursor, EntriesPassed>>
    BY <1>1 DEF cursorVars
  <2>2. CursorType' /\ CursorIdle'
    BY <1>1, <2>1 DEF CursorInv, CursorType, CursorIdle
  <2> QED
    BY <1>1, <2>2 DEF CursorInv
<1>2. ASSUME TailInv, kind # "tail", UNCHANGED kind, UNCHANGED tailVars
      PROVE  TailInv'
  <2>1. UNCHANGED <<path, store, contents, tpc, read, acked, saved, last_inode,
                    generation, opened, pos, base, misread, LinesPassed>>
    BY <1>2 DEF tailVars
  <2>2. TailType' /\ TailIdle'
    BY <1>2, <2>1 DEF TailInv, TailType, TailIdle
  <2> QED
    BY <1>2, <2>2 DEF TailInv
<1> QED
  BY <1>1, <1>2

\* What a listener sends vouches for nothing.
LEMMA ListenerPath ==
    ASSUME PathType, PathInv, kind \in ListenerKinds, UNCHANGED kind,
           UNCHANGED tailVars, UNCHANGED cursorVars, ListenerStep \/ PeerStep
    PROVE  PathType' /\ PathInv'
<1>1. UNCHANGED <<generation, misread, LinesPassed, EntriesPassed>>
  BY DEF tailVars, cursorVars
<1>2. \/ UNCHANGED pathVars
      \/ Send(Datum) /\ UNCHANGED <<shutdown, chan_open, cur, tap, shared, acks, processed>>
  <2>1. CASE Receive \/ StopListening
    BY <2>1 DEF Receive, StopListening
  <2>2. CASE SendDatagram
    BY <2>2 DEF SendDatagram, pathVars
  <2>3. ASSUME NEW d \in Conns, Accept(d) \/ Hello(d) \/ Hangup(d) \/ ReadFrame(d) \/ AbortLands(d)
        PROVE  UNCHANGED pathVars
    BY <2>3 DEF Accept, Hello, Hangup, ReadFrame, AbortLands
  <2>4. ASSUME NEW d \in Conns, Forward(d)
        PROVE  \/ UNCHANGED pathVars
               \/ Send(Datum) /\ UNCHANGED <<shutdown, chan_open, cur, tap, shared, acks, processed>>
    BY <2>4 DEF Forward, pathVars
  <2> QED
    BY <2>1, <2>2, <2>3, <2>4 DEF ListenerStep, PeerStep
<1>3. CASE UNCHANGED pathVars
  BY <1>1, <1>3, OffThePath
<1>4. CASE Send(Datum) /\ UNCHANGED <<shutdown, chan_open, cur, tap, shared, acks, processed>>
  <2>1. Datum \in EventsOf
    <3>1. kind # "tail"
      BY DEF ListenerKinds
    <3>2. <<>> \in Seq(Positions) /\ 0 \in Lines
      BY <3>1 DEF Lines
    <3> QED
      BY <3>2 DEF Datum, EventsOf
  <2>2. ToSet(Datum.ack) = {}
    BY DEF Datum, ToSet
  <2>3. Known' = Known /\ \A a : Vouched(a)' = Vouched(a)
    BY <1>1, <1>4 DEF Known, Vouched, Below
  <2> QED
    BY <1>4, <2>1, <2>2, <2>3, EventSent
<1> QED
  BY <1>2, <1>3, <1>4

-----------------------------------------------------------------------------
(* The theorems. *)

\* Nothing was read when the process starts for the first time.
LEMMA ResumeStarts ==
    ASSUME Init
    PROVE  IInv
<1>1. kind \in InputKinds /\ Quiet /\ shared = FALSE
  BY DEF Init, PathInit, Quiet
<1>2. PathType /\ PathInv /\ InFlight = {} /\ InPipe = {}
  BY <1>1, QuietPath
<1>3. CursorInv
  <2>1. /\ log \in CursorKinds /\ jlen = 1 /\ oldest = 1 /\ rpc = "done" /\ rpos = 0 /\ rhand = 0
        /\ entries = <<>> /\ entries_open = TRUE /\ apc = "down" /\ ahand = 0
        /\ cursor = 0 /\ EntriesPassed = {} /\ LinesPassed = {}
    BY DEF Init, CursorInit, TailInit, CursorKinds
  <2>2. entries \in Seq(Nat) /\ Len(entries) = 0 /\ EntryCapacity \in Nat
    BY <2>1, InputsAssumption
  <2>3. CursorType /\ CursorIdle
    BY <2>1, <2>2 DEF CursorType, CursorIdle
  <2>4. FeedInv
    BY <1>1, <1>2, <2>1, <2>2 DEF FeedInv, Feeding
  <2> QED
    BY <2>1, <2>3, <2>4 DEF CursorInv
<1>4. TailInv
  <2>1. /\ path = 1 /\ contents = 1 /\ tpc = "down" /\ read = NoPos /\ acked = NoPos
        /\ saved = NoState /\ last_inode = 0 /\ generation = 0 /\ opened = 0 /\ pos = 0
        /\ base = 0 /\ LinesPassed = {}
        /\ store = [n \in Inodes |->
                      IF n = 1 THEN [no |-> 1, lines |-> <<"text">>] ELSE NoFile]
    BY DEF Init, TailInit
  <2>2. MaxLines \in Nat \ {0} /\ MaxContents \in Nat \ {0}
    BY InputsAssumption
  <2>3. /\ store \in [Inodes -> [no : 0 .. MaxContents, lines : Seq(Kinds)]]
        /\ \A n \in Inodes : Len(store[n].lines) <= MaxLines /\ store[n].no <= contents
    <3>1. <<"text">> \in Seq(Kinds) /\ Len(<<"text">>) = 1
      BY DEF Kinds
    <3>2. <<>> \in Seq(Kinds) /\ Len(<<>>) = 0
      OBVIOUS
    <3> QED
      BY <2>1, <2>2, <3>1, <3>2 DEF NoFile
  <2>4. TailType
    BY <2>1, <2>2, <2>3 DEF TailType, NoPos
  <2>5. TailIdle
    BY <2>1 DEF TailIdle
  <2>6. TailRead
    BY <1>1, <2>1 DEF TailRead, NoPos, NoState
  <2>7. BaseInv
    <3>1. store[1].no = 1
      BY <2>1, <2>2 DEF Inodes
    <3> QED
      BY <1>2, <2>1, <3>1 DEF BaseInv, NoPos, NoState
  <2> QED
    BY <2>4, <2>5, <2>6, <2>7 DEF TailInv
<1> QED
  BY <1>1, <1>2, <1>3, <1>4 DEF IInv

\* Every step keeps the inductive invariant.
LEMMA ResumeKeeps ==
    ASSUME IInv, [Next]_vars
    PROVE  IInv'
<1>1. kind \in InputKinds /\ PathType /\ PathInv /\ CursorInv /\ TailInv /\ UNCHANGED kind
  BY DEF IInv, Next, vars
<1> SUFFICES PathType' /\ PathInv' /\ CursorInv' /\ TailInv'
  BY <1>1 DEF IInv
<1>2. CASE /\ kind = "tail" /\ (TailStep \/ WorldStep \/ TailExit \/ TailCrash)
           /\ UNCHANGED <<cursorVars, listenerVars>>
  <2>1. UNCHANGED cursorVars /\ kind \notin CursorKinds
    BY <1>2 DEF CursorKinds
  <2> QED
    BY <1>1, <1>2, <2>1, TailKeeps, OthersIdle
<1>3. CASE /\ kind \in CursorKinds /\ (CursorStep \/ LogStep \/ CursorExit \/ CursorCrash)
           /\ UNCHANGED <<tailVars, listenerVars>>
  <2>1. UNCHANGED tailVars /\ kind # "tail"
    BY <1>3 DEF CursorKinds
  <2> QED
    BY <1>1, <1>3, <2>1, CursorKeeps, OthersIdle
<1>4. CASE /\ kind \in ListenerKinds /\ (ListenerStep \/ PeerStep)
           /\ UNCHANGED <<tailVars, cursorVars>>
  <2>1. UNCHANGED tailVars /\ UNCHANGED cursorVars /\ kind # "tail" /\ kind \notin CursorKinds
    BY <1>4 DEF CursorKinds, ListenerKinds
  <2> QED
    BY <1>1, <1>4, <2>1, ListenerPath, OthersIdle
<1>5. CASE /\ WorkerStep \/ TapRelease \/ SignalShutdown
           /\ UNCHANGED <<tailVars, cursorVars, listenerVars>>
  <2>1. UNCHANGED tailVars /\ UNCHANGED cursorVars
    BY <1>5
  <2>2. Elsewhere /\ UNCHANGED LinesPassed
    BY <1>1, <2>1 DEF Elsewhere, tailVars, cursorVars
  <2>3. Carries
    BY <1>1, <1>5, <2>2, PathCarries
  <2> QED
    BY <1>1, <2>1, <2>2, <2>3, CursorCarried, TailCarried DEF Carries
<1>6. CASE UNCHANGED vars
  <2>1. UNCHANGED pathVars /\ UNCHANGED tailVars /\ UNCHANGED cursorVars
    BY <1>6 DEF vars
  <2>2. UNCHANGED <<kind, generation, misread, LinesPassed, EntriesPassed>>
    BY <1>1, <2>1 DEF tailVars, cursorVars
  <2>3. PathType' /\ PathInv' /\ PathSame
    BY <1>1, <2>1, <2>2, OffThePath
  <2>4. Carries
    BY <2>3 DEF Carries, PathSame
  <2> QED
    BY <1>1, <2>1, <2>2, <2>3, <2>4, CursorCarried, TailCarried
<1> QED
  BY <1>2, <1>3, <1>4, <1>5, <1>6 DEF Next, InputStep, Environment, PathStep

\* The positions in flight, the saved ones and the lines they stand for stay
\* related as IInv says.
THEOREM ResumeInvariance == Spec => []IInv
<1>1. Init => IInv
  BY ResumeStarts
<1>2. IInv /\ [Next]_vars => IInv'
  BY ResumeKeeps
<1> QED
  BY <1>1, <1>2, PTL DEF Spec

\* The tail input passes over what it has read only in LoadPosition, with a
\* start of its own.
LEMMA TailLossKept ==
    ASSUME TailLoss, TailStep \/ WorldStep \/ TailExit \/ TailCrash
    PROVE  TailLoss'
<1>1. CASE LoadPosition
  <2>1. /\ starts' = starts + 1 /\ UNCHANGED lines_read
        /\ lines_lost' \subseteq lines_lost \cup lines_read
    BY <1>1 DEF LoadPosition, StartAtEnd, Unfinished
  <2> QED
    BY <2>1 DEF TailLoss
<1>2. CASE StartTail \/ TailStop \/ TailAck \/ Poll \/ CheckFile \/ OpenFile \/ Drain
  <2>1. tpc # "down" /\ UNCHANGED <<starts, lines_read, lines_lost>>
    BY <1>2 DEF StartTail, TailStop, TailAck, Poll, CheckFile, OpenFile, Drain, tailHist
  <2> QED
    BY <2>1 DEF TailLoss
<1>3. CASE ReadLine
  <2>1. tpc # "down" /\ UNCHANGED <<starts, lines_lost>>
    BY <1>3 DEF ReadLine
  <2> QED
    BY <2>1 DEF TailLoss
<1>4. CASE WorldStep
  <2>1. UNCHANGED <<tpc, starts, lines_read, lines_lost>>
    BY <1>4 DEF WorldStep, tailHist
  <2> QED
    BY <2>1 DEF TailLoss
<1>5. CASE TailExit \/ TailCrash
  <2>1. tpc' = "down" /\ UNCHANGED <<starts, lines_read, lines_lost>>
    BY <1>5 DEF TailExit, TailCrash, TailGone, tailHist
  <2> QED
    BY <2>1 DEF TailLoss
<1> QED
  BY <1>1, <1>2, <1>3, <1>4, <1>5 DEF TailStep

\* Entries that are passed over are lost if some run has read them, or if they
\* are taken for processed.
LEMMA LostOf ==
    ASSUME NEW S, NEW T, PassOver(S, T)
    PROVE  entries_lost' \subseteq entries_lost \cup (S \cap (entries_read \cup T))
  BY DEF PassOver

\* The reader passes over entries ahead of it only, and over one that it takes
\* for processed only with a cursor from an earlier run.
LEMMA CursorLossKept ==
    ASSUME CursorType, FeedInv, CursorLoss, CursorStep \/ LogStep \/ CursorExit \/ CursorCrash
    PROVE  CursorLoss'
<1>0. jlen \in Nat /\ rpos \in 0 .. jlen /\ oldest \in 1 .. jlen /\ jstarts \in Nat
      /\ cursor \in 0 .. jlen
  BY DEF CursorType, CursorLoss
<1>1. CASE LogStep \/ HandOver \/ ReaderStops \/ ActorEntry \/ ActorSend
  <2>1. /\ UNCHANGED <<jstarts, rpos, cursor, entries_read, entries_lost>>
        /\ apc' = apc \/ (apc \notin {"down", "startup"} /\ apc' \notin {"down", "startup"})
    BY <1>1 DEF LogStep, HandOver, ReaderStops, ActorEntry, ActorSend, reader, actor
  <2> QED
    BY <2>1 DEF CursorLoss
<1>2. CASE ActorShutdown \/ ActorNone \/ ActorGivesUp \/ OpenFails
  <2>1. /\ UNCHANGED <<jstarts, rpos, cursor, entries_read, entries_lost>>
        /\ apc # "down" /\ apc' \in {"join", "stopped"}
    BY <1>2 DEF ActorShutdown, ActorNone, ActorGivesUp, OpenFails, Leave, reader, FeedInv
  <2> QED
    BY <2>1 DEF CursorLoss
<1>3. CASE ActorAck \/ ActorJoined
  <2>1. /\ UNCHANGED <<jstarts, rpos, entries_read, entries_lost>>
        /\ apc \in {"select", "join"} /\ apc' \in {"select", "stopped"}
    BY <1>3 DEF ActorAck, ActorJoined, reader, actor
  <2> QED
    BY <2>1 DEF CursorLoss
<1>4. CASE StartInput
  <2>1. /\ jstarts' = jstarts + 1 /\ apc' = "startup"
        /\ UNCHANGED <<rpos, cursor, entries_read, entries_lost>>
    BY <1>4 DEF StartInput
  <2> QED
    BY <1>0, <2>1 DEF CursorLoss
<1>5. CASE CursorExit \/ CursorCrash
  <2>1. apc # "down" /\ apc' = "down" /\ UNCHANGED <<jstarts, cursor, entries_read, entries_lost>>
    BY <1>5 DEF CursorExit, CursorCrash, CursorGone
  <2> QED
    BY <2>1 DEF CursorLoss
<1>6. CASE OpenLog
  <2>1. /\ UNCHANGED <<jstarts, cursor, entries_read>> /\ apc = "startup" /\ apc' = "select"
        /\ rpos = 0 /\ (cursor = 0 => AtTail)
    BY <1>6 DEF OpenLog, FeedInv
  <2>2. jstarts # 0 /\ (jstarts = 1 => cursor = 0 /\ entries_read = {})
    BY <2>1 DEF CursorLoss
  <2>3. jstarts = 1 => entries_lost' \subseteq entries_lost
    <3> SUFFICES ASSUME jstarts = 1 PROVE entries_lost' \subseteq entries_lost
      OBVIOUS
    <3>1. PassOver(rpos + 1 .. jlen, {}) /\ entries_read = {}
      BY <2>1, <2>2 DEF AtTail
    <3> QED
      BY <3>1, LostOf
  <2> QED
    BY <1>0, <2>1, <2>2, <2>3 DEF CursorLoss
<1>7. CASE ReadEntry \/ ReadFails \/ Resubscribe
  <2>1. /\ UNCHANGED <<jstarts, cursor, apc>> /\ rpc = "loop"
    BY <1>7 DEF ReadEntry, ReadFails, Resubscribe, actor
  <2>2. apc \notin {"down", "startup"}
    BY <2>1 DEF FeedInv
  <2>3. Following \in Nat /\ Following >= rpos + 1
    BY <1>0 DEF Following
  <2>4. \E n \in Nat : PassOver(rpos + 1 .. n, {}) \/ UNCHANGED entries_lost
    BY <1>0, <1>7, <2>3 DEF ReadEntry, ReadFails, Resubscribe, AtTail
  <2>5. jstarts = 1 => entries_lost' \subseteq entries_lost
    <3> SUFFICES ASSUME jstarts = 1 PROVE entries_lost' \subseteq entries_lost
      OBVIOUS
    <3>1. PICK n \in Nat : PassOver(rpos + 1 .. n, {}) \/ UNCHANGED entries_lost
      BY <2>4
    <3>2. entries_read \subseteq 1 .. rpos
      BY <2>2 DEF CursorLoss
    <3>3. (rpos + 1 .. n) \cap entries_read = {}
      BY <1>0, <3>2
    <3>4. PassOver(rpos + 1 .. n, {}) => entries_lost' \subseteq entries_lost
      BY <3>3, LostOf
    <3> QED
      BY <3>1, <3>4
  <2>6. rpos' \in Nat /\ rpos' >= rpos /\ (rpos' = Following \/ entries_read' = entries_read)
    BY <1>0, <1>7, <2>3 DEF ReadEntry, ReadFails, Resubscribe, AtTail
  <2>7. entries_read' \subseteq entries_read \cup {Following}
    BY <1>7 DEF ReadEntry, ReadFails, Resubscribe
  <2>8. jstarts = 1 => entries_read' \subseteq 1 .. rpos'
    BY <1>0, <2>2, <2>3, <2>6, <2>7 DEF CursorLoss
  <2> QED
    BY <1>0, <2>1, <2>2, <2>5, <2>8 DEF CursorLoss
<1> QED
  BY <1>1, <1>2, <1>3, <1>4, <1>5, <1>6, <1>7 DEF CursorStep, ReaderStep, ActorStep

\* Every step keeps it.
LEMMA LossKept ==
    ASSUME IInv, LossInv, [Next]_vars
    PROVE  LossInv'
<1>1. TailLoss /\ CursorLoss /\ CursorType /\ (kind \in CursorKinds => FeedInv)
  BY DEF IInv, LossInv, CursorInv
<1>2. UNCHANGED tailVars => TailLoss'
  BY <1>1 DEF TailLoss, tailVars
<1>3. UNCHANGED cursorVars => CursorLoss'
  BY <1>1 DEF CursorLoss, cursorVars
<1>4. CASE /\ kind = "tail" /\ (TailStep \/ WorldStep \/ TailExit \/ TailCrash)
           /\ UNCHANGED <<cursorVars, listenerVars>>
  BY <1>1, <1>3, <1>4, TailLossKept DEF LossInv
<1>5. CASE /\ kind \in CursorKinds /\ (CursorStep \/ LogStep \/ CursorExit \/ CursorCrash)
           /\ UNCHANGED <<tailVars, listenerVars>>
  BY <1>1, <1>2, <1>5, CursorLossKept DEF LossInv
<1>6. CASE UNCHANGED <<tailVars, cursorVars>> \/ UNCHANGED vars
  BY <1>2, <1>3, <1>6 DEF LossInv, vars
<1> QED
  BY <1>4, <1>5, <1>6 DEF Next, InputStep, Environment, PathStep

\* Only a later run of the daemon passes over what was read.
THEOREM LossInvariance == Spec => []LossInv
<1>1. Init => LossInv
  BY DEF Init, TailInit, CursorInit, LossInv, TailLoss, CursorLoss
<1>2. IInv /\ LossInv /\ [Next]_vars => LossInv'
  BY LossKept
<1> QED
  BY <1>1, <1>2, ResumeInvariance, PTL DEF Spec

\* What is resumed from after a restart, the offset in tail's state file or the
\* cursor of the journal and the event log, covers only lines whose processing
\* completed or that were passed over without ever being read: whatever the
\* order in which workers and taps let go of events, and wherever rotations,
\* resets, failed saves, crashes and the shutdown come.  Excepted by name are
\* contents that tail reads from an offset of another one (misread), and the
\* lines a restart leaves behind (lines_lost, entries_lost); a single run of
\* the daemon leaves none.
THEOREM ResumesSafely == Spec => []ResumeIsSafe
<1>1. IInv /\ LossInv => ResumeIsSafe
  <2> SUFFICES ASSUME IInv, LossInv PROVE ResumeIsSafe
    OBVIOUS
  <2>1. CursorInv /\ TailInv /\ (lines_lost # {} => starts > 1) /\ (entries_lost # {} => jstarts > 1)
    BY DEF IInv, LossInv, TailLoss, CursorLoss
  <2>2. SavedIsProcessed
    <3>1. CASE kind = "tail"
      <4>1. EntriesPassed = {}
        BY <2>1, <3>1 DEF CursorInv, CursorIdle, CursorKinds
      <4>2. saved.off > 0 => Below(saved) \subseteq processed \cup LinesPassed
        BY <2>1, <3>1, <4>1 DEF TailInv, TailRead, Known
      <4> QED
        BY <2>1, <4>2 DEF SavedIsProcessed, Below
    <3>2. CASE kind # "tail"
      BY <2>1, <3>2 DEF TailInv, TailIdle, NoState, SavedIsProcessed
    <3> QED
      BY <3>1, <3>2
  <2>3. CursorIsProcessed
    <3>1. CASE kind \in CursorKinds
      BY <2>1, <3>1 DEF CursorInv, FeedInv, Known, CursorIsProcessed
    <3>2. CASE kind \notin CursorKinds
      BY <2>1, <3>2 DEF CursorInv, CursorIdle, CursorIsProcessed
    <3> QED
      BY <3>1, <3>2
  <2> QED
    BY <2>2, <2>3 DEF ResumeIsSafe
<1> QED
  BY <1>1, ResumeInvariance, LossInvariance, PTL

\* No ack of a file that was rotated away or truncated gets into tail's state
\* file once the reset is saved, however late it comes.
THEOREM LateAcksDoNotCount == Spec => []SavedIsOfThisFile
<1>1. IInv => SavedIsOfThisFile
  BY DEF IInv, TailInv, TailIdle, NoState, BaseInv, SavedIsOfThisFile
<1> QED
  BY <1>1, ResumeInvariance, PTL

\* Offsets, cursors, channels and program counters of every input stay in range.
THEOREM InputsType == Spec => []TypeOK
<1>1. IInv /\ LInv => TypeOK
  <2> SUFFICES ASSUME IInv, LInv PROVE TypeOK
    OBVIOUS
  <2>1. kind \in InputKinds /\ PathType /\ CursorType /\ TailType /\ ListenerType
    BY DEF IInv, CursorInv, TailInv, LInv
  <2>2. MaxLines \in Nat /\ MaxContents \in Nat /\ contents \in 1 .. MaxContents
    BY <2>1, InputsAssumption DEF TailType
  <2>3. path \in 0 .. MaxContents /\ last_inode \in 0 .. MaxContents
    BY <2>1, <2>2 DEF TailType
  <2>4. \A p \in {read, acked} : p.off \in 0 .. MaxLines /\ p.of \in 0 .. MaxContents
    BY <2>1, <2>2 DEF TailType
  <2>5. saved.off \in -1 .. MaxLines
    BY <2>1, <2>2 DEF TailType, NoState
  <2> QED
    BY <2>1, <2>3, <2>4, <2>5 DEF TypeOK, PathType, CursorType, TailType, ListenerType
<1> QED
  BY <1>1, ResumeInvariance, ListenerInvariance, PTL
=============================================================================
