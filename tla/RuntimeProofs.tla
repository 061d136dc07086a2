--------------------------- MODULE RuntimeProofs ---------------------------
(***************************************************************************)
(* No event vanishes in a shutdown, a failed start or a reload: for any set *)
(* of outputs, any configuration of the considered types, any number of     *)
(* events and reloads.                                                      *)
(***************************************************************************)
EXTENDS Runtime, FiniteSetTheorems, TLAPS

\* The worker is between taking an event and accounting for it.
Busy(e) == wpc = "enqueue" /\ cur = e

\* Where the owner stands: it aborts nobody that must be joined, and is done
\* only when those have ended.
OwnerInv ==
    /\ aborted \cap MustJoin = {}
    /\ phase \in {"down", "exited"} => \A t \in MustJoin : ~Live(t)

\* The stages start from the last to the first ...
StartInv ==
    /\ task["worker"] = "none" => task["input"] = "none" /\ chan = {}
    /\ task["worker"] # "none" => \A o \in Outputs : task[o] # "none"

\* ... and a stage that is not running holds nothing, or nothing that the
\* disk does not hold.
StopInv ==
    /\ ~Live("input") => ipc = "recv"
    /\ ~Live("worker") => wpc = "select"
    /\ task["worker"] = "ended" =>
         ~chan_open /\ (PipelineMustJoin => chan = {} /\ ipc # "permit")
    /\ \A o \in Outputs :
         /\ ~Live(o) => hand[o] = 0 /\ (Disk(o) \/ queue[o] = {})
         /\ task[o] = "ended" => Disk(o) \/ ~open[o]

\* The permit of the input is for a place in the channel.
PermitInv == ipc = "permit" => Cardinality(chan) < Capacity

\* Event numbers are used once: an event in the channel has not been seen by
\* the worker before, the one the input holds by nobody.
Seen(e) ==
    \/ e \in chan
    \/ Busy(e)
    \/ ended[e] # "none"
    \/ \E o \in Outputs : <<e, o>> \in copies

FreshInv ==
    /\ ipc \in {"send", "permit"} => received \in Events
    /\ wpc = "enqueue" => cur \in Events /\ ended[cur] = "none"
    /\ \A e \in Events : Seen(e) => e <= received /\ (ipc \in {"send", "permit"} => e # received)
    /\ \A e \in chan : /\ ended[e] = "none" /\ ~Busy(e)
                       /\ \A o \in Outputs : <<e, o>> \notin copies

\* While the worker has an event, each of its copies is still to be enqueued,
\* or failed, or queued.
CopyInv ==
    wpc = "enqueue" =>
        \A o \in Outputs :
            <<cur, o>> \in copies =>
                o \in todo \/ o \in failed \/ <<cur, o>> \in queued

\* FinishedIsQueued, event by event.
FinishedInv ==
    \A e \in Events, o \in Outputs :
        <<e, o>> \in copies /\ ended[e] \in {"finished", "dropped"} =>
            <<e, o>> \in queued

\* Where an accepted event, an emitted copy and a queued copy are.
EventInv ==
    Durable => \A e \in accepted : ended[e] # "none" \/ e \in chan \/ Busy(e)

RecordInv ==
    config.error_log =>
        \A e \in Events, o \in Outputs :
            <<e, o>> \in copies =>
                \/ <<e, o>> \in queued \/ <<e, o>> \in reported
                \/ Busy(e) /\ (o \in todo \/ o \in failed)

QueuedInv ==
    \A e \in Events, o \in Outputs :
        <<e, o>> \in queued /\ OutputMustJoin(o) =>
            <<e, o>> \in resolved \/ e \in queue[o] \/ hand[o] = e

\* What is known of the tasks, and of the events.
TaskInv == OwnerInv /\ StartInv /\ StopInv

DataInv ==
    /\ PermitInv /\ FreshInv /\ CopyInv /\ FinishedInv
    /\ EventInv /\ RecordInv /\ QueuedInv

\* The inductive invariant.
IInv == TypeOK /\ TaskInv /\ DataInv

-----------------------------------------------------------------------------

USE RuntimeAssumption

\* The configuration of a runtime does not change: nor does what must be
\* joined.
LEMMA ConfigFrame ==
    ASSUME config' = config
    PROVE  /\ MustJoin' = MustJoin
           /\ PipelineMustJoin' <=> PipelineMustJoin
           /\ Durable' <=> Durable
           /\ \A o \in Outputs : Disk(o)' <=> Disk(o)
           /\ \A o \in Outputs : OutputMustJoin(o)' <=> OutputMustJoin(o)
<1>1. \A o \in Outputs : /\ Disk(o)' <=> Disk(o)
                         /\ OutputMustJoin(o)' <=> OutputMustJoin(o)
  BY DEF Disk, OutputMustJoin
<1>2. /\ PipelineMustJoin' <=> PipelineMustJoin
      /\ Durable' <=> Durable
      /\ InputMustJoin' <=> InputMustJoin
  BY <1>1 DEF PipelineMustJoin, Durable, InputMustJoin
<1>3. {o \in Outputs : OutputMustJoin(o)}' = {o \in Outputs : OutputMustJoin(o)}
  BY <1>1
<1>4. MustJoin' = MustJoin
  BY <1>2, <1>3 DEF MustJoin
<1> QED
  BY <1>1, <1>2, <1>4

\* Who must be joined.
LEMMA MustJoinFacts ==
    /\ MustJoin \subseteq Tasks
    /\ "worker" \in MustJoin <=> PipelineMustJoin
    /\ \A o \in Outputs : o \in MustJoin <=> OutputMustJoin(o)
    /\ \A o \in Outputs : Disk(o) => OutputMustJoin(o)
    /\ Durable <=> PipelineMustJoin
    /\ config.error_log => Durable
    /\ \A o \in Outputs : o # "worker" /\ o # "input" /\ o \in Tasks
    /\ "worker" \in Tasks /\ "input" \in Tasks /\ "worker" # "input"
BY DEF MustJoin, Tasks, Disk, OutputMustJoin, Durable, PipelineMustJoin

\* A step that moves no event keeps what is known of the events.
LEMMA DataFrame ==
    ASSUME DataInv,
           UNCHANGED <<config, ipc, received, chan, wpc, cur, todo, failed, queue,
                       hand, accepted, copies, queued, resolved, reported, ended>>
    PROVE  DataInv'
<1>1. Durable' <=> Durable
  BY ConfigFrame
<1>2. \A o \in Outputs : OutputMustJoin(o)' <=> OutputMustJoin(o)
  BY ConfigFrame
<1>3. \A e \in Events : /\ Busy(e)' <=> Busy(e)
                        /\ Seen(e)' <=> Seen(e)
  BY DEF Busy, Seen
<1>4. PermitInv' /\ CopyInv' /\ FinishedInv'
  BY DEF DataInv, PermitInv, CopyInv, FinishedInv
<1>5. FreshInv'
  BY DEF DataInv, FreshInv, Seen, Busy
<1>6. EventInv'
  BY <1>1 DEF DataInv, EventInv, Busy
<1>7. RecordInv'
  BY <1>3 DEF DataInv, RecordInv
<1>8. QueuedInv'
  BY <1>2 DEF DataInv, QueuedInv
<1> QED
  BY <1>4, <1>5, <1>6, <1>7, <1>8 DEF DataInv

\* It holds when the daemon starts.
LEMMA InitInv == Init => IInv
<1> SUFFICES ASSUME Init PROVE IInv
  OBVIOUS
<1>1. TypeOK
  <2>1. Cardinality(chan) <= Capacity
    BY FS_EmptySet DEF Init
  <2>2. received \in 0 .. N /\ cur \in 0 .. N /\ reloads \in 0 .. MaxReloads
    BY DEF Init
  <2>3. hand \in [Outputs -> 0 .. N]
    BY DEF Init
  <2> QED
    BY <2>1, <2>2, <2>3 DEF Init, TypeOK, Terminations
<1>2. TaskInv
  BY MustJoinFacts DEF Init, TaskInv, OwnerInv, StartInv, StopInv, Live
<1>3. DataInv
  BY FS_EmptySet DEF Init, DataInv, PermitInv, FreshInv, Seen, Busy, CopyInv,
     FinishedInv, EventInv, RecordInv, QueuedInv, Events
<1> QED
  BY <1>1, <1>2, <1>3 DEF IInv

-----------------------------------------------------------------------------
(* Steps that move no event. *)

\* A task returns by itself: it has nothing in hand.
LEMMA EndStep ==
    ASSUME IInv, InputStops \/ WorkerStops \/ \E o \in Outputs : ConsumerStops(o)
    PROVE  IInv'
<1>1. PICK t \in Tasks : /\ Live(t) /\ task' = [task EXCEPT ![t] = "ended"]
                         /\ \/ t = "input" /\ ipc = "recv"
                            \/ /\ t = "worker" /\ wpc = "select" /\ ~chan_open
                               /\ Drained
                            \/ /\ t \in Outputs /\ hand[t] = 0
                               /\ Disk(t) \/ (~open[t] /\ queue[t] = {})
  BY MustJoinFacts DEF InputStops, WorkerStops, ConsumerStops, End
<1>2. UNCHANGED <<config, phase, cause, reloads, shutdown, aborted, input, channel,
                  worker, sinks, history>>
  BY DEF InputStops, WorkerStops, ConsumerStops
<1>3. DataInv'
  BY <1>2, DataFrame DEF IInv, input, channel, worker, sinks, history
<1>4. TypeOK'
  <2>1. task' \in [Tasks -> {"none", "live", "ended"}]
    BY <1>1 DEF IInv, TypeOK
  <2> QED
    BY <1>2, <2>1 DEF IInv, TypeOK, input, channel, worker, sinks, history
<1>5. \A u \in Tasks : task'[u] = IF u = t THEN "ended" ELSE task[u]
  BY <1>1 DEF IInv, TypeOK
<1>6. OwnerInv'
  BY <1>2, <1>5, ConfigFrame, MustJoinFacts DEF IInv, TaskInv, OwnerInv, Live
<1>7. StartInv'
  BY <1>1, <1>2, <1>5, MustJoinFacts DEF IInv, TaskInv, StartInv, Live, channel
<1>8. StopInv'
  BY <1>1, <1>2, <1>5, ConfigFrame, MustJoinFacts
     DEF IInv, TaskInv, StopInv, Live, Drained, input, channel, worker, sinks
<1> QED
  BY <1>3, <1>4, <1>6, <1>7, <1>8 DEF IInv, TaskInv

\* A receiver is closed.
LEMMA CloseStep ==
    ASSUME IInv, CloseChannel \/ \E o \in Outputs : CloseQueue(o)
    PROVE  IInv'
<1>1. /\ UNCHANGED <<config, phase, cause, reloads, shutdown, task, aborted, ipc,
                     received, chan, wpc, cur, todo, failed, term, queue, hand,
                     accepted, copies, queued, resolved, reported, ended>>
      /\ \/ chan_open' = FALSE /\ open' = open
         \/ /\ chan_open' = chan_open
            /\ \E o \in Outputs : open' = [open EXCEPT ![o] = FALSE]
  BY DEF CloseChannel, CloseQueue, runtime, input, channel, worker, sinks, history
<1>2. DataInv'
  BY <1>1, DataFrame DEF IInv
<1>3. \A o \in Outputs : open'[o] => open[o]
  BY <1>1 DEF IInv, TypeOK
<1>4. chan_open' => chan_open
  BY <1>1
<1>5. TypeOK'
  <2>1. open' \in [Outputs -> BOOLEAN] /\ chan_open' \in BOOLEAN
    BY <1>1 DEF IInv, TypeOK
  <2> QED
    BY <1>1, <2>1 DEF IInv, TypeOK
<1>6. OwnerInv' /\ StartInv'
  BY <1>1, ConfigFrame DEF IInv, TaskInv, OwnerInv, StartInv, Live
<1>7. StopInv'
  BY <1>1, <1>3, <1>4, ConfigFrame DEF IInv, TaskInv, StopInv, Live
<1> QED
  BY <1>2, <1>5, <1>6, <1>7 DEF IInv, TaskInv

\* A task is spawned: the outputs first, then the worker, then its input.
LEMMA SpawnStep ==
    ASSUME IInv, NEW t \in Tasks, Start(t)
    PROVE  IInv'
<1>1. /\ phase = "starting" /\ task[t] = "none" /\ MayStart(t)
      /\ task' = [task EXCEPT ![t] = "live"]
  BY DEF Start, Absent
<1>2. UNCHANGED <<config, phase, cause, reloads, shutdown, aborted, input, channel,
                  worker, sinks, history>>
  BY DEF Start
<1>3. DataInv'
  BY <1>2, DataFrame DEF IInv, input, channel, worker, sinks, history
<1>4. TypeOK'
  <2>1. task' \in [Tasks -> {"none", "live", "ended"}]
    BY <1>1 DEF IInv, TypeOK
  <2> QED
    BY <1>2, <2>1 DEF IInv, TypeOK, input, channel, worker, sinks, history
<1>5. \A u \in Tasks : task'[u] = IF u = t THEN "live" ELSE task[u]
  BY <1>1 DEF IInv, TypeOK
<1>6. OwnerInv'
  BY <1>1, <1>2, ConfigFrame DEF IInv, TaskInv, OwnerInv
<1>7. StartInv'
  BY <1>1, <1>2, <1>5, MustJoinFacts
     DEF IInv, TaskInv, StartInv, MayStart, Absent, channel
<1>8. StopInv'
  BY <1>1, <1>2, <1>5, ConfigFrame, MustJoinFacts
     DEF IInv, TaskInv, StopInv, Live, input, channel, worker, sinks
<1> QED
  BY <1>3, <1>4, <1>6, <1>7, <1>8 DEF IInv, TaskInv

\* The owner moves on: a committed or failed start, a shutdown, a deadline,
\* the last join, the end of the process.
LEMMA OwnerStep ==
    ASSUME IInv,
           \/ Committed \/ StartFails \/ RequestShutdown \/ AbortPending
           \/ CleanedUp \/ JoinHangs \/ Terminated
           \/ NextRuntime /\ phase' = "exited"
    PROVE  IInv'
<1>1. UNCHANGED <<config, task, input, channel, worker, sinks, history>>
  BY DEF Committed, StartFails, RequestShutdown, AbortPending, CleanedUp,
         NextRuntime, JoinHangs, Terminated, vars, input, channel, worker, sinks, history
<1>2. DataInv'
  BY <1>1, DataFrame DEF IInv, input, channel, worker, sinks, history
<1>3. TypeOK'
  <2>1. /\ phase' \in {"starting", "running", "graceful", "joining", "down", "exited"}
        /\ cause' \in {"boot", "exit", "reload", "rollback", "giveup"}
        /\ shutdown' \in BOOLEAN
    BY DEF IInv, TypeOK, Committed, StartFails, RequestShutdown, AbortPending,
           CleanedUp, NextRuntime, JoinHangs, Terminated, vars
  <2>2. reloads' \in 0 .. MaxReloads
    BY DEF IInv, TypeOK, Committed, StartFails, RequestShutdown, AbortPending,
           CleanedUp, NextRuntime, JoinHangs, Terminated, vars
  <2>3. aborted' \in SUBSET Tasks
    BY DEF IInv, TypeOK, Committed, StartFails, RequestShutdown, AbortPending,
           CleanedUp, NextRuntime, JoinHangs, Terminated, vars, Unjoined, AbortSafe
  <2> QED
    BY <1>1, <2>1, <2>2, <2>3 DEF IInv, TypeOK, input, channel, worker, sinks, history
<1>4. OwnerInv'
  <2>1. aborted' = aborted \/ aborted' \cap MustJoin = {}
    BY DEF Committed, StartFails, RequestShutdown, AbortPending, CleanedUp,
           NextRuntime, JoinHangs, Terminated, vars, Unjoined, AbortSafe
  <2>2. phase' \in {"down", "exited"} =>
           phase \in {"down", "exited"} \/ Unjoined(MustJoin) = {}
    BY DEF Committed, StartFails, RequestShutdown, AbortPending, CleanedUp,
           NextRuntime, JoinHangs, Terminated, vars, AllJoined
  <2> QED
    BY <1>1, <2>1, <2>2, ConfigFrame DEF IInv, TaskInv, OwnerInv, Unjoined, Live
<1>5. StartInv'
  BY <1>1 DEF IInv, TaskInv, StartInv, channel
<1>6. StopInv'
  BY <1>1, ConfigFrame DEF IInv, TaskInv, StopInv, Live, input, channel, worker, sinks
<1> QED
  BY <1>2, <1>3, <1>4, <1>5, <1>6 DEF IInv, TaskInv

-----------------------------------------------------------------------------
(* Steps that move an event. *)

\* What the type invariant says of the channel.
LEMMA ChanFacts ==
    ASSUME TypeOK
    PROVE  IsFiniteSet(chan) /\ Cardinality(chan) \in Nat
<1>1. IsFiniteSet(Events)
  BY FS_Interval DEF Events
<1> QED
  BY <1>1, FS_Subset, FS_CardinalityType DEF TypeOK

\* A step of a task leaves the tasks and the owner alone.
LEMMA TaskFrame ==
    ASSUME TaskInv, UNCHANGED <<config, phase, task, aborted>>
    PROVE  OwnerInv'
BY ConfigFrame DEF TaskInv, OwnerInv, Live

\* The input receives an event, gets its permit or is refused, and commits.
LEMMA InputStep ==
    ASSUME IInv, Receive \/ Reserve \/ Commit
    PROVE  IInv'
<1>1. UNCHANGED <<runtime, chan_open, worker, sinks, copies, queued, resolved,
                  reported, ended>>
  BY DEF Receive, Reserve, Commit, channel, history
<1>2. Live("input")
  BY DEF Receive, Reserve, Commit
<1>3. \/ /\ ipc = "recv" /\ ipc' = "send" /\ received < N /\ received' = received + 1
         /\ UNCHANGED <<chan, accepted>>
      \/ /\ ipc = "send" /\ UNCHANGED <<received, chan, accepted>>
         /\ \/ chan_open /\ Cardinality(chan) < Capacity /\ ipc' = "permit"
            \/ ipc' = "recv"
      \/ /\ ipc = "permit" /\ ipc' = "recv" /\ received' = received
         /\ chan' = chan \cup {received} /\ accepted' = accepted \cup {received}
  BY DEF Receive, Reserve, Commit, channel, history
<1>4. ipc \in {"send", "permit"} => received \in Events
  BY DEF IInv, DataInv, FreshInv
<1>5. Cardinality(chan') <= Capacity /\ (ipc' = "permit" => Cardinality(chan') < Capacity)
  <2>1. CASE chan' = chan
    BY <1>3, <2>1, ChanFacts DEF IInv, TypeOK, DataInv, PermitInv
  <2>2. CASE ipc = "permit" /\ ipc' = "recv" /\ chan' = chan \cup {received}
    <3>1. Cardinality(chan) < Capacity
      BY <2>2 DEF IInv, DataInv, PermitInv
    <3>2. Cardinality(chan') <= Cardinality(chan) + 1
      BY <2>2, ChanFacts, FS_AddElement DEF IInv
    <3>3. Cardinality(chan') \in Nat
      BY <2>2, ChanFacts, FS_AddElement, FS_CardinalityType DEF IInv
    <3> QED
      BY <2>2, <3>1, <3>2, <3>3, ChanFacts DEF IInv
  <2> QED
    BY <1>3, <2>1, <2>2
<1>6. TypeOK'
  <2>1. /\ ipc' \in {"recv", "send", "permit", "stuck"} /\ received' \in 0 .. N
        /\ chan' \in SUBSET Events /\ accepted' \in SUBSET Events
    BY <1>3, <1>4 DEF IInv, TypeOK
  <2> QED
    BY <1>1, <1>5, <2>1 DEF IInv, TypeOK, runtime, worker, sinks
<1>7. OwnerInv'
  BY <1>1, TaskFrame DEF IInv, runtime
<1>8. StartInv'
  BY <1>1, <1>2, MustJoinFacts DEF IInv, TaskInv, StartInv, Live, runtime
<1>9. StopInv'
  <2>1. task["worker"] = "ended" /\ PipelineMustJoin => chan' = {} /\ ipc' # "permit"
    BY <1>3 DEF IInv, TaskInv, StopInv
  <2> QED
    BY <1>1, <1>2, <2>1, ConfigFrame
       DEF IInv, TaskInv, StopInv, Live, runtime, worker, sinks
<1>10. PermitInv'
  BY <1>5 DEF PermitInv
<1>11. FreshInv'
  <2>1. ipc' \in {"send", "permit"} => received' \in Events
    BY <1>3, <1>4 DEF IInv, TypeOK, Events
  <2>2. wpc' = "enqueue" => cur' \in Events /\ ended'[cur'] = "none"
    BY <1>1 DEF IInv, DataInv, FreshInv, worker
  <2>3. ASSUME NEW e \in Events, Seen(e)'
        PROVE  e <= received' /\ (ipc' \in {"send", "permit"} => e # received')
    <3>1. Seen(e) \/ (e = received /\ ipc' = "recv" /\ received' = received)
      BY <1>1, <1>3, <2>3 DEF Seen, Busy, worker
    <3>2. CASE Seen(e)
      BY <1>3, <3>2 DEF IInv, DataInv, FreshInv, TypeOK, Events
    <3>3. CASE e = received /\ ipc' = "recv" /\ received' = received
      BY <3>3 DEF Events
    <3> QED
      BY <3>1, <3>2, <3>3
  <2>4. ASSUME NEW e \in chan'
        PROVE  /\ ended'[e] = "none" /\ ~Busy(e)'
               /\ \A o \in Outputs : <<e, o>> \notin copies'
    <3>1. e \in chan \/ (ipc = "permit" /\ e = received)
      BY <1>3, <2>4
    <3>2. CASE e \in chan
      BY <1>1, <3>2 DEF IInv, DataInv, FreshInv, Busy, worker
    <3>3. CASE ipc = "permit" /\ e = received
      <4>1. e \in Events /\ ~Seen(e)
        BY <1>4, <3>3 DEF IInv, DataInv, FreshInv
      <4> QED
        BY <1>1, <4>1 DEF Seen, Busy, worker
    <3> QED
      BY <3>1, <3>2, <3>3
  <2> QED
    BY <2>1, <2>2, <2>3, <2>4 DEF FreshInv
<1>12. CopyInv' /\ FinishedInv'
  BY <1>1 DEF IInv, DataInv, CopyInv, FinishedInv, worker
<1>13. EventInv'
  BY <1>1, <1>3, ConfigFrame DEF IInv, DataInv, EventInv, Busy, runtime, worker
<1>14. RecordInv' /\ QueuedInv'
  BY <1>1, ConfigFrame DEF IInv, DataInv, RecordInv, QueuedInv, Busy, runtime,
     worker, sinks
<1> QED
  BY <1>6, <1>7, <1>8, <1>9, <1>10, <1>11, <1>12, <1>13, <1>14
     DEF IInv, TaskInv, DataInv

\* The input hangs in the join of its reader.  It has nothing in hand.
LEMMA HangStep ==
    ASSUME IInv, InputHangs
    PROVE  IInv'
<1>1. /\ Live("input") /\ ipc = "recv" /\ ipc' = "stuck"
      /\ UNCHANGED <<runtime, received, channel, worker, sinks, history>>
  BY DEF InputHangs
<1>2. TypeOK'
  BY <1>1 DEF IInv, TypeOK, runtime, channel, worker, sinks, history
<1>3. OwnerInv'
  BY <1>1, TaskFrame DEF IInv, runtime
<1>4. StartInv'
  BY <1>1 DEF IInv, TaskInv, StartInv, Live, runtime, channel
<1>5. StopInv'
  BY <1>1, ConfigFrame
     DEF IInv, TaskInv, StopInv, Live, runtime, channel, worker, sinks
<1>6. PermitInv'
  BY <1>1 DEF PermitInv
<1>7. \A e \in Events : (Busy(e)' <=> Busy(e)) /\ (Seen(e)' <=> Seen(e))
  BY <1>1 DEF Busy, Seen, channel, worker, history
<1>8. FreshInv'
  BY <1>1, <1>7 DEF IInv, DataInv, FreshInv, Busy, Seen, channel, worker, history
<1>9. CopyInv' /\ FinishedInv'
  BY <1>1 DEF IInv, DataInv, CopyInv, FinishedInv, worker, history
<1>10. EventInv'
  BY <1>1, ConfigFrame DEF IInv, DataInv, EventInv, Busy, runtime, channel, worker, history
<1>11. RecordInv' /\ QueuedInv'
  BY <1>1, ConfigFrame DEF IInv, DataInv, RecordInv, QueuedInv, Busy, runtime,
     worker, sinks, history
<1> QED
  BY <1>2, <1>3, <1>4, <1>5, <1>6, <1>8, <1>9, <1>10, <1>11
     DEF IInv, TaskInv, DataInv

\* The worker takes an event that nothing has been made of before.
LEMMA TakeStep ==
    ASSUME IInv, TakeEvent
    PROVE  IInv'
<1>1. PICK e \in chan, t \in Terminations, outs \in SUBSET Outputs :
         /\ chan' = chan \ {e} /\ cur' = e /\ todo' = outs /\ term' = t
         /\ copies' = copies \cup {<<e, o>> : o \in outs}
  BY DEF TakeEvent
<1>2. /\ Live("worker") /\ wpc = "select" /\ wpc' = "enqueue" /\ failed' = {}
      /\ UNCHANGED <<runtime, input, chan_open, sinks, accepted,
                     queued, resolved, reported, ended>>
  BY DEF TakeEvent
<1>3. e \in Events
  BY DEF IInv, TypeOK
<1>4. /\ ended[e] = "none" /\ \A o \in Outputs : <<e, o>> \notin copies
  BY DEF IInv, DataInv, FreshInv
<1>5. \A d \in Events, o \in Outputs :
         <<d, o>> \in copies' <=> <<d, o>> \in copies \/ (d = e /\ o \in outs)
  BY <1>1
<1>6. TypeOK'
  <2>1. copies' \in SUBSET Copies
    BY <1>1, <1>3 DEF IInv, TypeOK, Copies
  <2>2. chan' \in SUBSET Events /\ Cardinality(chan') <= Capacity
    <3>1. Cardinality(chan') = Cardinality(chan) - 1
      BY <1>1, ChanFacts, FS_RemoveElement DEF IInv
    <3> QED
      BY <1>1, <3>1, ChanFacts DEF IInv, TypeOK
  <2>3. cur' \in 0 .. N
    BY <1>1, <1>3 DEF Events
  <2> QED
    BY <1>1, <1>2, <2>1, <2>2, <2>3 DEF IInv, TypeOK, runtime, input, sinks
<1>7. OwnerInv'
  BY <1>2, TaskFrame DEF IInv, runtime
<1>8. StartInv' /\ StopInv'
  BY <1>2, ConfigFrame, MustJoinFacts
     DEF IInv, TaskInv, StartInv, StopInv, Live, runtime, input, sinks
<1>9. PermitInv'
  <2>1. Cardinality(chan') = Cardinality(chan) - 1
    BY <1>1, ChanFacts, FS_RemoveElement DEF IInv
  <2> QED
    BY <1>2, <2>1, ChanFacts DEF IInv, TypeOK, DataInv, PermitInv, input
<1>10. FreshInv'
  <2>1. ipc' \in {"send", "permit"} => received' \in Events
    BY <1>2 DEF IInv, DataInv, FreshInv, input
  <2>2. wpc' = "enqueue" => cur' \in Events /\ ended'[cur'] = "none"
    BY <1>1, <1>2, <1>3, <1>4
  <2>3. ASSUME NEW d \in Events, Seen(d)'
        PROVE  d <= received' /\ (ipc' \in {"send", "permit"} => d # received')
    <3>1. Seen(d)
      <4>1. d = e \/ d \in chan \/ ended[d] # "none" \/ \E o \in Outputs : <<d, o>> \in copies
        BY <1>1, <1>2, <1>5, <2>3 DEF Seen, Busy
      <4> QED
        BY <4>1 DEF Seen
    <3> QED
      BY <1>2, <3>1 DEF IInv, DataInv, FreshInv, input
  <2>4. ASSUME NEW d \in chan'
        PROVE  /\ ended'[d] = "none" /\ ~Busy(d)'
               /\ \A o \in Outputs : <<d, o>> \notin copies'
    <3>1. d \in chan /\ d # e /\ d \in Events
      BY <1>1, <2>4 DEF IInv, TypeOK
    <3>2. ended[d] = "none" /\ \A o \in Outputs : <<d, o>> \notin copies
      BY <3>1 DEF IInv, DataInv, FreshInv
    <3> QED
      BY <1>1, <1>2, <1>5, <3>1, <3>2 DEF Busy
  <2> QED
    BY <2>1, <2>2, <2>3, <2>4 DEF FreshInv
<1>11. CopyInv'
  BY <1>1, <1>3, <1>4, <1>5 DEF CopyInv
<1>12. FinishedInv'
  BY <1>2, <1>4, <1>5 DEF IInv, DataInv, FinishedInv
<1>13. EventInv'
  BY <1>1, <1>2, ConfigFrame DEF IInv, DataInv, EventInv, Busy, runtime
<1>14. RecordInv'
  BY <1>1, <1>2, <1>5 DEF IInv, DataInv, RecordInv, Busy, runtime
<1>15. QueuedInv'
  BY <1>2, ConfigFrame DEF IInv, DataInv, QueuedInv, runtime, sinks
<1> QED
  BY <1>6, <1>7, <1>8, <1>9, <1>10, <1>11, <1>12, <1>13, <1>14, <1>15
     DEF IInv, TaskInv, DataInv

\* A copy goes into its queue, or the output is among those that failed.
LEMMA EnqueueStep ==
    ASSUME IInv, NEW o \in Outputs, Enqueue(o)
    PROVE  IInv'
<1>1. /\ Live("worker") /\ wpc = "enqueue" /\ o \in todo /\ todo' = todo \ {o}
      /\ UNCHANGED <<runtime, input, channel, wpc, cur, term, open,
                     hand, accepted, copies, resolved, reported, ended>>
      /\ \/ /\ Disk(o) \/ open[o]
            /\ queue' = [queue EXCEPT ![o] = @ \cup {cur}]
            /\ queued' = queued \cup {<<cur, o>>} /\ failed' = failed
         \/ /\ failed' = failed \cup {o} /\ UNCHANGED <<queue, queued>>
  BY DEF Enqueue
<1>2. cur \in Events
  BY <1>1 DEF IInv, DataInv, FreshInv
<1>3. \A q \in Outputs : queue[q] \subseteq queue'[q] /\ (q # o => queue'[q] = queue[q])
  BY <1>1 DEF IInv, TypeOK
<1>4. TypeOK'
  <2>1. queue' \in [Outputs -> SUBSET Events]
    BY <1>1, <1>2 DEF IInv, TypeOK
  <2>2. queued' \in SUBSET Copies
    BY <1>1, <1>2 DEF IInv, TypeOK, Copies
  <2>3. todo' \in SUBSET Outputs /\ failed' \in SUBSET Outputs
    BY <1>1 DEF IInv, TypeOK
  <2> QED
    BY <1>1, <2>1, <2>2, <2>3 DEF IInv, TypeOK, runtime, input, channel
<1>5. OwnerInv' /\ StartInv'
  BY <1>1, TaskFrame DEF IInv, TaskInv, StartInv, runtime, channel
<1>6. StopInv'
  <2>1. \A q \in Outputs : ~Live(q) => hand[q] = 0 /\ (Disk(q) \/ queue'[q] = {})
    <3>1. SUFFICES ASSUME ~Live(o), ~Disk(o) PROVE queue'[o] = {}
      BY <1>3 DEF IInv, TaskInv, StopInv
    <3>2. task[o] = "ended"
      BY <1>1, <3>1, MustJoinFacts DEF IInv, TypeOK, TaskInv, StartInv, Live
    <3>3. ~open[o] /\ queue[o] = {}
      BY <3>1, <3>2 DEF IInv, TaskInv, StopInv
    <3> QED
      BY <1>1, <3>1, <3>3
  <2> QED
    BY <1>1, <2>1, ConfigFrame DEF IInv, TaskInv, StopInv, Live, runtime, input, channel
<1>7. PermitInv' /\ FreshInv'
  BY <1>1 DEF IInv, DataInv, PermitInv, FreshInv, Seen, Busy, input, channel
<1>8. CopyInv'
  BY <1>1 DEF IInv, DataInv, CopyInv
<1>9. FinishedInv'
  BY <1>1 DEF IInv, DataInv, FinishedInv
<1>10. EventInv'
  BY <1>1, ConfigFrame DEF IInv, DataInv, EventInv, Busy, runtime, channel
<1>11. RecordInv'
  BY <1>1, <1>2 DEF IInv, DataInv, RecordInv, Busy, runtime
<1>12. QueuedInv'
  <2> SUFFICES ASSUME NEW e \in Events, NEW q \in Outputs, <<e, q>> \in queued',
                      OutputMustJoin(q)
               PROVE  <<e, q>> \in resolved \/ e \in queue'[q] \/ hand[q] = e
    BY <1>1, ConfigFrame DEF QueuedInv, runtime
  <2>1. CASE <<e, q>> \in queued
    BY <1>3, <2>1 DEF IInv, DataInv, QueuedInv
  <2>2. CASE <<e, q>> \notin queued
    <3>1. e = cur /\ q = o /\ queue' = [queue EXCEPT ![o] = @ \cup {cur}]
      BY <1>1, <2>2
    <3> QED
      BY <3>1 DEF IInv, TypeOK
  <2> QED
    BY <2>1, <2>2
<1> QED
  BY <1>4, <1>5, <1>6, <1>7, <1>8, <1>9, <1>10, <1>11, <1>12 DEF IInv, TaskInv, DataInv

\* The worker counts its event: one with a failed output as errored, with a
\* record for each of them.
LEMMA AccountStep ==
    ASSUME IInv, Account
    PROVE  IInv'
<1>1. /\ Live("worker") /\ wpc = "enqueue" /\ todo = {}
      /\ ended' = [ended EXCEPT ![cur] = CountedAs]
      /\ reported' = IF CountedAs = "errored" THEN reported \cup Records ELSE reported
      /\ wpc' = "select" /\ cur' = 0 /\ failed' = {} /\ term' = "Finished"
      /\ UNCHANGED <<runtime, input, channel, todo, sinks,
                     accepted, copies, queued, resolved>>
  BY DEF Account
<1>2. cur \in Events /\ ended[cur] = "none"
  BY <1>1 DEF IInv, DataInv, FreshInv
<1>3. /\ CountedAs \in {"finished", "discarded", "dropped", "errored"}
      /\ failed # {} => CountedAs = "errored"
  BY DEF CountedAs, Outcome, IInv, TypeOK, Terminations
<1>4. /\ \A e \in Events : ended'[e] = IF e = cur THEN CountedAs ELSE ended[e]
      /\ ended'[cur] # "none"
  BY <1>1, <1>2, <1>3 DEF IInv, TypeOK
<1>5. TypeOK'
  <2>1. ended' \in [Events -> {"none", "finished", "discarded", "dropped", "errored"}]
    BY <1>1, <1>3 DEF IInv, TypeOK
  <2>2. reported' \in SUBSET (Events \X (Outputs \cup {0}))
    <3>1. Records \in SUBSET (Events \X (Outputs \cup {0}))
      BY <1>2 DEF Records, IInv, TypeOK
    <3> QED
      BY <1>1, <3>1 DEF IInv, TypeOK
  <2>3. cur' \in 0 .. N
    BY <1>1
  <2> QED
    BY <1>1, <2>1, <2>2, <2>3
       DEF IInv, TypeOK, Terminations, runtime, input, channel, sinks
<1>6. OwnerInv' /\ StartInv'
  BY <1>1, TaskFrame DEF IInv, TaskInv, StartInv, runtime, channel
<1>7. StopInv'
  BY <1>1, ConfigFrame DEF IInv, TaskInv, StopInv, Live, runtime, input, channel, sinks
<1>8. PermitInv' /\ CopyInv'
  BY <1>1 DEF IInv, DataInv, PermitInv, CopyInv, input, channel
<1>9. FreshInv'
  <2>1. \A e \in Events : Seen(e)' => Seen(e)
    BY <1>1, <1>4 DEF Seen, Busy, channel
  <2>2. \A e \in chan : e \in Events /\ e # cur
    BY <1>1 DEF IInv, TypeOK, DataInv, FreshInv, Busy
  <2>3. \A e \in chan' : /\ ended'[e] = "none" /\ ~Busy(e)'
                         /\ \A o \in Outputs : <<e, o>> \notin copies'
    BY <1>1, <1>4, <2>2 DEF IInv, DataInv, FreshInv, Busy, channel
  <2> QED
    BY <1>1, <2>1, <2>3 DEF IInv, DataInv, FreshInv, input
<1>10. FinishedInv'
  <2> SUFFICES ASSUME NEW e \in Events, NEW o \in Outputs, <<e, o>> \in copies,
                      ended'[e] \in {"finished", "dropped"}
               PROVE  <<e, o>> \in queued
    BY <1>1 DEF FinishedInv
  <2>1. CASE e = cur
    <3>1. failed = {}
      BY <1>3, <1>4, <2>1
    <3> QED
      BY <1>1, <2>1, <3>1 DEF IInv, DataInv, CopyInv
  <2>2. CASE e # cur
    BY <1>4, <2>2 DEF IInv, DataInv, FinishedInv
  <2> QED
    BY <2>1, <2>2
<1>11. EventInv'
  <2>1. \A e \in accepted : e \in Events
    BY DEF IInv, TypeOK
  <2> QED
    BY <1>1, <1>4, <2>1, ConfigFrame DEF IInv, DataInv, EventInv, Busy, runtime, channel
<1>12. RecordInv'
  <2> SUFFICES ASSUME config.error_log, NEW e \in Events, NEW o \in Outputs,
                      <<e, o>> \in copies
               PROVE  <<e, o>> \in queued \/ <<e, o>> \in reported'
    BY <1>1 DEF RecordInv, runtime
  <2>1. reported \subseteq reported'
    BY <1>1
  <2>2. CASE o \in failed /\ e = cur
    <3>1. CountedAs = "errored"
      BY <1>3, <2>2
    <3>2. <<e, o>> \in Records
      BY <2>2 DEF Records
    <3> QED
      BY <1>1, <3>1, <3>2
  <2>3. CASE ~(o \in failed /\ e = cur)
    BY <1>1, <2>1, <2>3 DEF IInv, DataInv, RecordInv, Busy
  <2> QED
    BY <2>2, <2>3
<1>13. QueuedInv'
  BY <1>1, ConfigFrame DEF IInv, DataInv, QueuedInv, runtime, sinks
<1> QED
  BY <1>5, <1>6, <1>7, <1>8, <1>9, <1>10, <1>11, <1>12, <1>13 DEF IInv, TaskInv, DataInv

\* An output takes a copy from its queue, and resolves it.
LEMMA SinkStep ==
    ASSUME IInv, NEW o \in Outputs, Consume(o) \/ Resolve(o)
    PROVE  IInv'
<1>1. /\ Live(o)
      /\ UNCHANGED <<runtime, input, channel, worker, open, accepted, copies, queued,
                     reported, ended>>
  BY DEF Consume, Resolve, history
<1>2. \/ \E e \in queue[o] :
            /\ hand[o] = 0 /\ queue' = [queue EXCEPT ![o] = @ \ {e}]
            /\ hand' = [hand EXCEPT ![o] = e] /\ resolved' = resolved
      \/ /\ hand[o] # 0 /\ queue' = queue /\ hand' = [hand EXCEPT ![o] = 0]
         /\ resolved' = resolved \cup {<<hand[o], o>>}
  BY DEF Consume, Resolve, history
<1>3. \A q \in Outputs : q # o => queue'[q] = queue[q] /\ hand'[q] = hand[q]
  BY <1>2 DEF IInv, TypeOK
<1>4. TypeOK'
  <2>1. queue' \in [Outputs -> SUBSET Events]
    BY <1>2 DEF IInv, TypeOK
  <2>2. hand' \in [Outputs -> 0 .. N]
    <3>1. queue[o] \subseteq 0 .. N /\ 0 \in 0 .. N
      BY DEF IInv, TypeOK, Events
    <3> QED
      BY <1>2, <3>1 DEF IInv, TypeOK
  <2>3. resolved' \in SUBSET Copies
    <3>1. hand[o] # 0 => hand[o] \in Events
      BY DEF IInv, TypeOK, Events
    <3> QED
      BY <1>2, <3>1 DEF IInv, TypeOK, Copies
  <2> QED
    BY <1>1, <2>1, <2>2, <2>3 DEF IInv, TypeOK, runtime, input, channel, worker
<1>5. OwnerInv' /\ StartInv'
  BY <1>1, TaskFrame DEF IInv, TaskInv, StartInv, runtime, channel
<1>6. StopInv'
  <2>1. \A q \in Outputs : ~Live(q) => hand'[q] = 0 /\ (Disk(q) \/ queue'[q] = {})
    BY <1>1, <1>3 DEF IInv, TaskInv, StopInv
  <2> QED
    BY <1>1, <2>1, ConfigFrame
       DEF IInv, TaskInv, StopInv, Live, runtime, input, channel, worker
<1>7. PermitInv' /\ FreshInv' /\ CopyInv' /\ FinishedInv'
  BY <1>1 DEF IInv, DataInv, PermitInv, FreshInv, CopyInv, FinishedInv, Seen, Busy,
     input, channel, worker
<1>8. EventInv' /\ RecordInv'
  BY <1>1, ConfigFrame
     DEF IInv, DataInv, EventInv, RecordInv, Busy, runtime, channel, worker
<1>9. QueuedInv'
  <2> SUFFICES ASSUME NEW e \in Events, NEW q \in Outputs, <<e, q>> \in queued,
                      OutputMustJoin(q)
               PROVE  <<e, q>> \in resolved' \/ e \in queue'[q] \/ hand'[q] = e
    BY <1>1, ConfigFrame DEF QueuedInv, runtime
  <2>1. <<e, q>> \in resolved \/ e \in queue[q] \/ hand[q] = e
    BY DEF IInv, DataInv, QueuedInv
  <2>2. resolved \subseteq resolved'
    BY <1>2
  <2>3. CASE q # o
    BY <1>3, <2>1, <2>2, <2>3
  <2>4. CASE q = o
    <3>1. e # 0
      BY DEF Events
    <3> QED
      BY <1>2, <2>1, <2>2, <2>4, <3>1 DEF IInv, TypeOK
  <2> QED
    BY <2>3, <2>4
<1> QED
  BY <1>4, <1>5, <1>6, <1>7, <1>8, <1>9 DEF IInv, TaskInv, DataInv

\* An abort only takes what belongs to a task that need not be joined.
LEMMA AbortStep ==
    ASSUME IInv, NEW t \in Tasks, AbortLands(t)
    PROVE  IInv'
<1>1. /\ t \in aborted /\ Live(t) /\ (t = "input" => ipc # "permit")
      /\ task' = [task EXCEPT ![t] = "ended"]
      /\ UNCHANGED <<config, phase, cause, reloads, shutdown, aborted,
                     received, history>>
  BY DEF AbortLands, End
<1>2. t \notin MustJoin
  BY <1>1 DEF IInv, TaskInv, OwnerInv
<1>3. \/ /\ t = "input" /\ ipc' = "recv"
         /\ UNCHANGED <<channel, worker, sinks>>
      \/ /\ t = "worker" /\ ~PipelineMustJoin
         /\ wpc' = "select" /\ cur' = 0 /\ todo' = {} /\ failed' = {}
         /\ term' = "Finished" /\ chan' = {} /\ chan_open' = FALSE
         /\ UNCHANGED <<ipc, sinks>>
      \/ /\ t \in Outputs /\ ~OutputMustJoin(t)
         /\ queue' = [queue EXCEPT ![t] = {}]
         /\ open' = [open EXCEPT ![t] = FALSE]
         /\ hand' = [hand EXCEPT ![t] = 0]
         /\ UNCHANGED <<ipc, channel, worker>>
  BY <1>2, MustJoinFacts DEF AbortLands
<1>4. \A u \in Tasks : task'[u] = IF u = t THEN "ended" ELSE task[u]
  BY <1>1 DEF IInv, TypeOK
<1>5. \/ chan' = chan /\ chan_open' = chan_open
         /\ UNCHANGED <<wpc, cur, todo, failed, term>>
      \/ /\ ~PipelineMustJoin /\ chan' = {} /\ wpc' = "select" /\ chan_open' = FALSE
         /\ cur' = 0 /\ todo' = {} /\ failed' = {} /\ term' = "Finished"
  BY <1>3 DEF channel, worker
<1>6. \A o \in Outputs :
         IF o = t THEN /\ queue'[o] = {} /\ hand'[o] = 0 /\ open'[o] = FALSE
                       /\ ~OutputMustJoin(o)
                  ELSE queue'[o] = queue[o] /\ hand'[o] = hand[o] /\ open'[o] = open[o]
  BY <1>3, MustJoinFacts DEF sinks, IInv, TypeOK
<1>7. TypeOK'
  <2>1. task' \in [Tasks -> {"none", "live", "ended"}]
    BY <1>1 DEF IInv, TypeOK
  <2>2. /\ ipc' \in {"recv", "send", "permit", "stuck"}
        /\ wpc' \in {"select", "enqueue"} /\ cur' \in 0 .. N
        /\ todo' \in SUBSET Outputs /\ failed' \in SUBSET Outputs
        /\ term' \in Terminations /\ chan_open' \in BOOLEAN
    <3>1. ipc' \in {"recv", "send", "permit", "stuck"}
      BY <1>3 DEF IInv, TypeOK
    <3>2. cur' \in 0 .. N
      BY <1>5 DEF IInv, TypeOK
    <3>3. /\ wpc' \in {"select", "enqueue"}
          /\ todo' \in SUBSET Outputs /\ failed' \in SUBSET Outputs
          /\ term' \in Terminations /\ chan_open' \in BOOLEAN
      BY <1>5, Zenon DEF IInv, TypeOK, Terminations
    <3> QED
      BY <3>1, <3>2, <3>3
  <2>3. chan' \in SUBSET Events /\ Cardinality(chan') <= Capacity
    <3>1. chan \in SUBSET Events /\ Cardinality(chan) <= Capacity
      BY DEF IInv, TypeOK
    <3>2. Cardinality({}) <= Capacity
      BY FS_EmptySet
    <3>3. chan' = chan \/ chan' = {}
      BY <1>5
    <3> QED
      BY <3>1, <3>2, <3>3
  <2>4. /\ queue' \in [Outputs -> SUBSET Events] /\ open' \in [Outputs -> BOOLEAN]
        /\ hand' \in [Outputs -> 0 .. N]
    <3>1. CASE UNCHANGED sinks
      BY <3>1 DEF IInv, TypeOK, sinks
    <3>2. CASE /\ t \in Outputs /\ queue' = [queue EXCEPT ![t] = {}]
               /\ open' = [open EXCEPT ![t] = FALSE] /\ hand' = [hand EXCEPT ![t] = 0]
      <4>1. 0 \in 0 .. N
        OBVIOUS
      <4> QED
        BY <3>2, <4>1 DEF IInv, TypeOK
    <3> QED
      BY <1>3, <3>1, <3>2
  <2> QED
    BY <1>1, <2>1, <2>2, <2>3, <2>4 DEF IInv, TypeOK, history
<1>8. OwnerInv'
  BY <1>1, <1>4, ConfigFrame, MustJoinFacts DEF IInv, TaskInv, OwnerInv, Live
<1>9. StartInv'
  BY <1>1, <1>4, <1>5, MustJoinFacts DEF IInv, TaskInv, StartInv, Live
<1>10. StopInv'
  <2>1. task'["input"] # "live" => ipc' = "recv"
    BY <1>1, <1>3, <1>4, MustJoinFacts DEF IInv, TaskInv, StopInv, Live
  <2>2. task'["worker"] # "live" => wpc' = "select"
    BY <1>3, <1>4, <1>5, MustJoinFacts DEF IInv, TaskInv, StopInv, Live, worker
  <2>3. task'["worker"] = "ended" =>
           ~chan_open' /\ (PipelineMustJoin => chan' = {} /\ ipc' # "permit")
    BY <1>3, <1>4, <1>5, MustJoinFacts DEF IInv, TaskInv, StopInv
  <2>4. \A o \in Outputs :
           /\ task'[o] # "live" => hand'[o] = 0 /\ (Disk(o) \/ queue'[o] = {})
           /\ task'[o] = "ended" => Disk(o) \/ ~open'[o]
    BY <1>4, <1>6, MustJoinFacts DEF IInv, TaskInv, StopInv, Live
  <2> QED
    BY <1>1, <2>1, <2>2, <2>3, <2>4, ConfigFrame DEF StopInv, Live
<1>11. PermitInv'
  BY <1>3, <1>5, FS_EmptySet DEF IInv, DataInv, PermitInv
<1>12. FreshInv'
  <2>1. ipc' = ipc \/ ipc' = "recv"
    BY <1>3
  <2>2. chan' \subseteq chan /\ (wpc' = "enqueue" => wpc = "enqueue" /\ cur' = cur)
    BY <1>5
  <2>3. \A e \in Events : (Seen(e)' => Seen(e)) /\ (Busy(e)' => Busy(e))
    BY <1>1, <2>2 DEF Seen, Busy, history
  <2>4. chan \subseteq Events
    BY DEF IInv, TypeOK
  <2> QED
    BY <1>1, <2>1, <2>2, <2>3, <2>4 DEF IInv, DataInv, FreshInv, history
<1>13. CopyInv' /\ FinishedInv'
  BY <1>1, <1>5 DEF IInv, DataInv, CopyInv, FinishedInv, history
<1>14. EventInv' /\ RecordInv'
  BY <1>1, <1>5, ConfigFrame, MustJoinFacts
     DEF IInv, DataInv, EventInv, RecordInv, Busy, history
<1>15. QueuedInv'
  BY <1>1, <1>6, ConfigFrame DEF IInv, DataInv, QueuedInv, history
<1> QED
  BY <1>7, <1>8, <1>9, <1>10, <1>11, <1>12, <1>13, <1>14, <1>15
     DEF IInv, TaskInv, DataInv

\* A reload or a rollback starts a fresh runtime: what was to be joined has
\* ended with nothing in hand, and the disk queues are kept.
LEMMA RestartStep ==
    ASSUME IInv, NextRuntime, phase' # "exited"
    PROVE  IInv'
<1>1. /\ phase = "down" /\ cause \in {"reload", "rollback"}
      /\ phase' = "starting" /\ UNCHANGED <<config, cause>>
      /\ shutdown' = FALSE /\ task' = [t \in Tasks |-> "none"]
      /\ aborted' = {}
      /\ ipc' = "recv" /\ chan' = {} /\ chan_open' = TRUE
      /\ wpc' = "select" /\ cur' = 0 /\ todo' = {} /\ failed' = {}
      /\ queue' = [o \in Outputs |-> IF Disk(o) THEN queue[o] ELSE {}]
      /\ open' = [o \in Outputs |-> TRUE]
      /\ hand' = [o \in Outputs |-> 0]
      /\ term' = "Finished" /\ UNCHANGED received
      /\ UNCHANGED <<reloads, history>>
  BY DEF NextRuntime
<1>2. PipelineMustJoin => chan = {} /\ wpc = "select"
  <2>1. PipelineMustJoin => ~Live("worker")
    BY <1>1, MustJoinFacts DEF IInv, TaskInv, OwnerInv
  <2> QED
    BY <2>1, MustJoinFacts DEF IInv, TypeOK, TaskInv, StartInv, StopInv, Live
<1>3. \A o \in Outputs : OutputMustJoin(o) => hand[o] = 0 /\ (Disk(o) \/ queue[o] = {})
  BY <1>1, MustJoinFacts DEF IInv, TaskInv, OwnerInv, StopInv
<1>4. TypeOK'
  <2>1. hand' \in [Outputs -> 0 .. N] /\ cur' \in 0 .. N
    BY <1>1
  <2>2. Cardinality(chan') <= Capacity
    BY <1>1, FS_EmptySet
  <2>3. queue' \in [Outputs -> SUBSET Events]
    BY <1>1 DEF IInv, TypeOK
  <2>4. task' \in [Tasks -> {"none", "live", "ended"}] /\ open' \in [Outputs -> BOOLEAN]
    BY <1>1
  <2> QED
    BY <1>1, <2>1, <2>2, <2>3, <2>4 DEF IInv, TypeOK, Terminations, history
<1>5. OwnerInv' /\ StartInv'
  BY <1>1, MustJoinFacts DEF OwnerInv, StartInv
<1>6. StopInv'
  BY <1>1, MustJoinFacts, ConfigFrame DEF StopInv, Live
<1>7. PermitInv' /\ CopyInv' /\ FinishedInv'
  BY <1>1 DEF IInv, DataInv, PermitInv, CopyInv, FinishedInv, history
<1>8. FreshInv'
  <2>1. \A e \in Events : Seen(e)' => Seen(e)
    BY <1>1 DEF Seen, Busy, history
  <2> QED
    BY <1>1, <2>1 DEF IInv, DataInv, FreshInv
<1>9. EventInv'
  BY <1>1, <1>2, MustJoinFacts, ConfigFrame DEF IInv, DataInv, EventInv, Busy, history
<1>10. RecordInv'
  BY <1>1, <1>2, MustJoinFacts DEF IInv, DataInv, RecordInv, Busy, history
<1>11. QueuedInv'
  <2> SUFFICES ASSUME NEW e \in Events, NEW o \in Outputs, <<e, o>> \in queued,
                      OutputMustJoin(o)
               PROVE  <<e, o>> \in resolved \/ e \in queue'[o]
    BY <1>1, ConfigFrame DEF QueuedInv, history
  <2>1. <<e, o>> \in resolved \/ e \in queue[o]
    BY <1>3 DEF IInv, DataInv, QueuedInv, Events
  <2> QED
    BY <1>1, <1>3, <2>1
<1> QED
  BY <1>4, <1>5, <1>6, <1>7, <1>8, <1>9, <1>10, <1>11 DEF IInv, TaskInv, DataInv

\* Every step of the tasks and of their owner.
LEMMA NextInv == IInv /\ [Next]_vars => IInv'
<1> SUFFICES ASSUME IInv, [Next]_vars PROVE IInv'
  OBVIOUS
<1>1. CASE UNCHANGED vars
  <2>1. DataInv'
    BY <1>1, DataFrame DEF vars, IInv
  <2>2. TypeOK'
    BY <1>1 DEF vars, IInv, TypeOK
  <2>3. OwnerInv' /\ StartInv' /\ StopInv'
    BY <1>1, ConfigFrame DEF vars, IInv, TaskInv, OwnerInv, StartInv, StopInv, Live
  <2> QED
    BY <2>1, <2>2, <2>3 DEF IInv, TaskInv
<1>2. CASE Input
  BY <1>2, InputStep, HangStep, EndStep DEF Input
<1>3. CASE Worker
  BY <1>3, CloseStep, TakeStep, EnqueueStep, AccountStep, EndStep DEF Worker
<1>4. CASE \E o \in Outputs : Sink(o) \/ Resolve(o)
  BY <1>4, CloseStep, SinkStep, EndStep DEF Sink
<1>5. CASE Startup
  BY <1>5, SpawnStep, OwnerStep DEF Startup
<1>6. CASE Cleanup
  BY <1>6, OwnerStep, RestartStep DEF Cleanup
<1>7. CASE \E t \in Tasks : AbortLands(t)
  BY <1>7, AbortStep
<1> QED
  BY <1>1, <1>2, <1>3, <1>4, <1>5, <1>6, <1>7, OwnerStep DEF Next

\* The invariant of the runtime, for every value of the constants.
THEOREM Invariance == Spec => []IInv
BY InitInv, NextInv, PTL DEF Spec

-----------------------------------------------------------------------------
(* The properties. *)

\* Type correctness: the input channel never exceeds its capacity, also with
\* a permit outstanding.
THEOREM TypeCorrect == Spec => []TypeOK
<1>1. IInv => TypeOK
  BY DEF IInv
<1> QED
  BY Invariance, <1>1, PTL

\* process_event_at counts an event as finished, or as dropped, only if every
\* copy its pipeline emitted was taken by a queue.
THEOREM FinishedEventsAreQueued == Spec => []FinishedIsQueued
<1>1. IInv => FinishedIsQueued
  <2> SUFFICES ASSUME IInv, NEW c \in copies, ended[c[1]] \in {"finished", "dropped"}
               PROVE  c \in queued
    BY DEF FinishedIsQueued
  <2>1. c \in Events \X Outputs
    BY DEF IInv, TypeOK, Copies
  <2>2. PICK e \in Events, o \in Outputs : c = <<e, o>>
    BY <2>1
  <2> QED
    BY <2>2 DEF IInv, DataInv, FinishedInv
<1> QED
  BY Invariance, <1>1, PTL

\* shutdown_tasks_with_progress loses nothing that a durable configuration
\* promises to keep: whatever order the stages notice the shutdown in,
\* whatever is aborted when the deadline passes, for a shutdown, a failed
\* start and a reload alike.
THEOREM NoEventVanishes == Spec => []NothingVanishes
<1>1. IInv => NothingVanishes
  <2> SUFFICES ASSUME IInv, phase = "down"
               PROVE  /\ Durable => \A e \in accepted : ended[e] # "none"
                      /\ config.error_log => copies \subseteq queued \cup reported
                      /\ \A c \in queued : OutputMustJoin(c[2]) =>
                           c \in resolved \/ (Disk(c[2]) /\ c[1] \in queue[c[2]])
    BY DEF NothingVanishes
  <2>1. PipelineMustJoin => chan = {} /\ wpc = "select"
    <3>1. PipelineMustJoin => ~Live("worker")
      BY MustJoinFacts DEF IInv, TaskInv, OwnerInv
    <3> QED
      BY <3>1, MustJoinFacts DEF IInv, TypeOK, TaskInv, StartInv, StopInv, Live
  <2>2. \A o \in Outputs : OutputMustJoin(o) => hand[o] = 0 /\ (Disk(o) \/ queue[o] = {})
    BY MustJoinFacts DEF IInv, TaskInv, OwnerInv, StopInv
  <2>3. \A c \in Copies : /\ c[1] \in Events /\ c[2] \in Outputs
                          /\ c = <<c[1], c[2]>>
    BY DEF Copies
  <2>4. copies \subseteq Copies /\ queued \subseteq Copies
    BY DEF IInv, TypeOK
  <2>5. Durable => \A e \in accepted : ended[e] # "none"
    BY <2>1, MustJoinFacts DEF IInv, DataInv, EventInv, Busy
  <2>6. config.error_log => copies \subseteq queued \cup reported
    <3> SUFFICES ASSUME config.error_log, NEW c \in copies
                 PROVE  c \in queued \/ c \in reported
      OBVIOUS
    <3>1. PICK e \in Events, o \in Outputs : c = <<e, o>>
      BY <2>3, <2>4
    <3> QED
      BY <2>1, <3>1, MustJoinFacts DEF IInv, DataInv, RecordInv, Busy
  <2>7. ASSUME NEW c \in queued, OutputMustJoin(c[2])
        PROVE  c \in resolved \/ (Disk(c[2]) /\ c[1] \in queue[c[2]])
    <3>1. PICK e \in Events, o \in Outputs : c = <<e, o>> /\ e = c[1] /\ o = c[2]
      BY <2>3, <2>4
    <3>2. e # 0
      BY DEF Events
    <3>3. <<e, o>> \in resolved \/ e \in queue[o] \/ hand[o] = e
      BY <2>7, <3>1 DEF IInv, DataInv, QueuedInv
    <3> QED
      BY <2>2, <2>7, <3>1, <3>2, <3>3
  <2> QED
    BY <2>5, <2>6, <2>7
<1> QED
  BY Invariance, <1>1, PTL
=============================================================================
