---------------------------- MODULE BatchedSink ----------------------------
(***************************************************************************)
(* The shared skeleton of the batched outputs (modules/output/batched.rs):  *)
(* the queue consumer parks (event, handle, permit) in a buffer, a          *)
(* long-lived flusher actor drains it in chunks of at most batch_size and   *)
(* sends each chunk with retries, and shutdown() or shutdown_wedged() stops *)
(* the actor and resolves what is left.                                     *)
(*                                                                          *)
(* Events are numbered in the order they are consumed.  The transport, the  *)
(* renderer and the dead-letter file are the environment: which events fail *)
(* to render, how a send ends and whether a DLQ write succeeds are free.    *)
(* Two threads run: the actor, and the caller (the consumer task, which     *)
(* consumes and later shuts down).  An action is what runs between awaits.  *)
(***************************************************************************)
EXTENDS Integers, Sequences, FiniteSets, SequencesExt

CONSTANTS
    Backends,       \* the queues considered behind the handles
    N,              \* bound: events ever consumed
    BatchSizes,     \* the values of batch_size considered
    MaxAttempts     \* RetryConfig::max_attempts

ASSUME BatchedSinkAssumption ==
    /\ Backends \subseteq {"memory", "disk"}
    /\ N \in Nat
    /\ BatchSizes \subseteq Nat \ {0}
    /\ MaxAttempts \in Nat \ {0}

Handles   == 1 .. N
Threads   == {"actor", "caller"}

VARIABLES
    config,         \* backend, batch_size, and whether a DLQ file is set
    signal,         \* the runtime's shutdown watch
    shutting,       \* is_shutting_down
    mode,           \* which shutdown was called: "none", "plain", "wedged"
    next,           \* events given to consume or consume_shutdown so far
    permits,        \* the events that hold a semaphore permit
    buffer,         \* the parked events
    flush_permit,   \* flush_notify's stored permit
    pc,             \* program counter of each thread
    arm,            \* the actor's wait_until_shutdown: off, loaded, parked, woken
    attempt,        \* the actor's send attempts for its batch
    rest,           \* of each thread: events drained, not yet in a chunk
    batch,          \* of each thread: the shippable part of its chunk
    route,          \* of each thread: events on their way to the DLQ
    ambiguous,      \* of each thread: is that route the ambiguous one?
    disp,           \* the disposition of each handle, "none" before
    written, failed,\* metrics: events_written, events_failed (sink side)
    confirmed,      \* history: records the peer's answers said it took
    maybe,          \* history: events in a send that was cut off
    dlq,            \* history: events with a DLQ record
    wedge_send      \* history: a send was entered after shutdown_wedged

Backend   == config.backend
BatchSize == config.batch_size
ErrorLog  == config.error_log
PermitCap == 2 * BatchSize

flags   == <<config, signal, shutting, mode>>
parked  == <<next, permits, buffer, flush_permit>>
work    == <<rest, batch, route, ambiguous>>
outcome == <<disp, written, failed, confirmed, maybe, dlq>>
vars    == <<config, signal, shutting, mode, next, permits, buffer,
             flush_permit, pc, arm, attempt, rest, batch, route, ambiguous, disp, written,
             failed, confirmed, maybe, dlq, wedge_send>>

Init ==
    /\ config \in [backend : Backends, batch_size : BatchSizes,
                   error_log : BOOLEAN]
    /\ signal = FALSE /\ shutting = FALSE /\ mode = "none"
    /\ next = 0 /\ permits = {} /\ buffer = <<>> /\ flush_permit = FALSE
    /\ pc = [actor |-> "check", caller |-> "idle"]
    /\ arm = "off" /\ attempt = 0
    /\ rest = [t \in Threads |-> <<>>]
    /\ batch = [t \in Threads |-> <<>>]
    /\ route = [t \in Threads |-> <<>>]
    /\ ambiguous = [t \in Threads |-> FALSE]
    /\ disp = [p \in Handles |-> "none"]
    /\ written = 0 /\ failed = 0 /\ confirmed = 0 /\ maybe = {} /\ dlq = {}
    /\ wedge_send = FALSE

Held == {p \in 1 .. next : disp[p] = "none"}

Goto(t, l) == pc' = [pc EXCEPT ![t] = l]

-----------------------------------------------------------------------------
(* The caller: consume, consume_shutdown. *)

\* The runtime's shutdown watch flips.
Signal ==
    /\ ~signal
    /\ signal' = TRUE
    /\ UNCHANGED <<config, shutting, mode, parked, pc, arm, attempt, work, outcome,
                   wedge_send>>

\* consume: wait for a permit unless shutdown is already under way.
Consume ==
    /\ pc["caller"] = "idle" /\ next < N
    /\ Goto("caller", "acquire")
    /\ UNCHANGED <<flags, parked, arm, attempt, work, outcome, wedge_send>>

\* Mutant of MayPark: consume returns whatever the flusher is doing.
MayParkUnbounded(p) == permits' = permits \cup {p}

\* Mutant of MayPark: the permit wait does not race the shutdown watch.
MayParkPermitOnly(p) ==
    /\ Cardinality(permits) < PermitCap
    /\ permits' = permits \cup {p}

\* The shutdown watch wins and no permit is taken, or one is acquired.
MayPark(p) ==
    \/ signal /\ UNCHANGED permits
    \/ /\ ~signal
       /\ Cardinality(permits) < PermitCap
       /\ permits' = permits \cup {p}

\* The push under the buffer's lock, and flush_notify.notify_one at the
\* threshold: it wakes the waiting actor or stores the permit.
Park ==
    /\ pc["caller"] = "acquire"
    /\ next' = next + 1
    /\ MayPark(next + 1)
    /\ buffer' = Append(buffer, next + 1)
    /\ IF Len(buffer') >= BatchSize
       THEN IF pc["actor"] = "wait"
            THEN /\ pc' = [actor |-> "take", caller |-> "idle"]
                 /\ UNCHANGED flush_permit
            ELSE Goto("caller", "idle") /\ flush_permit' = TRUE
       ELSE Goto("caller", "idle") /\ UNCHANGED flush_permit
    /\ UNCHANGED <<flags, arm, attempt, work, outcome, wedge_send>>

\* The consumer of a memory queue sees the signal and drains its queue ...
StartDrain ==
    /\ pc["caller"] = "idle" /\ signal /\ Backend = "memory"
    /\ Goto("caller", "drain")
    /\ UNCHANGED <<flags, parked, arm, attempt, work, outcome, wedge_send>>

\* ... with consume_shutdown: parked without a permit, waking nobody.
ConsumeShutdown ==
    /\ pc["caller"] = "drain" /\ next < N
    /\ next' = next + 1
    /\ buffer' = Append(buffer, next + 1)
    /\ UNCHANGED <<flags, permits, flush_permit, pc, arm, attempt, work,
                   outcome, wedge_send>>

-----------------------------------------------------------------------------
(* The actor's loop. *)

\* The flag is looked at before the actor waits ...
CheckFlag ==
    /\ pc["actor"] = "check"
    /\ Goto("actor", IF shutting THEN "exit" ELSE "arm")
    /\ UNCHANGED <<flags, parked, arm, attempt, work, outcome, wedge_send>>

\* ... for flush_notify; a stored permit ends the wait at once.
AwaitFlush ==
    /\ pc["actor"] = "arm"
    /\ Goto("actor", IF flush_permit THEN "take" ELSE "wait")
    /\ flush_permit' = FALSE
    /\ UNCHANGED <<flags, next, permits, buffer, arm, attempt, work, outcome,
                   wedge_send>>

\* batch_timeout.
Timer ==
    /\ pc["actor"] = "wait"
    /\ Goto("actor", "take")
    /\ UNCHANGED <<flags, parked, arm, attempt, work, outcome, wedge_send>>

\* Awake: exit if shutting down, else take the whole buffer.
TakeBuffer ==
    /\ pc["actor"] = "take"
    /\ \/ /\ shutting
          /\ Goto("actor", "exit")
          /\ UNCHANGED <<rest, buffer>>
       \/ /\ ~shutting
          /\ rest' = [rest EXCEPT !["actor"] = buffer]
          /\ buffer' = <<>>
          /\ Goto("actor", "chunk")
    /\ UNCHANGED <<flags, next, permits, flush_permit, arm, attempt, batch,
                   route, ambiguous, outcome, wedge_send>>

-----------------------------------------------------------------------------
(* One chunk: render, prepare, send, resolve.  Shared by both threads. *)

\* Where a thread goes with these events to route and to ship.
After(r, b) == IF r # <<>> THEN "routing"
               ELSE IF b # <<>> THEN "prepare" ELSE "chunk"

\* Mutant of ChunkLen: the drained buffer is sent as one request.
ChunkAll(t) == Len(rest[t])

\* hard_capped_batches: chunks of at most batch_size.
ChunkLen(t) == IF Len(rest[t]) < BatchSize THEN Len(rest[t]) ELSE BatchSize

\* The events of S in the order they were consumed, as vectors keep them.
InOrder(S) == {s \in SetToSeqs(S) : \A i, j \in 1 .. Len(s) : i < j => s[i] < s[j]}

\* Mutant of NextChunk: events that fail to render are passed over.
NextChunkSkipsBad(t) ==
    /\ pc[t] = "chunk" /\ rest[t] # <<>>
    /\ LET chunk == ToSet(SubSeq(rest[t], 1, ChunkLen(t))) IN
       \E bad \in SUBSET chunk : \E good \in InOrder(chunk \ bad) :
         /\ batch' = [batch EXCEPT ![t] = good]
         /\ permits' = permits \ bad
    /\ rest' = [rest EXCEPT ![t] = SubSeq(@, ChunkLen(t) + 1, Len(@))]
    /\ Goto(t, After(<<>>, batch'[t]))
    /\ UNCHANGED <<flags, next, buffer, flush_permit, arm, attempt, route,
                   ambiguous, outcome, wedge_send>>

\* render_batch: the events that fail to render give up their permit and are
\* routed to the DLQ first; the others are shippable.
NextChunk(t) ==
    /\ pc[t] = "chunk" /\ rest[t] # <<>>
    /\ LET chunk == ToSet(SubSeq(rest[t], 1, ChunkLen(t))) IN
       \E bad \in SUBSET chunk :
         /\ \E failing \in InOrder(bad) :
              route' = [route EXCEPT ![t] = failing]
         /\ \E shippable \in InOrder(chunk \ bad) :
              batch' = [batch EXCEPT ![t] = shippable]
         /\ permits' = permits \ bad
    /\ rest' = [rest EXCEPT ![t] = SubSeq(@, ChunkLen(t) + 1, Len(@))]
    /\ ambiguous' = [ambiguous EXCEPT ![t] = FALSE]
    /\ Goto(t, After(route'[t], batch'[t]))
    /\ UNCHANGED <<flags, next, buffer, flush_permit, arm, attempt, outcome,
                   wedge_send>>

\* Nothing is left: the actor loops, the shutdown returns.
ChunksDone(t) ==
    /\ pc[t] = "chunk" /\ rest[t] = <<>>
    /\ Goto(t, IF t = "actor" THEN "check" ELSE "done")
    /\ UNCHANGED <<flags, parked, arm, attempt, work, outcome, wedge_send>>

\* The whole shippable batch goes to the DLQ; the ambiguous route and the
\* shutdown route strip the permits first.
RouteBatch(t, amb) ==
    /\ route' = [route EXCEPT ![t] = batch[t]]
    /\ batch' = [batch EXCEPT ![t] = <<>>]
    /\ ambiguous' = [ambiguous EXCEPT ![t] = amb]
    /\ permits' = IF amb \/ t = "caller" THEN permits \ ToSet(batch[t])
                                         ELSE permits
    /\ Goto(t, "routing")

\* prepare: one request from the payloads.  A failure is deterministic, so no
\* attempt is spent.  The caller also gives up here when the deadline that its
\* chunks share has passed.
Prepare(t) ==
    /\ pc[t] = "prepare"
    /\ \/ /\ Goto(t, "send")
          /\ arm' = IF t = "actor" THEN "off" ELSE arm
          /\ attempt' = IF t = "actor" THEN 0 ELSE attempt
          /\ wedge_send' = (wedge_send \/ mode = "wedged")
          /\ UNCHANGED <<permits, batch, route, ambiguous>>
       \/ RouteBatch(t, FALSE) /\ UNCHANGED <<arm, attempt, wedge_send>>
    /\ UNCHANGED <<flags, next, buffer, flush_permit, rest, outcome>>

\* Mutant of SendOk: a partial success is taken for a success.
SendOkAll(t) ==
    /\ pc[t] = "send"
    /\ \E rejected \in 0 .. Len(batch[t]) :
         confirmed' = confirmed + Len(batch[t]) - rejected
    /\ disp' = [p \in Handles |->
                  IF p \in ToSet(batch[t]) THEN "Delivered" ELSE disp[p]]
    /\ written' = written + Len(batch[t])
    /\ permits' = permits \ ToSet(batch[t])
    /\ batch' = [batch EXCEPT ![t] = <<>>]
    /\ Goto(t, "chunk")
    /\ UNCHANGED <<flags, next, buffer, flush_permit, arm, attempt, rest,
                   route, ambiguous, failed, maybe, dlq, wedge_send>>

\* resolve_send_success: the peer may reject some records without saying
\* which; the last ones are taken for them and routed to the DLQ.
SendOk(t) ==
    /\ pc[t] = "send"
    /\ \E rejected \in 0 .. Len(batch[t]) :
         LET split == Len(batch[t]) - rejected
             accepted == ToSet(SubSeq(batch[t], 1, split)) IN
         /\ disp' = [p \in Handles |->
                       IF p \in accepted THEN "Delivered" ELSE disp[p]]
         /\ confirmed' = confirmed + split
         /\ written' = written + split
         /\ permits' = permits \ accepted
         /\ route' = [route EXCEPT ![t] =
                        SubSeq(batch[t], split + 1, Len(batch[t]))]
    /\ batch' = [batch EXCEPT ![t] = <<>>]
    /\ Goto(t, After(route'[t], <<>>))
    /\ UNCHANGED <<flags, next, buffer, flush_permit, arm, attempt, rest,
                   ambiguous, failed, maybe, dlq, wedge_send>>

\* The actor's attempt failed: back off, or give up when the budget is spent
\* or shutdown was signalled.
SendErr ==
    /\ pc["actor"] = "send"
    /\ attempt' = attempt + 1
    /\ \/ /\ attempt + 1 >= MaxAttempts \/ shutting
          /\ RouteBatch("actor", FALSE)
          /\ UNCHANGED arm
       \/ /\ attempt + 1 < MaxAttempts /\ ~shutting
          /\ Goto("actor", "backoff") /\ arm' = "off"
          /\ UNCHANGED <<permits, batch, route, ambiguous>>
    /\ UNCHANGED <<flags, next, buffer, flush_permit, rest, outcome,
                   wedge_send>>

\* wait_until_shutdown, raced against the send and against the backoff sleep:
\* the flag is loaded ...
LoadFlag ==
    /\ pc["actor"] \in {"send", "backoff"} /\ arm = "off"
    /\ arm' = IF shutting THEN "woken" ELSE "loaded"
    /\ UNCHANGED <<flags, parked, pc, attempt, work, outcome, wedge_send>>

\* Mutant of Register: no second look at the flag.
RegisterBlindly ==
    /\ pc["actor"] \in {"send", "backoff"} /\ arm = "loaded"
    /\ arm' = "parked"
    /\ UNCHANGED <<flags, parked, pc, attempt, work, outcome, wedge_send>>

\* ... and loaded again once notified() is registered.
Register ==
    /\ pc["actor"] \in {"send", "backoff"} /\ arm = "loaded"
    /\ arm' = IF shutting THEN "woken" ELSE "parked"
    /\ UNCHANGED <<flags, parked, pc, attempt, work, outcome, wedge_send>>

\* Mutant of SendCancelled: the cut-off batch is dead-lettered as Recovered.
SendCancelledPlain ==
    /\ pc["actor"] = "send" /\ arm = "woken"
    /\ maybe' = maybe \cup ToSet(batch["actor"])
    /\ RouteBatch("actor", FALSE)
    /\ UNCHANGED <<flags, next, buffer, flush_permit, arm, attempt, rest, disp,
                   written, failed, confirmed, dlq, wedge_send>>

\* Shutdown cuts off the actor's pending send; what the peer got is unknown.
SendCancelled ==
    /\ pc["actor"] = "send" /\ arm = "woken"
    /\ maybe' = maybe \cup ToSet(batch["actor"])
    /\ RouteBatch("actor", TRUE)
    /\ UNCHANGED <<flags, next, buffer, flush_permit, arm, attempt, rest, disp,
                   written, failed, confirmed, dlq, wedge_send>>

\* The backoff sleep elapses or shutdown wakes it; either way one more send.
BackoffEnds ==
    /\ pc["actor"] = "backoff"
    /\ Goto("actor", "send") /\ arm' = "off"
    /\ wedge_send' = (wedge_send \/ mode = "wedged")
    /\ UNCHANGED <<flags, parked, attempt, work, outcome>>

\* flush_events_at_shutdown: the caller's one attempt fails, or is cut off by
\* the deadline with the wire state unknown.
LastSendFails ==
    /\ pc["caller"] = "send"
    /\ \/ RouteBatch("caller", FALSE) /\ UNCHANGED maybe
       \/ /\ RouteBatch("caller", TRUE)
          /\ maybe' = maybe \cup ToSet(batch["caller"])
    /\ UNCHANGED <<flags, next, buffer, flush_permit, arm, attempt, rest, disp,
                   written, failed, confirmed, dlq, wedge_send>>

\* Mutant of DlqDisposition: the memory queue's fold is applied to any queue.
DlqAlwaysRecovered(dropped) == "Recovered"

\* resolve_ack_from_dlq_outcome: only a disk queue can hold its cursor.
DlqDisposition(dropped) ==
    IF dropped /\ Backend = "disk" THEN "Dropped" ELSE "Recovered"

\* DlqRouteOutcome: the ambiguous route always reports Dropped, the plain ones
\* when a DLQ file is configured and its write fails.  Without a file nothing
\* is written and the plain routes report Recovered.
RoutedAsDropped(amb, recorded) == amb \/ (ErrorLog /\ ~recorded)

\* Mutant of FailedDelta: counted here and again on the ack side.
FailedDeltaAlways(d) == 1

\* events_failed: a Dropped event is counted by the consumer instead.
FailedDelta(d) == IF d = "Recovered" THEN 1 ELSE 0

\* One event is routed to the DLQ (route_event_to_dlq and the two shutdown
\* routes) and its handle resolved.
RouteHead(t) ==
    /\ pc[t] = "routing"
    /\ LET p == Head(route[t]) IN
       \E recorded \in IF ErrorLog THEN BOOLEAN ELSE {FALSE} :
         LET d == DlqDisposition(RoutedAsDropped(ambiguous[t], recorded)) IN
         /\ dlq' = IF recorded THEN dlq \cup {p} ELSE dlq
         /\ disp' = [disp EXCEPT ![p] = d]
         /\ failed' = failed + FailedDelta(d)
         /\ permits' = permits \ {p}
    /\ route' = [route EXCEPT ![t] = Tail(@)]
    /\ Goto(t, After(Tail(route[t]), batch[t]))
    /\ UNCHANGED <<flags, next, buffer, flush_permit, arm, attempt, rest,
                   batch, ambiguous, written, confirmed, maybe, wedge_send>>

-----------------------------------------------------------------------------
(* shutdown() and shutdown_wedged(). *)

\* The consumer calls one of them after the shutdown signal, or when its queue
\* closed or it wedged and nothing is in flight.  The flag is set first.
BeginShutdown ==
    /\ \/ pc["caller"] = "drain"
       \/ pc["caller"] = "idle" /\ signal /\ Backend = "disk"
       \/ pc["caller"] = "idle" /\ Held = {}
    /\ \/ mode' = "plain"
       \/ mode' = "wedged" /\ \E p \in Handles : disp[p] = "Dropped"
    /\ shutting' = TRUE
    /\ Goto("caller", "notify")
    /\ UNCHANGED <<config, signal, parked, arm, attempt, work, outcome, wedge_send>>

\* notify_waiters on both Notifys: only who waits right now is woken.
NotifyWaiters ==
    /\ pc["caller"] = "notify"
    /\ pc' = [caller |-> "join",
              actor |-> IF pc["actor"] = "wait" THEN "take" ELSE pc["actor"]]
    /\ arm' = IF arm = "parked" THEN "woken" ELSE arm
    /\ UNCHANGED <<flags, parked, attempt, work, outcome, wedge_send>>

\* The actor has exited, or SHUTDOWN_FLUSH_ATTEMPT_TIMEOUT has passed; the
\* leftover is taken.  A wedged sink routes it at once, without any send.
Join ==
    /\ pc["caller"] = "join"
    /\ buffer' = <<>>
    /\ \/ /\ mode = "plain"
          /\ rest' = [rest EXCEPT !["caller"] = buffer]
          /\ Goto("caller", "chunk")
          /\ UNCHANGED <<permits, route, ambiguous>>
       \/ /\ mode = "wedged"
          /\ permits' = permits \ ToSet(buffer)
          /\ route' = [route EXCEPT !["caller"] = buffer]
          /\ ambiguous' = [ambiguous EXCEPT !["caller"] = TRUE]
          /\ Goto("caller", After(buffer, <<>>))
          /\ UNCHANGED rest
    /\ UNCHANGED <<flags, next, flush_permit, arm, attempt, batch, outcome,
                   wedge_send>>

\* Drop: the sink goes away without a completed shutdown.  The actor is
\* aborted and every handle left is resolved by its own Drop.
DropSink ==
    /\ pc["caller"] # "done"
    /\ shutting' = TRUE
    /\ pc' = [actor |-> "exit", caller |-> "done"]
    /\ disp' = [p \in Handles |-> IF p \in Held THEN "Dropped" ELSE disp[p]]
    /\ permits' = {} /\ buffer' = <<>>
    /\ rest' = [t \in Threads |-> <<>>]
    /\ batch' = [t \in Threads |-> <<>>]
    /\ route' = [t \in Threads |-> <<>>]
    /\ UNCHANGED <<config, signal, mode, next, flush_permit, arm, attempt, ambiguous,
                   written, failed, confirmed, maybe, dlq, wedge_send>>

-----------------------------------------------------------------------------
Actor == CheckFlag \/ AwaitFlush \/ Timer \/ TakeBuffer
         \/ NextChunk("actor") \/ ChunksDone("actor") \/ Prepare("actor")
         \/ RouteHead("actor") \/ SendOk("actor") \/ SendErr
         \/ LoadFlag \/ Register \/ SendCancelled \/ BackoffEnds

Caller == Consume \/ Park \/ StartDrain \/ ConsumeShutdown \/ BeginShutdown
          \/ NotifyWaiters \/ Join \/ NextChunk("caller") \/ ChunksDone("caller")
          \/ Prepare("caller") \/ RouteHead("caller") \/ SendOk("caller")
          \/ LastSendFails

Next == Signal \/ Actor \/ Caller \/ DropSink

Spec == Init /\ [][Next]_vars

\* Both tasks are scheduled and timers fire.  Nothing makes the peer answer
\* the actor: its send may stall for ever.  The caller's send has a deadline.
Fairness ==
    /\ WF_vars(Actor /\ pc["actor"] # "send")
    /\ WF_vars(LoadFlag \/ Register)
    /\ WF_vars(SendCancelled)
    /\ WF_vars(Park)
    /\ WF_vars(Caller /\ pc["caller"] \notin {"idle", "acquire", "drain"})

FairSpec == Spec /\ Fairness

-----------------------------------------------------------------------------
(* Properties *)

Pcs == {"idle", "acquire", "drain", "notify", "join", "check", "arm", "wait",
        "take", "chunk", "routing", "prepare", "send", "backoff", "exit", "done"}

\* Type invariant; a chunk, and so a request, never exceeds batch_size.
TypeOK ==
    /\ config \in [backend : Backends, batch_size : BatchSizes,
                   error_log : BOOLEAN]
    /\ signal \in BOOLEAN /\ shutting \in BOOLEAN
    /\ mode \in {"none", "plain", "wedged"}
    /\ next \in 0 .. N /\ permits \in SUBSET Handles
    /\ buffer \in Seq(Handles) /\ flush_permit \in BOOLEAN
    /\ pc \in [Threads -> Pcs]
    /\ arm \in {"off", "loaded", "parked", "woken"}
    /\ attempt \in 0 .. MaxAttempts
    /\ rest \in [Threads -> Seq(Handles)]
    /\ batch \in [Threads -> Seq(Handles)]
    /\ route \in [Threads -> Seq(Handles)]
    /\ ambiguous \in [Threads -> BOOLEAN]
    /\ disp \in [Handles -> {"none", "Delivered", "Recovered", "Dropped"}]
    /\ written \in Nat /\ failed \in Nat /\ confirmed \in Nat
    /\ maybe \in SUBSET Handles /\ dlq \in SUBSET Handles
    /\ wedge_send \in BOOLEAN
    /\ \A t \in Threads : Len(batch[t]) <= BatchSize

\* A parked event is never forgotten and never resolved twice: the sink takes
\* each handle once and gives back one disposition, and Delivered to no more
\* handles, and no fewer, than the peer took records, also when it took only a
\* part of the chunk.
Contract == INSTANCE AckContract WITH
                held <- Held, Unresolved <- "none", Delivered <- "Delivered",
                Dispositions <- {"Delivered", "Recovered", "Dropped"}

ImplementsContract == Contract!Spec

\* An unresolved handle is in exactly one place, and that place is one some
\* thread still has to work on.
OwnedOnce ==
    LET places == <<buffer, rest["actor"], batch["actor"], route["actor"],
                    rest["caller"], batch["caller"], route["caller"]>> IN
    \A p \in 1 .. N :
      Cardinality({i \in 1 .. 7 : p \in ToSet(places[i])})
        = IF p \in Held THEN 1 ELSE 0

\* batched.rs: Recovered after a cut-off send "would fabricate an
\* at-least-once guarantee that lets a partial-wire success be replayed and
\* double-delivered".  On a disk queue no event of such a send is Recovered.
NoFabricatedRecovery ==
    Backend = "disk" => \A p \in maybe : disp[p] \in {"none", "Dropped"}

\* With a DLQ file, a disk cursor only passes an undelivered event once its
\* record is written.
RecoveredIsOnRecord ==
    (Backend = "disk" /\ ErrorLog) =>
        \A p \in Handles : disp[p] = "Recovered" => p \in dlq

\* The metrics agree with the dispositions whatever mix of partial successes,
\* render failures and shutdown routes resolved the events.
MetricsExact ==
    /\ written = Cardinality({p \in Handles : disp[p] = "Delivered"})
    /\ failed = Cardinality({p \in Handles : disp[p] = "Recovered"})

\* Backpressure: until shutdown the sink owns at most twice batch_size events,
\* but for those on their way to the DLQ (one chunk at most), which may have
\* given their permit back.
OwnershipBound ==
    ~signal /\ ~shutting =>
        Cardinality(Held \ ToSet(route["actor"])) <= PermitCap

\* Output::shutdown_wedged: "No new delivery attempt.  Implementations MUST
\* NOT enter `policy.send` / `flush_events` / any transport call."
NoSendAfterWedge == ~wedge_send

\* Once shutdown is signalled to the sink every handle is resolved, although
\* the peer may never answer a send.
ShutdownResolves == shutting ~> (Held = {})

\* A consume that waits for a permit comes back when the daemon shuts down,
\* although the peer may never answer and no permit come free; and until then
\* only the peer can keep it waiting: the flusher, woken by a full batch or by
\* the timer, is on its way to a send, never waiting for more events itself.
ConsumeReturns ==
    /\ (pc["caller"] = "acquire" /\ signal) ~> (pc["caller"] # "acquire")
    /\ (pc["caller"] = "acquire") ~> (pc["caller"] # "acquire" \/ pc["actor"] = "send")
=============================================================================
