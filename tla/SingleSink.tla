---------------------------- MODULE SingleSink ----------------------------
(***************************************************************************)
(* The unbatched outputs: syslog_tcp, syslog_udp, unix_socket, ltp, kafka,  *)
(* file and stdout.  The queue consumer hands them one event at a time, and *)
(* consume() returns when its handle is resolved: an attempt, retries with  *)
(* a backoff, the dead-letter file at last.  While a memory queue is        *)
(* drained at shutdown, consume_shutdown() makes one attempt with a         *)
(* deadline instead.                                                        *)
(*                                                                          *)
(* An attempt is a row of tries: over the peers of syslog_peers.rs that are *)
(* not cooling down, on a cached connection and then a new one              *)
(* (persistent_conn.rs), or a single one.  A try connects if it has to and  *)
(* writes one frame.  Up to the write, shutdown is watched; the write       *)
(* itself ends with all of the frame written, or with some or none of it.   *)
(* The peers, timers and the dead-letter file are the environment.          *)
(***************************************************************************)
EXTENDS Integers, FiniteSets

CONSTANTS
    OutputKinds,    \* the outputs considered
    NPeers,         \* peers of a syslog output
    N,              \* bound: events given to the output
    MaxAttempts     \* RetryConfig::max_attempts

ASSUME SingleSinkAssumption ==
    /\ OutputKinds \subseteq {"tcp", "udp", "unix", "ltp", "kafka", "file", "stdout"}
    /\ {NPeers, MaxAttempts} \subseteq Nat \ {0} /\ N \in Nat

VARIABLES
    config,         \* kind, backend, whether a DLQ file is set, healthy peers
    signal,         \* the runtime's shutdown watch
    drain,          \* is the consumer draining with consume_shutdown?
    next,           \* events given so far; the last one is the current one
    pc,
    attempt,        \* failed attempts for the current event
    cursor,         \* PeerList::cursor, modulo the number of peers
    at, left,       \* the peer of this try, and the tries left with it
    conn,           \* of each peer: its cached connection, "none" or how the last
                    \* frame on it ended; for file and stdout, what they append to
    cooled,         \* peers in cooldown
    disp,           \* the disposition of each handle, "none" before
    written, failed,\* metrics: events_written, events_failed (sink side)
    dlq,            \* history: events with a DLQ record
    partial,        \* history: bytes may have got out in this attempt
    blurred,        \* history: a "nothing was sent" shutdown after such bytes
    begun,          \* history: bytes of the current event have got out
    redone,         \* history: more bytes of an event got out after that
    glued           \* history: how the frame before a frame on its stream ended

Kind     == config.kind
Handles  == 1 .. N
Peers    == 1 .. NPeers
Rotating == Kind \in {"tcp", "udp"}
PeersOf(kind) == IF kind \in {"tcp", "udp"} THEN Peers ELSE {1}

Connects == Kind \in {"tcp", "udp", "unix", "ltp"}
Streams  == Kind \in {"tcp", "unix", "ltp", "file", "stdout"}    \* frame behind frame
Endings  == {"whole", "error", "timeout", "deadline", "interrupted"}

tries   == <<cursor, at, left>>
wire    == <<conn, cooled>>
outcome == <<disp, written, failed, dlq>>
history == <<partial, blurred, begun, redone, glued>>
vars    == <<config, signal, drain, next, pc, attempt, cursor, at, left, conn,
             cooled, disp, written, failed, dlq, partial, blurred, begun, redone, glued>>

Init ==
    /\ config \in [kind : OutputKinds, backend : {"memory", "disk"},
                   error_log : BOOLEAN, healthy : SUBSET Peers]
    /\ config.healthy \subseteq PeersOf(Kind) /\ Cardinality(config.healthy) <= 1
    /\ signal = FALSE /\ drain = FALSE /\ next = 0 /\ pc = "idle" /\ attempt = 0
    /\ cursor = 1 /\ at = 1 /\ left = 0
    /\ conn = [p \in Peers |-> IF Connects THEN "none" ELSE "whole"] /\ cooled = {}
    /\ disp = [e \in Handles |-> "none"] /\ written = 0 /\ failed = 0 /\ dlq = {}
    /\ partial = FALSE /\ blurred = FALSE
    /\ begun = FALSE /\ redone = FALSE /\ glued = {}

Steady == ~drain
Told   == Steady /\ signal      \* consume() looks at the watch, the drain does not

----------------------------------------------------------------------------
(* The consumer. *)

Signal ==
    /\ ~signal /\ signal' = TRUE
    /\ UNCHANGED <<config, drain, next, pc, attempt, tries, wire, outcome, history>>

\* Only the consumer of a memory queue drains: a disk queue keeps its events.
StartDrain ==
    /\ pc = "idle" /\ signal /\ Steady /\ config.backend = "memory"
    /\ drain' = TRUE
    /\ UNCHANGED <<config, signal, next, pc, attempt, tries, wire, outcome, history>>

\* file: its path may not render; ltp: the frame may be over the limit.
MayReject == Kind \in {"file", "ltp"}

\* consume, consume_shutdown.  What can never be written is routed at once.
Consume ==
    /\ pc = "idle" /\ next < N
    /\ next' = next + 1 /\ attempt' = 0 /\ begun' = FALSE
    /\ pc' = "attempt" \/ (MayReject /\ pc' = "route")
    /\ UNCHANGED <<config, signal, drain, tries, wire, outcome>>
    /\ UNCHANGED <<partial, blurred, redone, glued>>

\* The shutdown deadline passes: a consumer whose loss the configuration
\* accepts is aborted, and the handle it holds is dropped.
Abort ==
    /\ signal /\ pc \notin {"idle", "stopped"}
    /\ config.backend = "memory" /\ Kind # "file" /\ ~config.error_log
    /\ pc' = "stopped" /\ disp' = [disp EXCEPT ![next] = "Dropped"]
    /\ UNCHANGED <<config, signal, drain, next, attempt, tries, wire>>
    /\ UNCHANGED <<written, failed, dlq, history>>

----------------------------------------------------------------------------
(* One attempt. *)

Tries == CASE Rotating                           -> NPeers
           [] Kind = "unix" /\ conn[1] # "none" -> 2
           [] OTHER                              -> 1

After(p) == (p % NPeers) + 1

BeginAttempt ==
    /\ pc = "attempt" /\ pc' = "try"
    /\ left' = Tries
    /\ at' = IF Rotating THEN cursor ELSE 1
    /\ cursor' = IF Rotating THEN After(cursor) ELSE cursor
    /\ partial' = FALSE
    /\ UNCHANGED <<config, signal, drain, next, attempt, wire, outcome>>
    /\ UNCHANGED <<blurred, begun, redone, glued>>

\* PreSendShutdown, and what stdout makes of it.
PreSendShutdown ==
    /\ pc' = "route" /\ blurred' = (blurred \/ partial)
    /\ UNCHANGED <<attempt, tries, cooled, partial, begun, redone, glued>>

\* Where the watch is looked at before a try; unix_socket looks only when it
\* has a cached connection, file never.
Looks == Kind \in {"tcp", "udp", "ltp", "kafka", "stdout"}
         \/ (Kind = "unix" /\ conn[at] # "none")

NextPeerUnwrapped == at' = at + 1
NextPeer == at' = IF Rotating THEN After(at) ELSE at

Try ==
    /\ pc = "try" /\ left > 0
    /\ \/ Told /\ Looks /\ PreSendShutdown /\ UNCHANGED conn
       \/ /\ ~(Told /\ Looks) /\ at \in cooled
          /\ left' = left - 1 /\ NextPeer
          /\ UNCHANGED <<pc, attempt, cursor, wire, history>>
       \/ /\ ~(Told /\ Looks) /\ at \notin cooled
          /\ pc' = IF Connects /\ conn[at] = "none" THEN "connect" ELSE "write"
          /\ UNCHANGED <<attempt, tries, wire, history>>
    /\ UNCHANGED <<config, signal, drain, next, outcome>>

TryFailsCoolsNext ==
    /\ pc' = "try" /\ left' = left - 1 /\ NextPeer
    /\ cooled' = IF Rotating THEN cooled \cup {at'} ELSE cooled
    /\ UNCHANGED <<attempt, cursor>>

\* The try is over without success: the peer cools down, the next one comes.
TryFails ==
    /\ pc' = "try" /\ left' = left - 1 /\ NextPeer
    /\ cooled' = IF Rotating THEN cooled \cup {at} ELSE cooled
    /\ UNCHANGED <<attempt, cursor>>

Sick == at \notin config.healthy

\* TCP connect and TLS handshake, name lookup, credentials of the peer.
\* unix_socket and ltp look at the watch again before they write.
Connect ==
    /\ pc = "connect"
    /\ \/ /\ ~(Told /\ Kind \in {"unix", "ltp"})
          /\ conn' = [conn EXCEPT ![at] = "whole"] /\ pc' = "write"
          /\ UNCHANGED <<attempt, tries, cooled, history>>
       \/ /\ Told /\ PreSendShutdown
          /\ conn' = [conn EXCEPT ![at] = IF Kind = "unix" THEN "whole" ELSE "none"]
       \/ Told /\ PreSendShutdown /\ UNCHANGED conn
       \/ Sick /\ TryFails /\ UNCHANGED <<conn, history>>
    /\ UNCHANGED <<config, signal, drain, next, outcome>>

----------------------------------------------------------------------------
(* The write of a frame. *)

Resolve(d) == disp' = [disp EXCEPT ![next] = d]

\* History: bytes of a frame get out, behind whatever is there.
BytesOut ==
    /\ partial' = TRUE /\ begun' = TRUE
    /\ redone' = (redone \/ begun)
    /\ glued' = IF Streams THEN glued \cup {conn[at]} ELSE glued
    /\ UNCHANGED blurred

WriteOk ==
    /\ pc = "write" /\ pc' = "idle"
    /\ Resolve("Delivered") /\ written' = written + 1
    /\ BytesOut /\ cooled' = cooled \ {at}
    /\ UNCHANGED <<config, signal, drain, next, attempt, tries, conn, failed, dlq>>

\* An unsuccessful write got some bytes out (b), or none: a datagram goes or not.
Spills   == IF Kind = "udp" THEN {FALSE} ELSE BOOLEAN
Spill(b) == IF b THEN BytesOut ELSE UNCHANGED history

\* What an unsuccessful write leaves of the stream it was on.
Kept(b, how) == conn' = [conn EXCEPT ![at] = IF b /\ Streams THEN how ELSE @]
Dropped      == conn' = [conn EXCEPT ![at] = "none"]

\* stdout does not repeat a line it has begun, nor after the shutdown.
Ends(b) == Kind = "stdout" /\ Steady /\ (b \/ signal)

\* An error closes the connection.  Only write_with_reconnect, in the drain of
\* unix_socket, leaves the one it has just made in the cache.
BrokenKept(b)    == Kept(b, "error")
BrokenDropped(b) ==
    IF Kind = "unix" /\ drain /\ left = 1 THEN Kept(b, "error") ELSE Dropped

WriteFails ==
    /\ pc = "write" /\ Connects /\ Sick /\ TryFails
    /\ \E b \in Spills : Spill(b) /\ BrokenDropped(b)
    /\ UNCHANGED <<config, signal, drain, next, outcome>>

\* The append to a file or to stdout fails, or the broker's report does.
\* Nothing is closed: the next append goes behind what was written.
AppendFails ==
    /\ pc = "write" /\ ~Connects /\ Sick
    /\ \E b \in Spills :
         /\ Spill(b) /\ Kept(b, "error")
         /\ IF Ends(b) THEN pc' = "route" /\ UNCHANGED <<attempt, tries, cooled>>
                       ELSE TryFails
    /\ UNCHANGED <<config, signal, drain, next, outcome>>

\* PEER_WRITE_TIMEOUT.  syslog_tcp leaves its closure with `?` and keeps the
\* connection.
WriteTimesOut ==
    /\ pc = "write" /\ Kind \in {"tcp", "ltp"} /\ Sick /\ TryFails
    /\ \E b \in Spills :
         Spill(b) /\ (IF Kind = "ltp" THEN Dropped ELSE Kept(b, "timeout"))
    /\ UNCHANGED <<config, signal, drain, next, outcome>>

\* stdout waits for the pipe to be writable and for the shutdown.
WriteInterrupted ==
    /\ pc = "write" /\ Kind = "stdout" /\ Told
    /\ \E b \in Spills : Spill(b) /\ Kept(b, "interrupted")
    /\ pc' = "route"
    /\ UNCHANGED <<config, signal, drain, next, attempt, tries, cooled, outcome>>

\* SHUTDOWN_FLUSH_ATTEMPT_TIMEOUT cuts the attempt of consume_shutdown where
\* it is; ltp has taken its stream out of the cache before.
DrainTimesOut ==
    /\ drain /\ Connects /\ pc \in {"try", "connect", "write"} /\ pc' = "route"
    /\ IF pc = "write"
       THEN \E b \in Spills :
              Spill(b) /\ (IF Kind = "ltp" THEN Dropped ELSE Kept(b, "deadline"))
       ELSE UNCHANGED <<conn, history>>
    /\ UNCHANGED <<config, signal, drain, next, attempt, tries, cooled, outcome>>

----------------------------------------------------------------------------
(* After the attempt. *)

AttemptFailsUncounted ==
    /\ pc = "try" /\ left = 0
    /\ attempt' = attempt
    /\ pc' = IF drain \/ attempt' >= MaxAttempts THEN "route" ELSE "backoff"
    /\ UNCHANGED <<config, signal, drain, next, tries, wire, outcome, history>>

AttemptFails ==
    /\ pc = "try" /\ left = 0
    /\ attempt' = IF drain THEN attempt ELSE attempt + 1
    /\ pc' = IF drain \/ attempt' >= MaxAttempts THEN "route" ELSE "backoff"
    /\ UNCHANGED <<config, signal, drain, next, tries, wire, outcome, history>>

\* sleep_or_shutdown.
Backoff ==
    /\ pc = "backoff"
    /\ pc' = "attempt" \/ (signal /\ pc' = "route")
    /\ UNCHANGED <<config, signal, drain, next, attempt, tries, wire, outcome, history>>

\* An error in the drain may have got bytes out: these outputs report Dropped.
Ambiguous == drain /\ Kind \in {"tcp", "unix", "ltp", "kafka"}

\* A DLQ record that cannot be written is Dropped too.  A memory queue cannot
\* hold its cursor and takes Dropped for Recovered.
Disposition(recorded) ==
    IF config.backend = "disk" /\ (Ambiguous \/ (config.error_log /\ ~recorded))
    THEN "Dropped" ELSE "Recovered"

\* route_event_to_dlq, then the handle is resolved.
Route ==
    /\ pc = "route" /\ pc' = "idle"
    /\ \E recorded \in IF config.error_log THEN BOOLEAN ELSE {FALSE} :
         /\ Resolve(Disposition(recorded))
         /\ failed' = failed + (IF Disposition(recorded) = "Recovered" THEN 1 ELSE 0)
         /\ dlq' = IF recorded THEN dlq \cup {next} ELSE dlq
    /\ UNCHANGED <<config, signal, drain, next, attempt, tries, wire, written, history>>

\* PEER_COOLDOWN is over.  An attempt compares with the time it began.
CooledDown(p) ==
    /\ p \in cooled /\ pc \in {"idle", "backoff"} /\ cooled' = cooled \ {p}
    /\ UNCHANGED <<config, signal, drain, next, pc, attempt, tries, conn, outcome, history>>

----------------------------------------------------------------------------
Write == WriteOk \/ WriteFails \/ AppendFails \/ WriteTimesOut \/ WriteInterrupted
Own   == BeginAttempt \/ Try \/ AttemptFails \/ Backoff \/ Route

Next == \/ Signal \/ StartDrain \/ Consume \/ Abort \/ Own \/ Connect \/ Write \/ DrainTimesOut
        \/ \E p \in Peers : CooledDown(p)

Spec == Init /\ [][Next]_vars

\* A connect or a write that ends whatever the peer does: it has a timeout, or
\* watches for the shutdown.  In consume() the write of unix_socket and the send
\* of syslog_udp have neither, and the connect of unix_socket has only the
\* watch; of the writes of file and stdout nothing else is assumed.
Deadline == \/ Kind \in {"tcp", "ltp", "kafka"}
            \/ Kind \in {"udp", "unix"} /\ drain
            \/ Kind = "udp" /\ pc = "connect"
            \/ Kind = "unix" /\ pc = "connect" /\ Told
            \/ Kind = "stdout" /\ Told

\* The consumer task is scheduled and backoffs end; so do connects and writes
\* with a deadline.
FairSpec ==
    /\ Spec /\ WF_vars(Own)
    /\ WF_vars((Connect \/ Write \/ DrainTimesOut) /\ pc \in {"connect", "write"} /\ Deadline)

----------------------------------------------------------------------------
(* Properties *)

TypeOK ==
    /\ Kind \in OutputKinds /\ signal \in BOOLEAN /\ drain \in BOOLEAN
    /\ pc \in {"idle", "attempt", "try", "connect", "write", "backoff", "route", "stopped"}
    /\ next \in 0 .. N /\ attempt \in 0 .. MaxAttempts
    /\ {cursor, at} \subseteq Peers /\ left \in 0 .. NPeers + 1
    /\ conn \in [Peers -> {"none"} \cup Endings] /\ cooled \subseteq Peers
    /\ disp \in [Handles -> {"none", "Delivered", "Recovered", "Dropped"}]
    /\ glued \subseteq Endings /\ dlq \subseteq Handles

\* As long as one peer takes every frame and nothing shuts down, rotation and
\* cooldown of the others cost no event: every one is delivered to it or to
\* another, and none goes to the DLQ.
HealthyPeerDelivers ==
    config.healthy # {} /\ ~signal /\ Kind \notin {"file", "ltp"} =>
        \A e \in Handles : disp[e] \in {"none", "Delivered"}

\* With a DLQ file, a disk cursor only passes an undelivered event once its
\* record is written, whichever way consume() ended.
RecoveredIsOnRecord ==
    config.backend = "disk" /\ config.error_log =>
        \A e \in Handles : disp[e] = "Recovered" => e \in dlq

\* Each event given is counted once, as written or as failed, unless its
\* handle was dropped (then the consumer counts it).
MetricsExact ==
    /\ written = Cardinality({e \in Handles : disp[e] = "Delivered"})
    /\ failed  = Cardinality({e \in Handles : disp[e] = "Recovered"})

\* "Nothing was written to the wire on this call" (PreSendShutdown of
\* persistent_conn.rs, and of PeerSendError): true but for the two outputs
\* that go on to another try after a write that failed half way.
PreSendIsHonest == blurred => Kind \in {"tcp", "unix"}

\* What an unbatched output tells the queue, the metrics and the DLQ is so, in
\* every order of failures, retries and shutdown.
Honest == HealthyPeerDelivers /\ RecoveredIsOnRecord /\ MetricsExact /\ PreSendIsHonest

\* What a frame may be written behind: a whole frame, or the part of one that
\* was cut short in a way that leaves the stream in use.
MayFollow ==
    {"whole"}
    \cup (IF Kind = "tcp" THEN {"timeout", "deadline"} ELSE {})
    \cup (IF Kind = "unix" THEN {"deadline"} \cup (IF drain THEN {"error"} ELSE {}) ELSE {})
    \cup (IF Kind = "file" THEN {"error"} ELSE {})
    \cup (IF Kind = "stdout" THEN {"error", "interrupted"} ELSE {})

\* Nothing is written on a connection behind the first part of a frame after a
\* write error ("Cached stream is invalidated", WriteReconnectOutcome), but for
\* the one unix_socket made in the drain.  A frame cut off by a timer is another
\* matter: syslog_tcp keeps the connection after PEER_WRITE_TIMEOUT, and both
\* after the drain's deadline.  file and stdout have nothing to close and append
\* behind what is there; stdout never repeats a line that it has begun
\* (consume_nonblocking), and udp has nothing to begin.
WholeFrames ==
    /\ glued \subseteq MayFollow
    /\ redone => Kind \notin {"stdout", "udp"}

\* consume() and consume_shutdown() come back with the handle resolved, or are
\* in a connect or a write that nothing bounds.
ConsumeReturns ==
    (pc # "idle") ~>
        (pc \in {"idle", "stopped"} \/ (pc \in {"connect", "write"} /\ ~Deadline))
=============================================================================
