--------------------------- MODULE ListenerInput ---------------------------
(***************************************************************************)
(* The inputs that listen on a socket and keep no position: syslog_tcp and  *)
(* ltp accept connections up to max_connections and run a task for each;    *)
(* udp.rs and unix_socket read datagrams in the input task itself.  An ltp  *)
(* connection that has said hello is entered in the registry of its peer,   *)
(* which holds two: a third evicts the oldest, whose task is aborted        *)
(* wherever it waits and whose lease is released when it is dropped.        *)
(*                                                                          *)
(* Connections are numbered as they are accepted; one is activated once, so *)
(* its number stands for its generation too.  All ltp connections are of    *)
(* one peer: the registry treats every peer by itself.                      *)
(***************************************************************************)
EXTENDS AckPath, FiniteSets

CONSTANTS
    MaxConnections, \* max_connections
    MaxAccepts,     \* bound: connections ever accepted
    MaxFrames       \* bound: frames and datagrams ever received

VARIABLES
    source,         \* "syslog_tcp", "ltp", "udp" or "unix_socket"
    lpc,            \* where run() is
    handles,        \* conn_handles, connections: the tasks it knows of
    conns,          \* of each connection: where its task is
    aborted,        \* the tasks on which abort() was called
    registry,       \* by_spki of the peer: established connections, oldest first
    frames,
    counted,        \* metrics: events_received
    taken,          \* history: events the pipeline channel took
    refused         \* history: a connection was refused with room for it

connVars     == <<handles, conns, aborted, registry>>
listenerVars == <<source, lpc, handles, conns, aborted, registry, frames,
                  counted, taken, refused>>

Conns      == 1 .. MaxAccepts
Streaming  == source \in {"syslog_tcp", "ltp"}
Running    == {c \in Conns : conns[c] \in {"hello", "read", "send"}}

ListenerInit ==
    /\ source \in {"syslog_tcp", "ltp", "udp", "unix_socket"} /\ lpc = "select"
    /\ handles = {} /\ conns = [c \in Conns |-> "none"] /\ aborted = {}
    /\ registry = <<>> /\ frames = 0 /\ counted = 0 /\ taken = 0 /\ refused = FALSE

----------------------------------------------------------------------------
(* The accept loop. *)

\* The handles that are counted against the limit.  ltp sweeps out those of
\* finished tasks when a connection comes, syslog_tcp before it waits for one.
Counting == IF source = "ltp" THEN handles \cap Running ELSE handles

Accept(c) ==
    /\ Streaming /\ lpc = "select" /\ ~shutdown
    /\ conns[c] = "none" /\ \A d \in 1 .. c - 1 : conns[d] # "none"
    /\ IF Cardinality(Counting) >= MaxConnections
       THEN /\ conns' = [conns EXCEPT ![c] = "done"]
            /\ refused' = (refused \/ Cardinality(Running) < MaxConnections)
            /\ handles' = handles \cap Running
       ELSE /\ conns' = [conns EXCEPT ![c] = "hello"] /\ UNCHANGED refused
            /\ handles' = (handles \cap Running) \cup {c}
    /\ UNCHANGED <<source, lpc, aborted, registry, frames, counted, taken>>
    /\ UNCHANGED pathVars

\* Shutdown: every task is aborted, and run() returns without waiting for them.
StopListening ==
    /\ lpc = "select" /\ shutdown /\ lpc' = "stopped"
    /\ aborted' = aborted \cup (handles \cap Running)
    /\ UNCHANGED <<source, handles, conns, registry, frames, counted, taken, refused>>
    /\ UNCHANGED pathVars

----------------------------------------------------------------------------
(* A connection's task. *)

\* activate: the registry holds two, the oldest goes and is aborted.
Activate(c) ==
    LET full == Len(registry) = 2 IN
    /\ registry' = Append(IF full THEN Tail(registry) ELSE registry, c)
    /\ aborted' = IF full THEN aborted \cup {Head(registry)} ELSE aborted

\* TLS handshake and hello, or the detection of the framing.
Hello(c) ==
    /\ conns[c] = "hello" /\ conns' = [conns EXCEPT ![c] = "read"]
    /\ IF source = "ltp" THEN Activate(c) ELSE UNCHANGED <<registry, aborted>>
    /\ UNCHANGED <<source, lpc, handles, frames, counted, taken, refused>>
    /\ UNCHANGED pathVars

ReleaseFront(c) == registry' = IF registry = <<>> THEN registry ELSE Tail(registry)

\* Drop of the lease: release removes the connection if it is still there.
Release(c) ==
    \/ c \notin ToSet(registry) /\ UNCHANGED registry
    \/ \E i \in DOMAIN registry : registry[i] = c /\ registry' = RemoveAt(registry, i)

Closed(c) ==
    /\ conns' = [conns EXCEPT ![c] = "done"] /\ aborted' = aborted \ {c}
    /\ IF conns[c] = "hello" THEN UNCHANGED registry ELSE Release(c)

\* The task ends by itself: end of stream, an error, an invalid frame, or a
\* timeout (of the handshake and the hello; with syslog_tcp also an idle one).
Hangup(c) ==
    /\ conns[c] \in {"hello", "read"} /\ Closed(c)
    /\ UNCHANGED <<source, lpc, handles, frames, counted, taken, refused>>
    /\ UNCHANGED pathVars

\* A frame that is to be forwarded has been read.
ReadFrame(c) ==
    /\ conns[c] = "read" /\ frames < MaxFrames /\ frames' = frames + 1
    /\ conns' = [conns EXCEPT ![c] = "send"]
    /\ UNCHANGED <<source, lpc, handles, aborted, registry, counted, taken, refused>>
    /\ UNCHANGED pathVars

\* The event has no handle: nothing is acknowledged to a peer.
Datum == [line |-> 0, ack |-> <<>>]

Forward(c) ==
    /\ conns[c] = "send"
    /\ \/ /\ Send(Datum) /\ conns' = [conns EXCEPT ![c] = "read"]
          /\ counted' = counted + 1 /\ taken' = taken + 1
          /\ UNCHANGED <<aborted, registry>>
       \/ ~chan_open /\ Closed(c) /\ UNCHANGED <<chan, counted, taken>>
    /\ UNCHANGED <<source, lpc, handles, frames, refused>>
    /\ UNCHANGED <<shutdown, chan_open, cur, tap, shared, acks, processed>>

\* An abort takes effect where the task waits; what it had read is gone.
AbortLands(c) ==
    /\ c \in aborted /\ c \in Running /\ Closed(c)
    /\ UNCHANGED <<source, lpc, handles, frames, counted, taken, refused>>
    /\ UNCHANGED pathVars

----------------------------------------------------------------------------
(* Datagrams: counted before they are sent. *)

Receive ==
    /\ ~Streaming /\ lpc = "select" /\ ~shutdown
    /\ frames < MaxFrames /\ frames' = frames + 1
    /\ counted' = counted + 1 /\ lpc' = "send"
    /\ UNCHANGED <<source, connVars, taken, refused>> /\ UNCHANGED pathVars

SendDatagram ==
    /\ lpc = "send"
    /\ \/ /\ ~(source = "udp" /\ shutdown) /\ Send(Datum)
          /\ taken' = taken + 1 /\ lpc' = "select"
       \/ /\ ~chan_open \/ (source = "udp" /\ shutdown)
          /\ lpc' = "stopped" /\ UNCHANGED <<chan, taken>>
    /\ UNCHANGED <<source, connVars, frames, counted, refused>>
    /\ UNCHANGED <<shutdown, chan_open, cur, tap, shared, acks, processed>>

----------------------------------------------------------------------------
\* Peers connect, send and hang up as they like.
PeerStep     == Receive \/ \E c \in Conns : Accept(c) \/ Hello(c) \/ Hangup(c) \/ ReadFrame(c)
ListenerStep == StopListening \/ SendDatagram
                \/ \E c \in Conns : Forward(c) \/ AbortLands(c)

\* The registry holds the established connections of the peer, at most two,
\* but for those that were evicted and are being aborted: neither a lease that
\* is dropped late nor an eviction takes another connection's place away.
RegistryExact ==
    LET established == {c \in Conns : conns[c] \in {"read", "send"}}
        registered  == ToSet(registry)
    IN source = "ltp" =>
         /\ Len(registry) = Cardinality(registered) /\ Len(registry) <= 2
         /\ registered \subseteq established
         /\ established \ registered \subseteq aborted
         /\ lpc = "select" => registered \cap aborted = {}

\* No more tasks run than max_connections allows, and a connection is refused
\* only when that many run.  Not so in syslog_tcp, which counts tasks that have
\* finished since it began to wait.
ConnectionsBounded ==
    /\ Cardinality(Running) <= MaxConnections
    /\ refused => source = "syslog_tcp"

\* events_received is the number of events the pipeline was given; a datagram
\* input has counted the one it holds, or the one it dropped as it stopped.
ReceivedIsCounted ==
    IF Streaming \/ lpc = "select" THEN counted = taken
                                   ELSE counted \in taken .. taken + 1

\* What a listening input keeps account of is so, in every order of accepts,
\* evictions, late releases, aborts and shutdown.
ListenersExact == RegistryExact /\ ConnectionsBounded /\ ReceivedIsCounted
=============================================================================
