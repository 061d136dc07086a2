------------------------- MODULE ListenerInputProofs -------------------------
(***************************************************************************)
(* The accounts a listening input keeps, for any number of connections,     *)
(* frames and any limit on connections.                                     *)
(***************************************************************************)
EXTENDS Inputs, FiniteSetTheorems, SequenceTheorems, TLAPS

\* The connections that have said hello.
Established == {c \in Conns : conns[c] \in {"read", "send"}}

\* The shape of a listener's state.
ListenerType ==
    /\ source \in ListenerKinds /\ lpc \in {"select", "send", "stopped"}
    /\ handles \subseteq Conns /\ aborted \subseteq Conns
    /\ conns \in [Conns -> {"none", "hello", "read", "send", "done"}]
    /\ counted \in Nat /\ taken \in Nat /\ refused \in BOOLEAN

\* A registry is a sequence of at most two connections, all different.
Registry(r) ==
    /\ r \in Seq(Conns) /\ Len(r) <= 2
    /\ \A i, j \in 1 .. Len(r) : r[i] = r[j] => i = j

\* The registry and the tasks being aborted.  While run() accepts, abort() was
\* called for evicted connections only, and one that is still to say hello is
\* in neither.
RegistryInv ==
    /\ Registry(registry) /\ ToSet(registry) \subseteq Established
    /\ source = "ltp" => /\ Established \ ToSet(registry) \subseteq aborted
                         /\ lpc = "select" => aborted \subseteq Established \ ToSet(registry)

\* run() has a handle of every task that runs.
HandlesInv ==
    /\ Running \subseteq handles
    /\ ~Streaming => Running = {}
    /\ Cardinality(Running) <= MaxConnections
    /\ refused => source = "syslog_tcp"

\* A datagram is counted before it is sent.
CountInv ==
    /\ Streaming => lpc # "send"
    /\ Streaming \/ lpc = "select" => counted = taken
    /\ lpc = "send" => counted = taken + 1
    /\ counted \in taken .. taken + 1

\* The inductive invariant.
LInv == ListenerType /\ RegistryInv /\ HandlesInv /\ CountInv

-----------------------------------------------------------------------------
(* The registry of a peer. *)

\* A number that is at most two.
LEMMA UpToTwo ==
    \A n \in Nat : n <= 2 => /\ n \in {0, 1, 2}
                             /\ n # 2 => n \in {0, 1}
                             /\ \A i \in 1 .. n : n \in {1, 2}
  OBVIOUS

\* Elements of a sequence, by their places.
LEMMA Places ==
    ASSUME NEW S, NEW s \in Seq(S)
    PROVE  /\ DOMAIN s = 1 .. Len(s) /\ Len(s) \in Nat
           /\ \A x : x \in ToSet(s) <=> \E i \in 1 .. Len(s) : s[i] = x
           /\ \A i \in 1 .. Len(s) : s[i] \in S
  BY DEF ToSet

\* The elements of a short sequence.
LEMMA ShortSets ==
    ASSUME NEW S, NEW s \in Seq(S)
    PROVE  /\ Len(s) = 0 => ToSet(s) = {}
           /\ Len(s) = 1 => ToSet(s) = {s[1]}
           /\ Len(s) = 2 => ToSet(s) = {s[1], s[2]}
<1>1. \A x : x \in ToSet(s) <=> \E i \in 1 .. Len(s) : s[i] = x
  BY Places
<1>2. CASE Len(s) = 0
  BY <1>1, <1>2
<1>3. CASE Len(s) = 1
  BY <1>1, <1>3
<1>4. CASE Len(s) = 2
  <2>1. 1 .. 2 = {1, 2}
    OBVIOUS
  <2> QED
    BY <1>1, <1>4, <2>1
<1> QED
  BY <1>2, <1>3, <1>4

\* What an append does.
LEMMA OneMore ==
    ASSUME NEW u \in Seq(Conns), NEW c \in Conns
    PROVE  /\ Append(u, c) \in Seq(Conns)
           /\ Len(u) = 1 => /\ Len(Append(u, c)) = 2
                            /\ Append(u, c)[1] = u[1] /\ Append(u, c)[2] = c
<1>1. /\ Append(u, c) \in Seq(Conns) /\ Len(Append(u, c)) = Len(u) + 1 /\ Len(u) \in Nat
      /\ \A i \in 1 .. Len(u) : Append(u, c)[i] = u[i]
      /\ Append(u, c)[Len(u) + 1] = c
  BY AppendProperties
<1>2. CASE Len(u) = 1
  <2>1. Len(u) + 1 = 2 /\ 1 \in 1 .. Len(u)
    BY <1>2
  <2> QED
    BY <1>1, <1>2, <2>1
<1> QED
  BY <1>1, <1>2

\* release() takes the connection out and no other one.
LEMMA ReleaseRemoves ==
    ASSUME Registry(registry), NEW c \in Conns, Release(c)
    PROVE  Registry(registry') /\ ToSet(registry') = ToSet(registry) \ {c}
<1>1. CASE c \notin ToSet(registry) /\ UNCHANGED registry
  BY <1>1
<1>2. ASSUME NEW i \in DOMAIN registry, registry[i] = c, registry' = RemoveAt(registry, i)
      PROVE  Registry(registry') /\ ToSet(registry') = ToSet(registry) \ {c}
  <2>1. Len(registry) \in {1, 2} /\ i \in 1 .. Len(registry) /\ registry \in Seq(Conns)
    <3>1. registry \in Seq(Conns) /\ Len(registry) <= 2
      BY DEF Registry
    <3>2. Len(registry) \in Nat /\ i \in 1 .. Len(registry)
      BY <1>2, <3>1
    <3> QED
      BY <3>1, <3>2, UpToTwo
  <2>2. CASE Len(registry) = 1
    <3>1. registry' \in Seq(Conns) /\ Len(registry') = 0
      BY <1>2, <2>1, <2>2 DEF RemoveAt
    <3>2. ToSet(registry) = {c} /\ ToSet(registry') = {}
      BY <1>2, <2>1, <2>2, <3>1, ShortSets
    <3> QED
      BY <3>1, <3>2 DEF Registry
  <2>3. CASE Len(registry) = 2
    <3> DEFINE k == 3 - i
    <3>1. /\ registry' \in Seq(Conns) /\ Len(registry') = 1 /\ registry'[1] = registry[k]
          /\ k \in 1 .. 2 /\ k # i
      <4>1. CASE i = 1
        BY <1>2, <2>1, <2>3, <4>1 DEF RemoveAt
      <4>2. CASE i = 2
        BY <1>2, <2>1, <2>3, <4>2 DEF RemoveAt
      <4> QED
        BY <2>1, <2>3, <4>1, <4>2
    <3>2. ToSet(registry') = {registry[k]} /\ ToSet(registry) = {registry[k], c} /\ registry[k] # c
      BY <1>2, <2>1, <2>3, <3>1, ShortSets DEF Registry
    <3> HIDE DEF k
    <3> QED
      BY <3>1, <3>2 DEF Registry
  <2> QED
    BY <2>1, <2>2, <2>3
<1> QED
  BY <1>1, <1>2 DEF Release

\* activate() enters the connection, and with a third one the oldest goes.
LEMMA ActivateEnters ==
    ASSUME Registry(registry), NEW c \in Conns, c \notin ToSet(registry), Activate(c)
    PROVE  /\ Registry(registry')
           /\ \E gone \in SUBSET ToSet(registry) :
                /\ ToSet(registry') = (ToSet(registry) \ gone) \cup {c}
                /\ aborted' = aborted \cup gone
<1>1. registry \in Seq(Conns) /\ Len(registry) \in Nat
  BY Places DEF Registry
<1>2. CASE Len(registry) # 2
  <2>1. registry' = Append(registry, c) /\ aborted' = aborted /\ Len(registry) \in {0, 1}
    <3>1. registry' = Append(registry, c) /\ aborted' = aborted
      BY <1>2 DEF Activate
    <3>2. Len(registry) <= 2
      BY DEF Registry
    <3> QED
      BY <1>1, <1>2, <3>1, <3>2, UpToTwo
  <2>2. CASE Len(registry) = 0
    <3>1. registry' \in Seq(Conns) /\ Len(registry') = 1 /\ registry'[1] = c
      BY <1>1, <2>1, <2>2
    <3>2. ToSet(registry) = {} /\ ToSet(registry') = {c}
      BY <1>1, <2>2, <3>1, ShortSets
    <3>3. Registry(registry')
      BY <3>1 DEF Registry
    <3> QED
      BY <2>1, <3>2, <3>3
  <2>3. CASE Len(registry) = 1
    <3>1. registry' \in Seq(Conns) /\ Len(registry') = 2 /\ registry'[1] = registry[1] /\ registry'[2] = c
      BY <1>1, <2>1, <2>3, OneMore
    <3>2. ToSet(registry) = {registry[1]} /\ ToSet(registry') = {registry[1], c}
      BY <1>1, <2>3, <3>1, ShortSets
    <3>3. registry[1] # c
      BY <3>2
    <3>4. Registry(registry')
      BY <3>1, <3>3 DEF Registry
    <3>5. {} \in SUBSET ToSet(registry) /\ ToSet(registry') = (ToSet(registry) \ {}) \cup {c} /\ aborted' = aborted \cup {}
      BY <2>1, <3>2
    <3> QED
      BY <3>4, <3>5
  <2> QED
    BY <2>1, <2>2, <2>3
<1>3. CASE Len(registry) = 2
  <2>1. /\ registry' = Append(Tail(registry), c) /\ aborted' = aborted \cup {Head(registry)}
        /\ Head(registry) = registry[1]
    BY <1>1, <1>3 DEF Activate
  <2>2. Tail(registry) \in Seq(Conns) /\ Len(Tail(registry)) = 1 /\ Tail(registry)[1] = registry[2]
    BY <1>1, <1>3
  <2>3. /\ registry' \in Seq(Conns) /\ Len(registry') = 2
        /\ registry'[1] = registry[2] /\ registry'[2] = c
    BY <2>1, <2>2, OneMore
  <2>4. ToSet(registry) = {registry[1], registry[2]} /\ ToSet(registry') = {registry[2], c}
    BY <1>1, <1>3, <2>3, ShortSets
  <2>5. registry[1] # registry[2]
    BY <1>3 DEF Registry
  <2>6. registry[2] # c /\ registry[1] # c
    BY <2>4
  <2>7. Registry(registry')
    BY <2>3, <2>6 DEF Registry
  <2>8. /\ {registry[1]} \in SUBSET ToSet(registry)
        /\ ToSet(registry') = (ToSet(registry) \ {registry[1]}) \cup {c}
    BY <2>4, <2>5, <2>6
  <2> QED
    BY <2>1, <2>7, <2>8
<1> QED
  BY <1>2, <1>3

-----------------------------------------------------------------------------
(* Steps. *)

\* What a connection's move does to the sets of connections.
LEMMA Moves ==
    ASSUME ListenerType, NEW c \in Conns, NEW v \in {"hello", "read", "send", "done"},
           conns' = [conns EXCEPT ![c] = v]
    PROVE  /\ conns' \in [Conns -> {"none", "hello", "read", "send", "done"}]
           /\ Running' = IF v = "done" THEN Running \ {c} ELSE Running \cup {c}
           /\ Established' = IF v \in {"read", "send"} THEN Established \cup {c}
                                                       ELSE Established \ {c}
<1>1. /\ conns \in [Conns -> {"none", "hello", "read", "send", "done"}]
      /\ conns' \in [Conns -> {"none", "hello", "read", "send", "done"}]
      /\ conns'[c] = v /\ \A d \in Conns : d # c => conns'[d] = conns[d]
  BY DEF ListenerType
<1>2. Running' = IF v = "done" THEN Running \ {c} ELSE Running \cup {c}
  BY <1>1 DEF Running
<1>3. Established' = IF v \in {"read", "send"} THEN Established \cup {c}
                                               ELSE Established \ {c}
  BY <1>1 DEF Established
<1> QED
  BY <1>1, <1>2, <1>3

\* The connections are finitely many, and so are those that run.
LEMMA FiniteConns ==
    ASSUME NEW T \in SUBSET Conns
    PROVE  IsFiniteSet(T) /\ Cardinality(T) \in Nat
<1>1. MaxAccepts \in Nat
  BY InputsAssumption
<1>2. IsFiniteSet(Conns)
  BY <1>1, FS_Interval DEF Conns
<1> QED
  BY <1>2, FS_Subset, FS_CardinalityType

\* Steps of the other inputs, of the worker and of the taps leave a listener be.
LEMMA OnlyListenerSteps ==
    ASSUME [Next]_vars
    PROVE  ListenerStep \/ PeerStep \/ UNCHANGED listenerVars
  BY DEF Next, vars, InputStep, Environment, PathStep

\* A task that ends: the connection is nowhere any more.
LEMMA ClosedKeeps ==
    ASSUME LInv, NEW c \in Running, Closed(c), UNCHANGED <<source, lpc, handles, refused>>
    PROVE  /\ conns' \in [Conns -> {"none", "hello", "read", "send", "done"}]
           /\ aborted' \subseteq Conns /\ RegistryInv' /\ HandlesInv'
<1> USE DEF LInv
<1>1. c \in Conns /\ conns[c] \in {"hello", "read", "send"} /\ ListenerType
  BY DEF Running
<1>2. /\ conns' \in [Conns -> {"none", "hello", "read", "send", "done"}]
      /\ Running' = Running \ {c} /\ Established' = Established \ {c}
  BY <1>1, Moves DEF Closed
<1>3. aborted' = aborted \ {c} /\ aborted \subseteq Conns
  BY DEF Closed, ListenerType
<1>4. Registry(registry) /\ ToSet(registry) \subseteq Established
  BY DEF RegistryInv
<1>5. Registry(registry') /\ ToSet(registry') = ToSet(registry) \ {c}
  <2>1. CASE conns[c] = "hello"
    <3>1. UNCHANGED registry /\ c \notin Established
      BY <2>1 DEF Closed, Established
    <3> QED
      BY <1>4, <3>1
  <2>2. CASE conns[c] # "hello"
    BY <1>1, <1>4, <2>2, ReleaseRemoves DEF Closed
  <2> QED
    BY <2>1, <2>2
<1>6. RegistryInv'
  BY <1>2, <1>3, <1>4, <1>5 DEF RegistryInv
<1>7. HandlesInv'
  <2>1. Running \subseteq Conns
    BY DEF Running
  <2>2. Running' \subseteq Running /\ Cardinality(Running') <= Cardinality(Running)
    BY <1>2, <2>1, FiniteConns, FS_Subset
  <2>3. Cardinality(Running') <= MaxConnections
    <3>1. Cardinality(Running) \in Nat /\ Cardinality(Running') \in Nat /\ MaxConnections \in Nat
      BY <2>1, <2>2, FiniteConns, InputsAssumption
    <3> QED
      BY <2>2, <3>1 DEF HandlesInv
  <2> QED
    BY <2>2, <2>3 DEF HandlesInv, Streaming
<1> QED
  BY <1>2, <1>3, <1>6, <1>7

\* A connection comes: it is refused or there is room for its task.
LEMMA AcceptKeeps ==
    ASSUME LInv, NEW c \in Conns, Accept(c)
    PROVE  LInv'
<1>1. /\ ListenerType /\ RegistryInv /\ HandlesInv /\ CountInv
      /\ Streaming /\ lpc = "select" /\ conns[c] = "none"
      /\ UNCHANGED <<source, lpc, aborted, registry, counted, taken>>
  BY DEF LInv, Accept
<1>2. c \notin Running /\ c \notin Established /\ Running \subseteq Conns
  BY <1>1 DEF Running, Established
<1>3. CountInv'
  BY <1>1 DEF CountInv, Streaming
<1>4. /\ Cardinality(Running) \in Nat /\ Cardinality(Counting) \in Nat /\ MaxConnections \in Nat
      /\ Cardinality(Running) <= Cardinality(Counting)
      /\ source = "ltp" => Counting = Running
  <2>1. Running \subseteq handles /\ handles \subseteq Conns
    BY <1>1 DEF HandlesInv, ListenerType
  <2>2. Running \subseteq Counting /\ Counting \subseteq Conns /\ (source = "ltp" => Counting = Running)
    BY <2>1 DEF Counting
  <2> QED
    BY <1>2, <2>2, FiniteConns, FS_Subset, InputsAssumption
<1>5. CASE Cardinality(Counting) >= MaxConnections
  <2>1. /\ conns' = [conns EXCEPT ![c] = "done"] /\ handles' = handles \cap Running
        /\ refused' = (refused \/ Cardinality(Running) < MaxConnections)
    BY <1>5 DEF Accept
  <2>2. /\ conns' \in [Conns -> {"none", "hello", "read", "send", "done"}]
        /\ Running' = Running /\ Established' = Established
    <3>1. /\ conns' \in [Conns -> {"none", "hello", "read", "send", "done"}]
          /\ Running' = Running \ {c} /\ Established' = Established \ {c}
      BY <1>1, <2>1, Moves
    <3> QED
      BY <1>2, <3>1
  <2>3. ListenerType'
    <3>1. refused' \in BOOLEAN
      BY <2>1
    <3> QED
      BY <1>1, <2>1, <2>2, <3>1 DEF ListenerType
  <2>4. RegistryInv'
    BY <1>1, <2>2 DEF RegistryInv
  <2>5. refused' => source' = "syslog_tcp"
    <3>1. source = "ltp" => ~(Cardinality(Running) < MaxConnections)
      BY <1>4, <1>5
    <3> QED
      BY <1>1, <2>1, <3>1 DEF HandlesInv, Streaming
  <2>6. HandlesInv'
    BY <1>1, <2>1, <2>2, <2>5 DEF HandlesInv, Streaming
  <2> QED
    BY <1>3, <2>3, <2>4, <2>6 DEF LInv
<1>6. CASE ~(Cardinality(Counting) >= MaxConnections)
  <2>1. /\ conns' = [conns EXCEPT ![c] = "hello"] /\ handles' = (handles \cap Running) \cup {c}
        /\ UNCHANGED refused
    BY <1>6 DEF Accept
  <2>2. /\ conns' \in [Conns -> {"none", "hello", "read", "send", "done"}]
        /\ Running' = Running \cup {c} /\ Established' = Established
    <3>1. /\ conns' \in [Conns -> {"none", "hello", "read", "send", "done"}]
          /\ Running' = Running \cup {c} /\ Established' = Established \ {c}
      BY <1>1, <2>1, Moves
    <3> QED
      BY <1>2, <3>1
  <2>3. ListenerType'
    BY <1>1, <2>1, <2>2 DEF ListenerType
  <2>4. RegistryInv'
    BY <1>1, <2>2 DEF RegistryInv
  <2>5. Cardinality(Running') <= MaxConnections
    <3>1. Cardinality(Running') = Cardinality(Running) + 1
      BY <1>2, <2>2, FiniteConns, FS_AddElement
    <3> QED
      BY <1>4, <1>6, <3>1
  <2>6. HandlesInv'
    BY <1>1, <2>1, <2>2, <2>5 DEF HandlesInv, Streaming
  <2> QED
    BY <1>3, <2>3, <2>4, <2>6 DEF LInv
<1> QED
  BY <1>5, <1>6

\* Hello: an ltp connection is entered in the registry.
LEMMA HelloKeeps ==
    ASSUME LInv, NEW c \in Conns, Hello(c)
    PROVE  LInv'
<1>1. /\ ListenerType /\ RegistryInv /\ HandlesInv /\ CountInv
      /\ conns[c] = "hello" /\ conns' = [conns EXCEPT ![c] = "read"]
      /\ UNCHANGED <<source, lpc, handles, counted, taken, refused>>
  BY DEF LInv, Hello
<1>2. c \in Running /\ c \notin Established
  BY <1>1 DEF Running, Established
<1>3. /\ conns' \in [Conns -> {"none", "hello", "read", "send", "done"}]
      /\ Running' = Running /\ Established' = Established \cup {c}
  <2>1. /\ conns' \in [Conns -> {"none", "hello", "read", "send", "done"}]
        /\ Running' = Running \cup {c} /\ Established' = Established \cup {c}
    BY <1>1, Moves
  <2> QED
    BY <1>2, <2>1
<1>4. HandlesInv' /\ CountInv'
  BY <1>1, <1>3 DEF HandlesInv, CountInv, Streaming
<1>5. aborted' \subseteq Conns /\ RegistryInv'
  <2>1. CASE source = "ltp"
    <3>1. /\ Registry(registry) /\ ToSet(registry) \subseteq Established /\ Activate(c)
          /\ c \notin ToSet(registry)
      BY <1>1, <1>2, <2>1 DEF RegistryInv, Hello
    <3>2. /\ Registry(registry')
          /\ \E gone \in SUBSET ToSet(registry) :
               /\ ToSet(registry') = (ToSet(registry) \ gone) \cup {c}
               /\ aborted' = aborted \cup gone
      BY <3>1, ActivateEnters
    <3>3. PICK gone \in SUBSET ToSet(registry) :
               /\ ToSet(registry') = (ToSet(registry) \ gone) \cup {c}
               /\ aborted' = aborted \cup gone
      BY <3>2
    <3>4. aborted' \subseteq Conns
      BY <1>1, <3>1, <3>3 DEF ListenerType, Established
    <3>5. /\ ToSet(registry') \subseteq Established'
          /\ Established' \ ToSet(registry') \subseteq aborted'
      BY <1>1, <1>3, <2>1, <3>1, <3>3 DEF RegistryInv
    <3>6. lpc = "select" => aborted' \subseteq Established' \ ToSet(registry')
      BY <1>1, <1>2, <1>3, <2>1, <3>1, <3>3 DEF RegistryInv
    <3> QED
      BY <1>1, <3>2, <3>4, <3>5, <3>6 DEF RegistryInv
  <2>2. CASE source # "ltp"
    <3>1. UNCHANGED <<registry, aborted>>
      BY <2>2 DEF Hello
    <3> QED
      BY <1>1, <1>3, <2>2, <3>1 DEF RegistryInv, ListenerType
  <2> QED
    BY <2>1, <2>2
<1> QED
  BY <1>1, <1>3, <1>4, <1>5 DEF LInv, ListenerType

\* A task that moves between reading and sending.
LEMMA TaskMoves ==
    ASSUME LInv, NEW c \in Conns, conns[c] \in {"read", "send"},
           NEW v \in {"read", "send"}, conns' = [conns EXCEPT ![c] = v],
           UNCHANGED <<source, lpc, handles, aborted, registry, refused>>,
           counted' \in Nat, taken' \in Nat, CountInv'
    PROVE  LInv'
<1>1. ListenerType /\ RegistryInv /\ HandlesInv /\ c \in Running /\ c \in Established
  BY DEF LInv, Running, Established
<1>2. /\ conns' \in [Conns -> {"none", "hello", "read", "send", "done"}]
      /\ Running' = Running /\ Established' = Established
  <2>1. /\ conns' \in [Conns -> {"none", "hello", "read", "send", "done"}]
        /\ Running' = Running \cup {c} /\ Established' = Established \cup {c}
    BY <1>1, Moves
  <2> QED
    BY <1>1, <2>1
<1>3. ListenerType'
  BY <1>1, <1>2 DEF ListenerType
<1>4. RegistryInv' /\ HandlesInv'
  BY <1>1, <1>2 DEF RegistryInv, HandlesInv, Streaming
<1> QED
  BY <1>3, <1>4 DEF LInv

\* A task that ends, where nothing is counted.
LEMMA TaskEnds ==
    ASSUME LInv, NEW c \in Conns, conns[c] \in {"hello", "read", "send"}, Closed(c),
           UNCHANGED <<source, lpc, handles, counted, taken, refused>>
    PROVE  LInv'
<1>1. c \in Running
  BY DEF Running
<1>2. /\ conns' \in [Conns -> {"none", "hello", "read", "send", "done"}]
      /\ aborted' \subseteq Conns /\ RegistryInv' /\ HandlesInv'
  BY <1>1, ClosedKeeps
<1>3. ListenerType' /\ CountInv'
  BY <1>2 DEF LInv, ListenerType, CountInv, Streaming
<1> QED
  BY <1>2, <1>3 DEF LInv

\* A task's connection is one of a streaming input.
LEMMA TasksStream ==
    ASSUME LInv, NEW c \in Conns, conns[c] \in {"hello", "read", "send"}
    PROVE  Streaming /\ counted = taken
<1>1. Running # {}
  BY DEF Running
<1> QED
  BY <1>1 DEF LInv, HandlesInv, CountInv

\* Every step of a listener keeps the inductive invariant.
LEMMA ListenerKeeps ==
    ASSUME LInv, ListenerStep \/ PeerStep
    PROVE  LInv'
<1>1. ASSUME NEW c \in Conns, Accept(c) PROVE LInv'
  BY <1>1, AcceptKeeps
<1>2. ASSUME NEW c \in Conns, Hello(c) PROVE LInv'
  BY <1>2, HelloKeeps
<1>3. ASSUME NEW c \in Conns, Hangup(c) PROVE LInv'
  BY <1>3, TaskEnds DEF Hangup
<1>4. ASSUME NEW c \in Conns, ReadFrame(c) PROVE LInv'
  <2>1. CountInv' /\ counted' \in Nat /\ taken' \in Nat
    BY <1>4 DEF ReadFrame, LInv, ListenerType, CountInv, Streaming
  <2> QED
    BY <1>4, <2>1, TaskMoves DEF ReadFrame
<1>5. ASSUME NEW c \in Conns, Forward(c) PROVE LInv'
  <2>1. Streaming /\ counted = taken /\ counted \in Nat
    BY <1>5, TasksStream DEF Forward, LInv, ListenerType
  <2>2. CASE conns' = [conns EXCEPT ![c] = "read"] /\ counted' = counted + 1
             /\ taken' = taken + 1 /\ UNCHANGED <<aborted, registry>>
    <3>1. CountInv' /\ counted' \in Nat /\ taken' \in Nat
      BY <1>5, <2>1, <2>2 DEF Forward, LInv, CountInv, Streaming
    <3> QED
      BY <1>5, <2>2, <3>1, TaskMoves DEF Forward
  <2>3. CASE Closed(c) /\ UNCHANGED <<counted, taken>>
    BY <1>5, <2>3, TaskEnds DEF Forward
  <2> QED
    BY <1>5, <2>2, <2>3 DEF Forward
<1>6. ASSUME NEW c \in Conns, AbortLands(c) PROVE LInv'
  <2>1. conns[c] \in {"hello", "read", "send"}
    BY <1>6 DEF AbortLands, Running
  <2> QED
    BY <1>6, <2>1, TaskEnds DEF AbortLands
<1>7. ASSUME StopListening PROVE LInv'
  <2>1. /\ UNCHANGED <<source, handles, conns, registry, counted, taken, refused>>
        /\ lpc = "select" /\ lpc' = "stopped" /\ aborted' = aborted \cup (handles \cap Running)
    BY <1>7 DEF StopListening
  <2>2. Running' = Running /\ Established' = Established
    BY <2>1 DEF Running, Established
  <2>3. ListenerType'
    BY <2>1 DEF LInv, ListenerType
  <2>4. RegistryInv'
    BY <2>1, <2>2 DEF LInv, RegistryInv
  <2>5. HandlesInv'
    BY <2>1, <2>2 DEF LInv, HandlesInv, Streaming
  <2>6. CountInv'
    BY <2>1 DEF LInv, CountInv, Streaming
  <2> QED
    BY <2>3, <2>4, <2>5, <2>6 DEF LInv
<1>8. ASSUME Receive \/ SendDatagram PROVE LInv'
  <2>1. UNCHANGED <<source, handles, conns, aborted, registry, refused>>
    BY <1>8 DEF Receive, SendDatagram, connVars
  <2>2. Running' = Running /\ Established' = Established
    BY <2>1 DEF Running, Established
  <2>3. ~Streaming
    BY <1>8 DEF Receive, SendDatagram, LInv, CountInv
  <2>4. ListenerType' /\ CountInv'
    BY <1>8, <2>1, <2>3 DEF Receive, SendDatagram, LInv, ListenerType, CountInv, Streaming
  <2>5. RegistryInv' /\ HandlesInv'
    BY <2>1, <2>2, <2>3 DEF LInv, RegistryInv, HandlesInv, Streaming
  <2> QED
    BY <2>4, <2>5 DEF LInv
<1> QED
  BY <1>1, <1>2, <1>3, <1>4, <1>5, <1>6, <1>7, <1>8 DEF ListenerStep, PeerStep

-----------------------------------------------------------------------------
(* The theorem. *)

\* No connection is there when the process starts.
LEMMA ListenerStarts ==
    ASSUME Init
    PROVE  LInv
<1>1. /\ source \in ListenerKinds /\ lpc = "select" /\ handles = {} /\ aborted = {}
      /\ conns = [c \in Conns |-> "none"] /\ registry = <<>>
      /\ counted = 0 /\ taken = 0 /\ refused = FALSE
  BY DEF Init, ListenerInit, ListenerKinds
<1>2. Running = {} /\ Established = {}
  BY <1>1 DEF Running, Established
<1>3. ListenerType
  BY <1>1 DEF ListenerType
<1>4. RegistryInv
  <2>1. registry \in Seq(Conns) /\ Len(registry) = 0
    BY <1>1
  <2>2. ToSet(registry) = {}
    BY <2>1, ShortSets
  <2>3. Registry(registry)
    BY <2>1 DEF Registry
  <2> QED
    BY <1>1, <1>2, <2>2, <2>3 DEF RegistryInv
<1>5. HandlesInv
  <2>1. Cardinality(Running) = 0 /\ MaxConnections \in Nat
    BY <1>2, FS_EmptySet, InputsAssumption
  <2> QED
    BY <1>1, <1>2, <2>1 DEF HandlesInv
<1>6. CountInv
  BY <1>1 DEF CountInv
<1> QED
  BY <1>3, <1>4, <1>5, <1>6 DEF LInv

\* A registry has as many connections as it has places.
LEMMA RegistrySize ==
    ASSUME Registry(registry)
    PROVE  Len(registry) = Cardinality(ToSet(registry))
<1>1. registry \in Seq(Conns) /\ Len(registry) \in {0, 1, 2}
  BY UpToTwo, Places DEF Registry
<1>2. CASE Len(registry) = 0
  BY <1>1, <1>2, ShortSets, FS_EmptySet
<1>3. CASE Len(registry) = 1
  BY <1>1, <1>3, ShortSets, FS_Singleton
<1>4. CASE Len(registry) = 2
  <2>1. registry[1] # registry[2]
    BY <1>4 DEF Registry
  <2>2. ToSet(registry) = {registry[1]} \cup {registry[2]}
    BY <1>1, <1>4, ShortSets
  <2>3. IsFiniteSet({registry[1]}) /\ Cardinality({registry[1]}) = 1
    BY FS_Singleton
  <2>4. Cardinality({registry[1]} \cup {registry[2]}) = 2
    BY <2>1, <2>3, FS_AddElement
  <2> QED
    BY <1>4, <2>2, <2>4
<1> QED
  BY <1>1, <1>2, <1>3, <1>4

\* What the inductive invariant says of a listener's accounts.
LEMMA LInvExact ==
    ASSUME LInv
    PROVE  ListenersExact
<1>1. RegistryExact
  <2>1. Registry(registry) /\ Len(registry) = Cardinality(ToSet(registry))
    BY RegistrySize DEF LInv, RegistryInv
  <2>2. Len(registry) <= 2
    BY <2>1 DEF Registry
  <2> QED
    BY <2>1, <2>2 DEF LInv, RegistryInv, RegistryExact, Established
<1>2. ConnectionsBounded
  BY DEF LInv, HandlesInv, ConnectionsBounded
<1>3. ReceivedIsCounted
  BY DEF LInv, CountInv, ReceivedIsCounted
<1> QED
  BY <1>1, <1>2, <1>3 DEF ListenersExact

\* Handles, registry, tasks and counters stay related as LInv says.
THEOREM ListenerInvariance == Spec => []LInv
<1>1. Init => LInv
  BY ListenerStarts
<1>2. LInv /\ [Next]_vars => LInv'
  <2> SUFFICES ASSUME LInv, [Next]_vars PROVE LInv'
    OBVIOUS
  <2>1. CASE ListenerStep \/ PeerStep
    BY <2>1, ListenerKeeps
  <2>2. CASE UNCHANGED listenerVars
    <3>1. /\ UNCHANGED <<source, lpc, handles, conns, aborted, registry, counted, taken, refused>>
          /\ ListenerType /\ RegistryInv /\ HandlesInv /\ CountInv
      BY <2>2 DEF listenerVars, LInv
    <3>2. Running' = Running /\ Established' = Established
      BY <3>1 DEF Running, Established
    <3>3. ListenerType' /\ CountInv'
      BY <3>1 DEF ListenerType, CountInv, Streaming
    <3>4. RegistryInv' /\ HandlesInv'
      BY <3>1, <3>2 DEF RegistryInv, HandlesInv, Streaming
    <3> QED
      BY <3>3, <3>4 DEF LInv
  <2> QED
    BY <2>1, <2>2, OnlyListenerSteps
<1> QED
  BY <1>1, <1>2, PTL DEF Spec

\* In every order of accepts, evictions, late releases, aborts and shutdown,
\* whatever the limit on connections and however many come: the registry of an
\* ltp peer holds its established connections, at most two, but for those being
\* aborted; no more tasks run than max_connections and ltp refuses only when
\* that many run; and events_received counts what the pipeline was given.
THEOREM ListenersKeepAccount == Spec => []ListenersExact
<1>1. LInv => ListenersExact
  BY LInvExact
<1> QED
  BY <1>1, ListenerInvariance, PTL
==============================================================================
