---------------------------- MODULE AgentProofs -----------------------------
(***************************************************************************)
(* Theorems about Agent, for a queue of any size and any number of samples.*)
(***************************************************************************)
EXTENDS Agent, SequenceTheorems, TLAPS

\* Whoever is past the start has a sample, and whoever was let pass by the
\* announcer has a server.
StartedInOrder ==
    /\ (\/ main \notin {"boot", "gone"} \/ sampler # "off"
        \/ client \/ connected \/ started) => latest > 0
    /\ announced \/ announcer \in {"decided", "opened", "described"} => started

\* The queue holds the last samples without a gap, except for the one being
\* handed out; one that nobody listens to is empty.
Behind == IF sampler \in {"idle", "off"} THEN 0 ELSE 1

Gapless ==
    /\ main \in {"boot", "gone"} => ~subscribed
    /\ ~subscribed => queue = << >>
    /\ \A i \in DOMAIN queue : queue[i] + (Len(queue) - i) + Behind >= latest

AgentInv == TypeOK /\ StartedInOrder /\ Gapless

\* A new process satisfies the invariant.
LEMMA AgentInvInit == Init => AgentInv
<1> SUFFICES ASSUME Init PROVE AgentInv
  OBVIOUS
<1>1. TypeOK
  <2>1. /\ queue \in Seq(1..MaxSamples)
        /\ Len(queue) <= QueueSize
    BY AgentAssumption, EmptySeq DEF Init
  <2>2. 0 \in 0..MaxSamples
    BY AgentAssumption
  <2>3. QED
    BY <2>1, <2>2 DEF Init, TypeOK
<1>2. StartedInOrder
  BY DEF Init, StartedInOrder
<1>3. Gapless
  BY DEF Init, Gapless
<1>4. QED
  BY <1>1, <1>2, <1>3 DEF AgentInv

\* Dropping the oldest and adding the newest shifts the queue by one.
LEMMA RoomFacts ==
    ASSUME NEW S, NEW q \in Seq(S), q # << >>, NEW e \in S
    PROVE  LET r == Append(Tail(q), e)
           IN  /\ r \in Seq(S)
               /\ Len(q) \in Nat \ {0} /\ DOMAIN q = 1..Len(q)
               /\ Len(r) = Len(q) /\ DOMAIN r = 1..Len(q)
               /\ \A i \in 1..(Len(q) - 1) : r[i] = q[i + 1]
               /\ r[Len(q)] = e
<1>1. /\ Tail(q) \in Seq(S) /\ Len(Tail(q)) = Len(q) - 1
      /\ \A i \in 1..Len(Tail(q)) : Tail(q)[i] = q[i + 1]
  BY HeadTailProperties
<1>2. Len(q) \in Nat \ {0} /\ DOMAIN q = 1..Len(q)
  BY EmptySeq, LenProperties
<1> DEFINE r == Append(Tail(q), e)
<1>3. /\ r \in Seq(S) /\ Len(r) = Len(Tail(q)) + 1
      /\ \A i \in 1..Len(Tail(q)) : r[i] = Tail(q)[i]
      /\ r[Len(Tail(q)) + 1] = e
  BY <1>1, AppendProperties
<1>4. DOMAIN r = 1..Len(r)
  BY <1>3, LenProperties
<1> HIDE DEF r
<1>5. /\ r \in Seq(S) /\ Len(q) \in Nat \ {0} /\ DOMAIN q = 1..Len(q)
      /\ Len(r) = Len(q) /\ DOMAIN r = 1..Len(q)
      /\ \A i \in 1..(Len(q) - 1) : r[i] = q[i + 1]
      /\ r[Len(q)] = e
  BY <1>1, <1>2, <1>3, <1>4
<1>6. QED
  BY <1>5 DEF r

\* What the two ways of adding the sample just taken do to a queue that lacked it.
LEMMA PutFresh ==
    ASSUME NEW n \in Nat, NEW q, NEW r, NEW x \in Nat,
           \A i \in 1..n : q[i] \in Nat /\ q[i] + (n - i) + 1 >= x,
           \A i \in 1..n : r[i] = q[i],
           r[n + 1] = x
    PROVE  \A i \in 1..(n + 1) : r[i] + ((n + 1) - i) + 0 >= x
<1> SUFFICES ASSUME NEW i \in 1..(n + 1) PROVE r[i] + ((n + 1) - i) + 0 >= x
  OBVIOUS
<1>1. CASE i = n + 1
  BY <1>1
<1>2. CASE i \in 1..n
  <2>1. r[i] = q[i] /\ q[i] \in Nat /\ q[i] + (n - i) + 1 >= x
    BY <1>2
  <2>2. QED
    BY <1>2, <2>1
<1>3. QED
  BY <1>1, <1>2

LEMMA ShiftFresh ==
    ASSUME NEW n \in Nat \ {0}, NEW q, NEW r, NEW x \in Nat,
           \A i \in 1..n : q[i] \in Nat /\ q[i] + (n - i) + 1 >= x,
           \A i \in 1..(n - 1) : r[i] = q[i + 1],
           r[n] = x
    PROVE  \A i \in 1..n : r[i] + (n - i) + 0 >= x
<1> SUFFICES ASSUME NEW i \in 1..n PROVE r[i] + (n - i) + 0 >= x
  OBVIOUS
<1>1. CASE i = n
  BY <1>1
<1>2. CASE i \in 1..(n - 1)
  <2>1. i + 1 \in 1..n
    BY <1>2
  <2>2. r[i] = q[i + 1] /\ q[i + 1] \in Nat /\ q[i + 1] + (n - (i + 1)) + 1 >= x
    BY <1>2, <2>1
  <2>3. QED
    BY <1>2, <2>2
<1>3. QED
  BY <1>1, <1>2

LEMMA MadeRoom ==
    AgentInv /\ MakeRoom => /\ queue' \in Seq(1..MaxSamples)
                            /\ Len(queue') <= QueueSize
<1> SUFFICES ASSUME AgentInv, MakeRoom
             PROVE  queue' \in Seq(1..MaxSamples) /\ Len(queue') <= QueueSize
  OBVIOUS
<1>1. /\ queue \in Seq(1..MaxSamples) /\ Len(queue) <= QueueSize
      /\ latest \in 1..MaxSamples
  BY AgentAssumption DEF AgentInv, TypeOK, StartedInOrder, MakeRoom
<1>2. CASE queue = << >>
  BY <1>1, <1>2 DEF MakeRoom
<1>3. CASE queue # << >>
  <2>1. queue' = Append(Tail(queue), latest)
    BY <1>3 DEF MakeRoom
  <2>2. QED
    BY <1>1, <1>3, <2>1, RoomFacts
<1>4. QED
  BY <1>2, <1>3

\* A process that has gone, or has not begun, satisfies the invariant.
LEMMA GoneAgentInv == AgentInv /\ Vanish => AgentInv'
<1> SUFFICES ASSUME AgentInv, Vanish PROVE AgentInv'
  OBVIOUS
<1>1. TypeOK'
  <2>1. /\ queue' \in Seq(1..MaxSamples)
        /\ Len(queue') <= QueueSize
    BY AgentAssumption, EmptySeq DEF Vanish, Fresh
  <2>2. 0 \in 0..MaxSamples
    BY AgentAssumption
  <2>3. /\ {http, mqttOn, will}' \subseteq BOOLEAN
        /\ telemetry' \in 0..MaxSamples
        /\ availability' \in {"none", "offline", "online"}
    BY DEF AgentInv, TypeOK, Vanish, config, broker
  <2>4. /\ {stopping, started, halt, publishing, subscribed, zc, info, closed,
             announced, client, connected}' \subseteq BOOLEAN
        /\ main' = "gone" /\ sampler' = "off" /\ reader' = "none"
        /\ announcer' = "off" /\ link' = "none" /\ latest' = 0
    BY DEF Vanish, Fresh
  <2>5. QED
    BY <2>1, <2>2, <2>3, <2>4 DEF TypeOK
<1>2. StartedInOrder'
  BY DEF Vanish, Fresh, StartedInOrder
<1>3. Gapless'
  BY DEF Vanish, Fresh, Gapless
<1>4. QED
  BY <1>1, <1>2, <1>3 DEF AgentInv

\* The invariant survives every step, one conjunct after the other.
LEMMA TypeStep == AgentInv /\ [Next]_vars => TypeOK'
<1> SUFFICES ASSUME AgentInv, [Next]_vars PROVE TypeOK'
  OBVIOUS
<1> USE AgentAssumption DEF AgentInv, TypeOK, StartedInOrder,
    config, sampling, streaming, mdns, broker, mqtt
<1>1. CASE StartSampler \/ StartMqtt \/ AddPublisher \/ StartServer \/ ServerStarts
  <2>1. CASE StartSampler
    BY <2>1 DEF StartSampler, Goes
  <2>2. CASE StartMqtt
    BY <2>2 DEF StartMqtt, Goes
  <2>3. CASE AddPublisher
    BY <2>3 DEF AddPublisher, Goes
  <2>4. CASE StartServer
    BY <2>4 DEF StartServer, Goes
  <2>5. CASE ServerStarts
    BY <2>5 DEF ServerStarts, Goes
  <2>6. QED
    BY <1>1, <2>1, <2>2, <2>3, <2>4, <2>5
<1>2. CASE \/ Stop \/ StopDiscovery \/ SayOffline
          \/ Disconnect \/ ForgetClient \/ StopSampler
  <2>1. CASE Stop \/ StopDiscovery
    BY <2>1 DEF Stop, StopDiscovery, Goes
  <2>2. CASE SayOffline
    BY <2>2 DEF SayOffline, Goes
  <2>3. CASE Disconnect \/ ForgetClient
    BY <2>3 DEF Disconnect, ForgetClient, Goes
  <2>4. CASE StopSampler
    BY <2>4 DEF StopSampler, Goes
  <2>5. QED
    BY <1>2, <2>1, <2>2, <2>3, <2>4
<1>3. CASE Exit \/ Crash \/ Restart
  <2>1. CASE Exit
    BY <2>1, GoneAgentInv DEF Exit
  <2>2. CASE Crash
    BY <2>2, GoneAgentInv DEF Crash
  <2>3. CASE Restart
    BY <2>3 DEF Restart, Vanish, Fresh, Goes
  <2>4. QED
    BY <1>3, <2>1, <2>2, <2>3
<1>4. CASE Sample \/ CheckConnected \/ PublishTelemetry \/ SamplerEnds
  <2>1. CASE Sample
    BY <2>1 DEF Sample
  <2>2. CASE CheckConnected
    BY <2>2 DEF CheckConnected
  <2>3. CASE PublishTelemetry
    BY <2>3 DEF PublishTelemetry
  <2>4. CASE SamplerEnds
    BY <2>4 DEF SamplerEnds
  <2>5. QED
    BY <1>4, <2>1, <2>2, <2>3, <2>4
<1>5. CASE Put
  <2>1. UNCHANGED <<config, main, stopping, started, latest, halt, publishing,
                    subscribed, reader, mdns, mqtt>>
    BY <1>5 DEF Put
  <2>2. sampler' \in {"idle", "full"}
    BY <1>5 DEF Put
  <2>3. queue' \in Seq(1..MaxSamples) /\ Len(queue') <= QueueSize
    <3>1. CASE queue' = queue
      BY <3>1
    <3>2. CASE queue' = Append(queue, latest) /\ Len(queue) # QueueSize
      <4>1. latest \in 1..MaxSamples
        BY <1>5 DEF Put
      <4>2. queue' \in Seq(1..MaxSamples) /\ Len(queue') = Len(queue) + 1
        BY <3>2, <4>1, AppendProperties
      <4>3. Len(queue) \in Nat /\ Len(queue) <= QueueSize /\ QueueSize \in Nat
        OBVIOUS
      <4>4. QED
        BY <3>2, <4>2, <4>3
    <3>3. QED
      BY <1>5, <3>1, <3>2 DEF Put
  <2>4. QED
    BY <2>1, <2>2, <2>3
<1>6. CASE MakeRoom
  <2>1. /\ queue' \in Seq(1..MaxSamples)
        /\ Len(queue') <= QueueSize
    BY <1>6, MadeRoom
  <2>2. sampler' = "idle"
    BY <1>6 DEF MakeRoom
  <2>3. UNCHANGED <<config, main, stopping, started, latest, halt, publishing,
                    subscribed, reader, mdns, mqtt>>
    BY <1>6 DEF MakeRoom
  <2>4. QED
    BY <2>1, <2>2, <2>3
<1>7. CASE OpenStream \/ FirstFrame \/ SendFrame \/ CloseStream
  <2>1. CASE OpenStream
    BY <2>1 DEF OpenStream, StreamOnly
  <2>2. CASE FirstFrame
    BY <2>2 DEF FirstFrame, StreamOnly
  <2>3. CASE SendFrame
    BY <2>3 DEF SendFrame, StreamOnly
  <2>4. CASE CloseStream
    <3>1. /\ queue' \in Seq(1..MaxSamples)
          /\ Len(queue') <= QueueSize
      <4>1. CASE reader = "first"
        BY <2>4, <4>1 DEF CloseStream
      <4>2. CASE reader # "first"
        BY <2>4, <4>2, EmptySeq DEF CloseStream
      <4>3. QED
        BY <4>1, <4>2
    <3>2. subscribed' \in BOOLEAN /\ reader' = "none"
      BY <2>4 DEF CloseStream
    <3>3. StreamOnly
      BY <2>4 DEF CloseStream
    <3>4. QED
      BY <3>1, <3>2, <3>3 DEF StreamOnly
  <2>5. QED
    BY <1>7, <2>1, <2>2, <2>3, <2>4
<1>8. CASE TakeFrame
  BY <1>8 DEF TakeFrame, StreamOnly
<1>9. CASE Decide \/ OpenZeroconf \/ DescribeService \/ Register
  <2>1. CASE Decide \/ OpenZeroconf
    BY <2>1 DEF Decide, OpenZeroconf, MdnsOnly
  <2>2. CASE DescribeService \/ Register
    BY <2>2 DEF DescribeService, Register, MdnsOnly
  <2>3. QED
    BY <1>9, <2>1, <2>2
<1>10. CASE Connect \/ OnConnect \/ SayOnline \/ LinkBreaks \/ OnDisconnect \/ WillFires
  <2>1. CASE Connect
    BY <2>1 DEF Connect, MqttOnly
  <2>2. CASE OnConnect
    BY <2>2 DEF OnConnect, MqttOnly
  <2>7. CASE SayOnline
    BY <2>7 DEF SayOnline, MqttOnly
  <2>3. CASE LinkBreaks
    BY <2>3 DEF LinkBreaks, MqttOnly
  <2>4. CASE OnDisconnect
    <3>1. connected' = FALSE /\ link' = "none"
      BY <2>4 DEF OnDisconnect
    <3>2. UNCHANGED <<client, broker>> /\ MqttOnly
      BY <2>4 DEF OnDisconnect
    <3>3. {http, mqttOn, stopping, started, halt, publishing, subscribed, zc, info, closed,
           announced, client, connected, will}' \subseteq BOOLEAN
      BY <3>1, <3>2 DEF MqttOnly
    <3>4. /\ UNCHANGED <<main, sampler, latest, telemetry, queue, reader, announcer,
                        availability>>
          /\ link' = "none"
      BY <3>1, <3>2 DEF MqttOnly
    <3>5. QED
      BY <3>3, <3>4
  <2>5. CASE WillFires
    <3>1. will' = FALSE /\ availability' = "offline"
      BY <2>5 DEF WillFires
    <3>2. UNCHANGED <<client, connected, link, telemetry>> /\ MqttOnly
      BY <2>5 DEF WillFires
    <3>3. {http, mqttOn, stopping, started, halt, publishing, subscribed, zc, info, closed,
           announced, client, connected, will}' \subseteq BOOLEAN
      BY <3>1, <3>2 DEF MqttOnly
    <3>4. /\ UNCHANGED <<main, sampler, latest, telemetry, queue, reader, announcer,
                        link>>
          /\ availability' = "offline"
      BY <3>1, <3>2 DEF MqttOnly
    <3>5. QED
      BY <3>3, <3>4
  <2>6. QED
    BY <1>10, <2>1, <2>2, <2>3, <2>4, <2>5, <2>7
<1>11. CASE UNCHANGED vars
  BY <1>11 DEF vars
<1>12. QED
  BY <1>1, <1>2, <1>3, <1>4, <1>5, <1>6, <1>7, <1>8, <1>9, <1>10, <1>11
     DEF Next, MainThread, SamplerThread, Stream, Announce, Connection

LEMMA OrderStep == AgentInv /\ [Next]_vars => StartedInOrder'
<1> SUFFICES ASSUME AgentInv, [Next]_vars PROVE StartedInOrder'
  OBVIOUS
<1> USE AgentAssumption DEF AgentInv, TypeOK, StartedInOrder,
    config, sampling, streaming, mdns, broker, mqtt
<1>1. CASE StartSampler \/ StartMqtt \/ AddPublisher \/ StartServer \/ ServerStarts
  BY <1>1
  DEF StartSampler, StartMqtt, AddPublisher, StartServer, ServerStarts, Goes
<1>2. CASE \/ Stop \/ StopDiscovery \/ SayOffline
          \/ Disconnect \/ ForgetClient \/ StopSampler
  BY <1>2
  DEF Stop, StopDiscovery, SayOffline, Disconnect, ForgetClient, StopSampler, Goes
<1>3. CASE Exit \/ Crash \/ Restart
  BY <1>3 DEF Exit, Crash, Restart, Vanish, Fresh, Goes
<1>4. CASE Sample \/ CheckConnected \/ PublishTelemetry \/ SamplerEnds
  BY <1>4 DEF Sample, CheckConnected, PublishTelemetry, SamplerEnds
<1>5. CASE Put
  BY <1>5 DEF Put
<1>6. CASE MakeRoom
  BY <1>6 DEF MakeRoom
<1>7. CASE OpenStream \/ FirstFrame \/ SendFrame \/ CloseStream
  BY <1>7 DEF OpenStream, FirstFrame, SendFrame, CloseStream, StreamOnly
<1>8. CASE TakeFrame
  BY <1>8 DEF TakeFrame, StreamOnly
<1>9. CASE Decide \/ OpenZeroconf \/ DescribeService \/ Register
  BY <1>9 DEF Decide, OpenZeroconf, DescribeService, Register, MdnsOnly
<1>10. CASE Connect \/ OnConnect \/ SayOnline \/ LinkBreaks \/ OnDisconnect \/ WillFires
  <2>1. CASE Connect
    BY <2>1 DEF Connect, MqttOnly
  <2>2. CASE OnConnect
    <3>1. client
      BY <2>2 DEF OnConnect, NetworkThread
    <3>2. UNCHANGED client /\ MqttOnly
      BY <2>2 DEF OnConnect
    <3>3. QED
      BY <3>1, <3>2 DEF MqttOnly
  <2>7. CASE SayOnline
    BY <2>7 DEF SayOnline, MqttOnly
  <2>3. CASE LinkBreaks
    BY <2>3 DEF LinkBreaks, MqttOnly
  <2>4. CASE OnDisconnect
    BY <2>4 DEF OnDisconnect, MqttOnly
  <2>5. CASE WillFires
    BY <2>5 DEF WillFires, MqttOnly
  <2>6. QED
    BY <1>10, <2>1, <2>2, <2>3, <2>4, <2>5, <2>7
<1>11. CASE UNCHANGED vars
  BY <1>11 DEF vars
<1>12. QED
  BY <1>1, <1>2, <1>3, <1>4, <1>5, <1>6, <1>7, <1>8, <1>9, <1>10, <1>11
     DEF Next, MainThread, SamplerThread, Stream, Announce, Connection

LEMMA GaplessStep == AgentInv /\ [Next]_vars => Gapless'
<1> SUFFICES ASSUME AgentInv, [Next]_vars PROVE Gapless'
  OBVIOUS
<1> USE AgentAssumption DEF AgentInv, TypeOK, Gapless, Behind,
    config, sampling, streaming, mdns, broker, mqtt
<1> DEFINE Untouched == /\ UNCHANGED <<queue, subscribed, latest>> /\ Behind' = Behind
                        /\ main' \in {"boot", "gone"} => main \in {"boot", "gone"}
<1>a. ASSUME Untouched PROVE Gapless'
  <2>1. Gapless
    OBVIOUS
  <2> HIDE DEF AgentInv, TypeOK, Behind
  <2>2. QED
    BY <1>a, <2>1
<1>1. CASE StartSampler \/ StartMqtt \/ AddPublisher \/ StartServer \/ ServerStarts
  <2> HIDE DEF AgentInv, TypeOK, Gapless
  <2>1. CASE StartSampler
    <3>1. ~subscribed /\ queue = << >>
      BY <2>1 DEF AgentInv, Gapless, StartSampler, Goes
    <3>2. UNCHANGED <<queue, subscribed>>
      BY <2>1 DEF StartSampler
    <3>3. QED
      BY <3>1, <3>2 DEF Gapless
  <2>2. CASE StartMqtt \/ AddPublisher \/ StartServer \/ ServerStarts
    <3>1. Untouched
      BY <2>2 DEF StartMqtt, AddPublisher, StartServer, ServerStarts, Goes
    <3>2. QED
      BY <1>a, <3>1
  <2>3. QED
    BY <1>1, <2>1, <2>2
<1>2. CASE \/ Stop \/ StopDiscovery \/ SayOffline
          \/ Disconnect \/ ForgetClient \/ StopSampler
  <2> HIDE DEF AgentInv, TypeOK, Gapless
  <2>1. Untouched
    BY <1>2
    DEF Stop, StopDiscovery, SayOffline, Disconnect, ForgetClient, StopSampler, Goes
  <2>2. QED
    BY <1>a, <2>1
<1>3. CASE Exit \/ Crash \/ Restart
  <2>1. CASE Exit
    BY <2>1 DEF Exit, Vanish, Fresh
  <2>2. CASE Crash
    BY <2>2 DEF Crash, Vanish, Fresh
  <2>3. CASE Restart
    BY <2>3 DEF Restart, Goes
  <2>4. QED
    BY <1>3, <2>1, <2>2, <2>3
<1>4. CASE Sample \/ CheckConnected \/ PublishTelemetry \/ SamplerEnds
  <2>1. CASE Sample
    <3>1. /\ UNCHANGED <<queue, subscribed, main>> /\ latest' = latest + 1
          /\ sampler = "idle" /\ sampler' \in {"publish", "fanOut"} /\ latest \in Nat
      BY <2>1 DEF Sample
    <3>2. Behind = 0 /\ Behind' = 1
      BY <3>1
    <3>3. Gapless /\ \A i \in DOMAIN queue : queue[i] \in Nat /\ Len(queue) - i \in Int
      BY ElementOfSeq
    <3> HIDE DEF AgentInv, TypeOK, Behind
    <3>4. ASSUME NEW i \in DOMAIN queue
          PROVE queue[i] + (Len(queue) - i) + 1 >= latest + 1
      BY <3>1, <3>2, <3>3
    <3>5. QED
      BY <3>1, <3>2, <3>3, <3>4
  <2>2. CASE CheckConnected \/ PublishTelemetry \/ SamplerEnds
    <3> HIDE DEF AgentInv, TypeOK, Gapless
    <3>1. Untouched
      BY <2>2 DEF CheckConnected, PublishTelemetry, SamplerEnds
    <3>2. QED
      BY <1>a, <3>1
  <2>3. QED
    BY <1>4, <2>1, <2>2
<1>5. CASE Put
  <2>1. CASE subscribed /\ Len(queue) # QueueSize
    <3>1. /\ queue' = Append(queue, latest) /\ sampler = "fanOut" /\ sampler' = "idle"
          /\ UNCHANGED <<main, subscribed, latest>>
      BY <1>5, <2>1 DEF Put
    <3>2. latest \in 1..MaxSamples
      BY <3>1 DEF StartedInOrder
    <3>3. /\ DOMAIN queue = 1..Len(queue)
          /\ DOMAIN queue' = 1..Len(queue) + 1
          /\ Len(queue) \in Nat /\ Len(queue') = Len(queue) + 1
          /\ \A i \in 1..Len(queue) : queue'[i] = queue[i] /\ queue[i] \in 1..MaxSamples
          /\ queue'[Len(queue) + 1] = latest
      BY <3>1, <3>2, AppendProperties, LenProperties, ElementOfSeq
    <3>4. \A i \in 1..Len(queue) : /\ queue[i] \in Nat
                                   /\ queue[i] + (Len(queue) - i) + 1 >= latest
      <4>1. Behind = 1
        BY <3>1 DEF Behind
      <4>2. \A i \in 1..Len(queue) : queue[i] + (Len(queue) - i) + Behind >= latest
        BY <3>3 DEF Gapless
      <4>3. \A i \in 1..Len(queue) : queue[i] \in 1..MaxSamples
        BY ElementOfSeq
      <4> HIDE DEF AgentInv, TypeOK, Gapless, Behind
      <4>4. QED
        BY <4>1, <4>2, <4>3
    <3>5. \A i \in 1..(Len(queue) + 1) :
              queue'[i] + ((Len(queue) + 1) - i) + 0 >= latest
      <4> HIDE DEF AgentInv, TypeOK, Gapless, Behind
      <4>1. latest \in Nat
        BY <3>2
      <4>2. QED
        BY <3>3, <3>4, <4>1, PutFresh
    <3>6. QED
      BY <2>1, <3>1, <3>3, <3>5
  <2>2. CASE ~(subscribed /\ Len(queue) # QueueSize)
    BY <1>5, <2>2 DEF Put
  <2>3. QED
    BY <2>1, <2>2
<1>6. CASE MakeRoom
  <2>1. CASE queue # << >>
    <3>1. /\ queue' = Append(Tail(queue), latest) /\ sampler = "full" /\ sampler' = "idle"
          /\ UNCHANGED <<main, subscribed, latest>>
      BY <1>6, <2>1 DEF MakeRoom
    <3>2. latest \in 1..MaxSamples
      BY <3>1 DEF StartedInOrder
    <3>3. /\ DOMAIN queue = 1..Len(queue) /\ Len(queue) \in Nat \ {0}
          /\ Len(queue') = Len(queue) /\ DOMAIN queue' = 1..Len(queue)
          /\ \A i \in 1..(Len(queue) - 1) : queue'[i] = queue[i + 1]
          /\ queue'[Len(queue)] = latest
      BY <2>1, <3>1, <3>2, RoomFacts
    <3>4. \A i \in 1..Len(queue) : /\ queue[i] \in Nat
                                   /\ queue[i] + (Len(queue) - i) + 1 >= latest
      <4>1. Behind = 1
        BY <3>1 DEF Behind
      <4>2. \A i \in 1..Len(queue) : queue[i] + (Len(queue) - i) + Behind >= latest
        BY <3>3 DEF Gapless
      <4>3. \A i \in 1..Len(queue) : queue[i] \in 1..MaxSamples
        BY ElementOfSeq
      <4> HIDE DEF AgentInv, TypeOK, Gapless, Behind
      <4>4. QED
        BY <4>1, <4>2, <4>3
    <3>5. \A i \in 1..Len(queue) : queue'[i] + (Len(queue) - i) + 0 >= latest
      <4> HIDE DEF AgentInv, TypeOK, Gapless, Behind
      <4>1. latest \in Nat
        BY <3>2
      <4>2. QED
        BY <3>3, <3>4, <4>1, ShiftFresh
    <3>6. QED
      BY <2>1, <3>1, <3>3, <3>5
  <2>2. CASE queue = << >>
    BY <1>6, <2>2 DEF MakeRoom
  <2>3. QED
    BY <2>1, <2>2
<1>7. CASE OpenStream \/ FirstFrame \/ SendFrame \/ CloseStream
  <2>1. CASE OpenStream
    <3>1. queue' = << >> /\ subscribed' /\ main = "serving" /\ UNCHANGED main
      BY <2>1 DEF OpenStream, StreamOnly, EventLoop
    <3>2. QED
      BY <3>1
  <2>2. CASE FirstFrame
    BY <2>2 DEF FirstFrame, StreamOnly
  <2>3. CASE SendFrame
    BY <2>3 DEF SendFrame, StreamOnly
  <2>4. CASE CloseStream
    <3>1. /\ main = "serving" /\ UNCHANGED <<main, sampler, latest>>
          /\ subscribed' = (reader = "first")
          /\ queue' = IF reader = "first" THEN queue ELSE << >>
      BY <2>4 DEF CloseStream, StreamOnly, EventLoop
    <3>2. CASE reader = "first"
      BY <3>1, <3>2
    <3>3. CASE reader # "first"
      BY <3>1, <3>3
    <3>4. QED
      BY <3>2, <3>3
  <2>5. QED
    BY <1>7, <2>1, <2>2, <2>3, <2>4
<1>8. CASE TakeFrame
  BY <1>8 DEF TakeFrame, StreamOnly
<1>9. CASE Decide \/ OpenZeroconf \/ DescribeService \/ Register
  <2> HIDE DEF AgentInv, TypeOK, Gapless
  <2>1. Untouched
    BY <1>9 DEF Decide, OpenZeroconf, DescribeService, Register, MdnsOnly
  <2>2. QED
    BY <1>a, <2>1
<1>10. CASE Connect \/ OnConnect \/ SayOnline \/ LinkBreaks \/ OnDisconnect \/ WillFires
  <2> HIDE DEF AgentInv, TypeOK, Gapless
  <2>1. Untouched
    BY <1>10
    DEF Connect, OnConnect, SayOnline, LinkBreaks, OnDisconnect, WillFires, MqttOnly
  <2>2. QED
    BY <1>a, <2>1
<1>11. CASE UNCHANGED vars
  <2> HIDE DEF AgentInv, TypeOK, Gapless
  <2>1. Untouched
    BY <1>11 DEF vars
  <2>2. QED
    BY <1>a, <2>1
<1>12. QED
  BY <1>1, <1>2, <1>3, <1>4, <1>5, <1>6, <1>7, <1>8, <1>9, <1>10, <1>11
     DEF Next, MainThread, SamplerThread, Stream, Announce, Connection

LEMMA AgentInvAlways == Spec => []AgentInv
<1>1. AgentInv /\ [Next]_vars => AgentInv'
  BY TypeStep, OrderStep, GaplessStep DEF AgentInv
<1>2. QED
  BY <1>1, AgentInvInit, PTL DEF Spec

\* The variables have their types, and the queue of a stream never holds more
\* than _SUBSCRIBER_QUEUE_SIZE frames, whatever the sampler's thread, the
\* client and a stop of the service do.
THEOREM AgentTypeCorrect == Spec => []TypeOK
<1>1. AgentInv => TypeOK
  BY DEF AgentInv
<1>2. QED
  BY <1>1, AgentInvAlways, PTL

\* The order of run() and the wait of _announce_when_listening() suffice: whoever
\* hears of the agent finds the server listening and a first sample taken.
THEOREM AgentServesFirst == Spec => []FirstVisitorServed
<1>1. AgentInv => FirstVisitorServed
  BY DEF AgentInv, StartedInOrder, FirstVisitorServed
<1>2. QED
  BY <1>1, AgentInvAlways, PTL

\* Dropping the oldest frame of a full queue keeps it fresh: no frame a client
\* has still to read is older than the queue is long.
THEOREM AgentFreshFrames == Spec => []FreshOnRecovery
<1>1. AgentInv => FreshOnRecovery
  <2> SUFFICES ASSUME AgentInv, NEW i \in DOMAIN queue
               PROVE  queue[i] + QueueSize >= latest
    BY DEF FreshOnRecovery
  <2>1. /\ DOMAIN queue = 1..Len(queue) /\ Len(queue) \in Nat
        /\ queue[i] \in 1..MaxSamples
    BY LenProperties, ElementOfSeq DEF AgentInv, TypeOK
  <2>2. /\ queue[i] + (Len(queue) - i) + 1 >= latest \/ queue[i] + (Len(queue) - i) >= latest
        /\ Len(queue) <= QueueSize /\ latest \in Nat
    BY <2>1 DEF AgentInv, TypeOK, Gapless, Behind
  <2>3. QED
    BY <2>1, <2>2, AgentAssumption
<1>2. QED
  BY <1>1, AgentInvAlways, PTL

(* -------------------------- the broker's record ------------------------ *)

\* A connection has the Last Will it was opened with and a client that knows of
\* it; between the two halves of stop() it has said "offline".
WillInv ==
    /\ availability = "online" => will
    /\ link \in {"connecting", "accepted", "up"} => will
    /\ Publishable => client /\ connected
    /\ link = "up" /\ main = "disconnect" => availability = "offline"
    /\ link = "up" /\ main # "disconnect" => availability = "online"
    /\ main = "forget" => link = "none"

LEMMA WillInit == Init => WillInv
  BY DEF Init, WillInv, Publishable

LEMMA WillStep ==
    ASSUME TypeOK, WillInv, [Next]_vars, ~LateConnection, ~LateConnection'
    PROVE WillInv'
<1>a. /\ availability \in {"none", "offline", "online"}
      /\ link \in {"none", "connecting", "accepted", "up", "broken"}
      /\ will \in BOOLEAN /\ client \in BOOLEAN /\ connected \in BOOLEAN
  BY DEF TypeOK
<1>1. CASE /\ UNCHANGED mqtt
           /\ main' = main \/ {main, main'} \cap {"disconnect", "forget"} = {}
  BY <1>1 DEF mqtt, broker, WillInv, Publishable
<1>2. CASE StartSampler \/ AddPublisher \/ StartServer \/ ServerStarts \/ Stop \/ StopSampler
  BY <1>1, <1>2
  DEF StartSampler, AddPublisher, StartServer, ServerStarts, Stop, StopSampler, Goes
<1>3. CASE StopDiscovery \/ Restart
  BY <1>1, <1>3 DEF StopDiscovery, Restart, Goes
<1>4. CASE StartMqtt
  BY <1>4 DEF StartMqtt, Goes, broker, WillInv, Publishable
<1>5. CASE SayOffline
  <2>1. /\ main = "stopMqtt" /\ main' # "forget"
        /\ client' = client /\ connected' = connected /\ link' = link
        /\ will' = will
    BY <1>5 DEF SayOffline, Goes
  <2>2. CASE Publishable
    <3>1. client /\ connected
      BY <2>2 DEF WillInv, Publishable
    <3>2. main' = "disconnect" /\ availability' = "offline"
      BY <1>5, <2>2, <3>1 DEF SayOffline, Goes
    <3>3. will
      BY <2>2 DEF WillInv, Publishable
    <3>4. will' /\ client' /\ connected'
      BY <2>1, <3>1, <3>3, Zenon
    <3>5. QED
      BY <2>1, <3>2, <3>4 DEF WillInv, Publishable
  <2>3. CASE ~Publishable
    <3>1. availability' = availability
      BY <1>5, <2>3 DEF SayOffline
    <3>2. /\ availability' = "online" => will'
          /\ link' \in {"connecting", "accepted", "up"} => will'
      BY <2>1, <3>1, Zenon DEF WillInv, Publishable
    <3>3. link' \notin {"accepted", "up"}
      BY <2>1, <2>3 DEF Publishable
    <3>4. QED
      BY <2>1, <3>2, <3>3 DEF WillInv, Publishable
  <2>4. QED
    BY <2>2, <2>3
<1>6. CASE Disconnect
  <2>1. /\ main = "disconnect" /\ link' = "none" /\ availability' = availability
        /\ will' = (will /\ link \notin {"connecting", "accepted", "up"})
    BY <1>6 DEF Disconnect, Goes
  <2>2. /\ link \notin {"connecting", "accepted"}
        /\ link = "up" => availability = "offline"
    BY <2>1 DEF LateConnection, WillInv, Publishable
  <2>3. QED
    BY <2>1, <2>2 DEF WillInv, Publishable
<1>7. CASE ForgetClient
  <2>1. main = "forget" /\ main' = "stopSampler" /\ UNCHANGED <<link, broker>>
    BY <1>7 DEF ForgetClient, Goes
  <2>2. link # "up"
    BY <2>1 DEF WillInv, Publishable
  <2>3. QED
    BY <2>1, <2>2 DEF WillInv, Publishable, broker
<1>8. CASE Exit \/ Crash
  <2>1. link' = "none" /\ UNCHANGED broker
    BY <1>8 DEF Exit, Crash, Vanish, Fresh
  <2>2. QED
    BY <2>1 DEF WillInv, Publishable, broker
<1>9. CASE SamplerThread
  <2>1. UNCHANGED <<main, client, connected, link, will, availability>>
    BY <1>9 DEF SamplerThread, Sample, CheckConnected, PublishTelemetry, Put, MakeRoom,
                SamplerEnds, mqtt, broker
  <2>2. QED
    BY <2>1 DEF WillInv, Publishable
<1>10. CASE Stream
  BY <1>1, <1>10
  DEF Stream, OpenStream, FirstFrame, TakeFrame, SendFrame, CloseStream, StreamOnly
<1>11. CASE Announce
  BY <1>1, <1>11 DEF Announce, Decide, OpenZeroconf, DescribeService, Register, MdnsOnly
<1>12. CASE Connect
  <2>1. /\ main' = main /\ main # "forget" /\ link' = "connecting" /\ will' = TRUE
    BY <1>12 DEF Connect, NetworkThread, MqttOnly
  <2>2. QED
    BY <2>1 DEF WillInv, Publishable
<1>13. CASE OnConnect
  <2>1. /\ link = "connecting" /\ client /\ main' = main
        /\ link' = "accepted" /\ connected' = TRUE
        /\ UNCHANGED <<client, will, availability>>
    BY <1>13 DEF OnConnect, NetworkThread, MqttOnly, broker
  <2>2. main # "disconnect"
    BY <2>1 DEF LateConnection
  <2>3. main # "forget" /\ will
    BY <1>13, <2>1 DEF OnConnect, NetworkThread, WillInv, Publishable
  <2>4. QED
    BY <2>1, <2>2, <2>3 DEF WillInv, Publishable
<1>19. CASE SayOnline
  <2>1. /\ link = "accepted" /\ client /\ main' = main
        /\ link' = "up" /\ availability' = "online"
        /\ UNCHANGED <<client, connected, will>>
    BY <1>19 DEF SayOnline, NetworkThread, MqttOnly
  <2>2. main # "disconnect"
    BY <2>1 DEF LateConnection
  <2>3. main # "forget" /\ will /\ connected
    BY <1>19, <2>1 DEF SayOnline, NetworkThread, WillInv, Publishable
  <2>4. QED
    BY <2>1, <2>2, <2>3 DEF WillInv, Publishable
<1>14. CASE LinkBreaks
  BY <1>14 DEF LinkBreaks, MqttOnly, broker, WillInv, Publishable
<1>15. CASE OnDisconnect
  BY <1>15 DEF OnDisconnect, MqttOnly, broker, WillInv, Publishable
<1>16. CASE WillFires
  BY <1>16 DEF WillFires, MqttOnly, WillInv, Publishable
<1>17. CASE UNCHANGED vars
  BY <1>1, <1>17 DEF vars
<1>18. QED
  BY <1>2, <1>3, <1>4, <1>5, <1>6, <1>7, <1>8, <1>9, <1>10, <1>11, <1>12, <1>13,
     <1>14, <1>15, <1>16, <1>17, <1>19 DEF Next, MainThread, Connection

\* Whatever is killed, broken or restarted, the broker never says "online" with
\* no Last Will to correct it: apart from the late connection that stop() misses.
THEOREM AgentOnlineHasItsWill == Spec => OnlineHasItsWill
<1> DEFINE Q == /\ availability = "online" => will
                /\ link = "up" /\ main # "disconnect" => availability = "online"
           P == ~LateConnection
<1>1. AgentInv => TypeOK
  BY DEF AgentInv
<1>2. WillInv => Q
  BY DEF WillInv, Publishable
<1>3. TypeOK /\ WillInv /\ [Next]_vars /\ P /\ P' => WillInv'
  BY WillStep
<1>4. Spec => ([]P => []Q)
  <2> HIDE DEF P, Q
  <2>1. QED
    BY <1>1, <1>2, <1>3, AgentInvAlways, WillInit, PTL DEF Spec
<1>5. QED
  BY <1>4 DEF OnlineHasItsWill
=============================================================================
