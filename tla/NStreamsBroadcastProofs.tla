---------------------- MODULE NStreamsBroadcastProofs ----------------------
(***************************************************************************)
(* Theorems of NStreamsBroadcast, for every set of agents and every bound. *)
(*                                                                         *)
(* Every step is, for the four variables that the delivery properties are  *)
(* about, one of five: it leaves them alone, posts a new item, puts        *)
(* sentinels, or one send generator takes an item or a sentinel.  The      *)
(* lemmas say what each of these preserves; the theorems only sort the     *)
(* actions.                                                                *)
(***************************************************************************)
EXTENDS NStreamsBroadcast, SequenceTheorems, TLAPS

\* A relayed response is at most one item; it comes from the agent that sent
\* the response and bears no other agent's name.
LEMMA ForwardedItem ==
    ASSUME NEW a \in Agents, NEW n \in Nat \ {0}, NEW kind \in ResponseKinds
    PROVE  \/ Forwarded(a, n, kind) = <<>>
           \/ \E it \in Item :
                 /\ Forwarded(a, n, kind) = <<it>>
                 /\ it.origin = a
                 /\ it.sender \in Agents => it.sender = a
<1> DEFINE It(sender) == [origin |-> a, n |-> n, kind |-> kind, sender |-> sender]
<1>1. \A sender \in Senders : It(sender) \in Item
  BY DEF Item, Speakers
<1>2. {a, OutOfBand, NoSender} \subseteq Senders
  BY DEF Senders
<1>3. CASE kind \in {"task", "status_update"}
  <2>1. Forwarded(a, n, kind) = <<It(a)>>
    BY <1>3 DEF Forwarded
  <2> QED BY <1>1, <1>2, <2>1
<1>4. CASE kind = "message_update"
  <2>1. Forwarded(a, n, kind) = <<It(OutOfBand)>>
    BY <1>4 DEF Forwarded
  <2> QED BY <1>1, <1>2, <2>1, AgentsAssumption
<1>5. CASE kind = "artifact_update"
  <2>1. Forwarded(a, n, kind) = <<It(NoSender)>>
    BY <1>5 DEF Forwarded
  <2> QED BY <1>1, <1>2, <2>1, AgentsAssumption
<1>6. CASE kind \notin {"task", "status_update", "message_update", "artifact_update"}
  <2>1. Forwarded(a, n, kind) = <<>>
    BY <1>6 DEF Forwarded
  <2> QED BY <2>1
<1> QED BY <1>3, <1>4, <1>5, <1>6

\* The caller's requests are items, and never bear an agent's name.
LEMMA RequestItemType ==
    ASSUME NEW kind \in RequestKinds, requests \in Nat
    PROVE  /\ RequestItem(kind) \in Item
           /\ RequestItem(kind).origin = Caller
           /\ RequestItem(kind).sender \notin Agents
BY AgentsAssumption DEF RequestItem, Item, Speakers, Senders

\* A speaker's item joins the session: it is put on the queues of all the
\* others.
Posted(s) ==
    \E it \in Item :
        /\ it.origin = s
        /\ it.sender \in Agents => it.sender = s
        /\ items' = Append(items, it)
        /\ queue' = [b \in Agents |-> IF b = s THEN queue[b]
                                      ELSE Append(queue[b], Len(items) + 1)]
        /\ UNCHANGED <<sent, sendOpen>>

\* A request of the caller is posted to every agent.
LEMMA RequestPosts ==
    ASSUME TypeOK, NEW kind \in RequestKinds, FanOutRequest(kind)
    PROVE  Posted(Caller)
<1>1. requests \in Nat
  BY BoundsAssumption DEF TypeOK
<1>2. queue' = [b \in Agents |-> IF b = Caller THEN queue[b]
                                 ELSE Append(queue[b], Len(items) + 1)]
  BY AgentsAssumption DEF FanOutRequest
<1> QED
  BY <1>1, <1>2, RequestItemType DEF FanOutRequest, Posted

\* A response is posted to the peers of its agent, or is not forwarded.
LEMMA ResponsePosts ==
    ASSUME TypeOK, NEW a \in Agents, NEW kind \in ResponseKinds,
           ReadResponse(a, kind)
    PROVE  Posted(a) \/ UNCHANGED <<items, queue, sent, sendOpen>>
<1> DEFINE f == Forwarded(a, responses[a] + 1, kind)
<1>1. responses[a] + 1 \in Nat \ {0}
  BY BoundsAssumption DEF TypeOK
<1>2. CASE f = <<>>
  <2>1. items' = items
    BY <1>2 DEF ReadResponse, TypeOK
  <2>2. queue' = [b \in Agents |-> queue[b]]
    BY <1>2 DEF ReadResponse, RelayToPeers
  <2>3. queue' = queue
    BY <2>2 DEF TypeOK
  <2> QED BY <2>1, <2>3 DEF ReadResponse
<1>3. CASE f # <<>>
  <2>1. PICK it \in Item : /\ f = <<it>>
                           /\ it.origin = a
                           /\ it.sender \in Agents => it.sender = a
    BY <1>1, <1>3, ForwardedItem
  <2>2. items' = Append(items, it)
    BY <2>1, AppendIsConcat, Zenon DEF ReadResponse, TypeOK
  <2>3. queue' = [b \in Agents |-> IF b = a THEN queue[b]
                                   ELSE Append(queue[b], Len(items) + 1)]
    BY <1>3 DEF ReadResponse, RelayToPeers
  <2> QED BY <2>1, <2>2, <2>3 DEF ReadResponse, Posted
<1> QED BY <1>2, <1>3

-----------------------------------------------------------------------------
(* Type correctness                                                        *)

\* A posted item keeps the types of the items and the queues.
LEMMA PostedType ==
    ASSUME TypeOK, NEW s \in Speakers, Posted(s)
    PROVE  items' \in Seq(Item) /\ queue' \in [Agents -> Seq(Nat)]
<1>1. PICK it \in Item :
        /\ items' = Append(items, it)
        /\ queue' = [b \in Agents |-> IF b = s THEN queue[b]
                                      ELSE Append(queue[b], Len(items) + 1)]
  BY DEF Posted
<1>2. Len(items) + 1 \in Nat /\ items' \in Seq(Item)
  BY <1>1 DEF TypeOK
<1>3. \A b \in Agents : Append(queue[b], Len(items) + 1) \in Seq(Nat)
  BY <1>2 DEF TypeOK
<1> QED BY <1>1, <1>2, <1>3 DEF TypeOK

\* Sentinels keep the types of the queues.
LEMMA SentinelsType ==
    ASSUME TypeOK, PutSentinels
    PROVE  queue' \in [Agents -> Seq(Nat)]
BY DEF TypeOK, PutSentinels, Sentinel

\* The head of a queue can be taken.
LEMMA PullType ==
    ASSUME TypeOK, NEW a \in Agents, queue[a] # <<>>
    PROVE  Head(queue[a]) \in Nat /\ Tail(queue[a]) \in Seq(Nat)
BY DEF TypeOK

\* Putting a response or a done signal on the output queue keeps its type.
LEMMA OutputType ==
    ASSUME TypeOK, NEW r \in Response \cup {None}
    PROVE  Append(output, r) \in Seq(Response \cup {None})
BY DEF TypeOK

\* So does the finally block of the collector.
LEMMA FinaliseType ==
    ASSUME TypeOK, Finalise
    PROVE  /\ fanOut' \in TaskState /\ reader' \in [Agents -> TaskState]
           /\ queue' \in [Agents -> Seq(Nat)]
BY SentinelsType DEF Finalise, Cancelled, TypeOK, TaskState

\* So does the finally block of a reader.
LEMMA ReaderFinallyType ==
    ASSUME TypeOK, NEW a \in Agents, ReaderFinally(a)
    PROVE  reader' \in [Agents -> TaskState] /\ output' \in Seq(Response \cup {None})
BY OutputType DEF ReaderFinally, TypeOK, TaskState

\* The response being read is a response.
LEMMA ResponseReadType ==
    ASSUME TypeOK, NEW a \in Agents, NEW kind \in ResponseKinds
    PROVE  ResponseRead(a, kind) \in Response
BY DEF ResponseRead, Response, TypeOK

\* Each action preserves the type invariant.
LEMMA TypeStep ==
    ASSUME TypeOK, [Next]_vars
    PROVE  TypeOK'
<1> USE BoundsAssumption
<1>1. ASSUME NEW kind \in RequestKinds, FanOutRequest(kind)
      PROVE  TypeOK'
  <2>1. items' \in Seq(Item) /\ queue' \in [Agents -> Seq(Nat)]
    BY <1>1, RequestPosts, PostedType DEF Speakers
  <2> QED BY <1>1, <2>1 DEF FanOutRequest, TypeOK
<1>2. ASSUME FanOutEnds
      PROVE  TypeOK'
  BY <1>2, SentinelsType DEF FanOutEnds, TypeOK, TaskState
<1>3. ASSUME NEW a \in Agents, PullItem(a)
      PROVE  TypeOK'
  <2>1. queue' \in [Agents -> Seq(Nat)] /\ sent' \in [Agents -> Seq(Nat)]
    BY <1>3, PullType DEF PullItem, CanPull, TypeOK
  <2> QED BY <1>3, <2>1 DEF PullItem, TypeOK
<1>4. ASSUME NEW a \in Agents, PullSentinel(a)
      PROVE  TypeOK'
  <2>1. queue' \in [Agents -> Seq(Nat)] /\ sendOpen' \in [Agents -> BOOLEAN]
    BY <1>4, PullType DEF PullSentinel, CanPull, TypeOK
  <2> QED BY <1>4, <2>1 DEF PullSentinel, TypeOK
<1>5. ASSUME NEW a \in Agents, NEW kind \in ResponseKinds, ReadResponse(a, kind)
      PROVE  TypeOK'
  <2>1. items' \in Seq(Item) /\ queue' \in [Agents -> Seq(Nat)]
    BY <1>5, ResponsePosts, PostedType DEF Speakers, TypeOK
  <2>2. output' \in Seq(Response \cup {None})
    BY <1>5, ResponseReadType, OutputType DEF ReadResponse
  <2>3. responses' \in [Agents -> 0..MaxResponses]
    BY <1>5 DEF ReadResponse, CanRespond, TypeOK
  <2> QED BY <1>5, <2>1, <2>2, <2>3 DEF ReadResponse, TypeOK
<1>6. ASSUME NEW a \in Agents, EndOfStream(a) \/ StreamError(a) \/ ReaderCancelled(a)
      PROVE  TypeOK'
  <2>1. ReaderFinally(a) /\ streamOpen' \in [Agents -> BOOLEAN]
    BY <1>6 DEF EndOfStream, StreamError, ReaderCancelled, TypeOK
  <2> QED BY <2>1, ReaderFinallyType DEF ReaderFinally, TypeOK
<1>7. ASSUME NEW a \in Agents, RelayError(a)
      PROVE  TypeOK'
  <2>1. responses' \in [Agents -> 0..MaxResponses]
    BY <1>7 DEF RelayError, CanRespond, TypeOK
  <2>2. streamOpen' \in [Agents -> BOOLEAN] /\ reader' \in [Agents -> TaskState]
    BY <1>7 DEF RelayError, CanRespond, TypeOK, TaskState
  <2>3. <<ResponseRead(a, "artifact_update"), None>> \in Seq(Response \cup {None})
    BY <1>7, ResponseReadType DEF RelayError
  <2>4. output' \in Seq(Response \cup {None})
    BY <1>7, <2>3, ConcatProperties DEF RelayError, CanRespond, TypeOK
  <2> QED BY <1>7, <2>1, <2>2, <2>4 DEF RelayError, CanRespond, TypeOK
<1>8. ASSUME YieldResponse
      PROVE  TypeOK'
  <2>1. Head(output) \in Response /\ output' \in Seq(Response \cup {None})
    BY <1>8 DEF YieldResponse, TypeOK
  <2>2. yielded' \in Seq(Response)
    BY <1>8, <2>1 DEF YieldResponse, TypeOK
  <2> QED BY <1>8, <2>1, <2>2 DEF YieldResponse, TypeOK
<1>9. ASSUME CountDone
      PROVE  TypeOK'
  BY <1>9 DEF CountDone, TypeOK
<1>10. ASSUME Finish
       PROVE  TypeOK'
  <2>1. output' \in Seq(Response \cup {None})
    BY <1>10 DEF Finish, TypeOK
  <2> QED BY <1>10, <2>1, FinaliseType DEF Finish, Finalise, TypeOK
<1>11. ASSUME Close
       PROVE  TypeOK'
  BY <1>11, FinaliseType DEF Close, Finalise, TypeOK
<1>12. CASE UNCHANGED vars
  BY <1>12 DEF vars, TypeOK
<1> QED
  BY <1>1, <1>2, <1>3, <1>4, <1>5, <1>6, <1>7, <1>8, <1>9, <1>10, <1>11, <1>12
     DEF Next, AgentStep

\* Every variable keeps its type: the queues hold references, the output queue
\* responses and done signals.
THEOREM Typing == Spec => []TypeOK
<1>1. Init => TypeOK
  BY BoundsAssumption DEF Init, TypeOK, TaskState
<1> QED BY <1>1, TypeStep, PTL DEF Spec

-----------------------------------------------------------------------------
(* The delivery invariant                                                  *)

\* A new item is younger than all others and joins the queues it concerns.
LEMMA PostedDelivery ==
    ASSUME TypeOK, DeliveryInv, NEW s \in Speakers, Posted(s)
    PROVE  DeliveryInv'
<1> DEFINE new == Len(items) + 1
<1>1. PICK it \in Item :
        /\ it.origin = s
        /\ it.sender \in Agents => it.sender = s
        /\ items' = Append(items, it)
        /\ queue' = [b \in Agents |-> IF b = s THEN queue[b]
                                      ELSE Append(queue[b], new)]
        /\ UNCHANGED <<sent, sendOpen>>
  BY DEF Posted
<1>2. /\ Len(items) \in Nat /\ Len(items') = new
      /\ DOMAIN items = 1..Len(items) /\ DOMAIN items' = 1..new
      /\ \A i \in DOMAIN items : items'[i] = items[i]
      /\ items'[new] = it
  BY <1>1 DEF TypeOK
<1>3. ASSUME NEW b \in Agents, b # s
      PROVE  /\ DOMAIN queue[b] = 1..Len(queue[b]) /\ Len(queue[b]) \in Nat
             /\ DOMAIN queue'[b] = 1..(Len(queue[b]) + 1)
             /\ \A k \in DOMAIN queue[b] : queue'[b][k] = queue[b][k]
             /\ queue'[b][Len(queue[b]) + 1] = new
  BY <1>1, <1>2, <1>3 DEF TypeOK
<1>4. ASSUME NEW b \in Agents, b = s
      PROVE  queue'[b] = queue[b]
  BY <1>1, <1>4
<1>5. sent' = sent
  BY <1>1
<1>6. ASSUME NEW b \in Agents
      PROVE  DOMAIN queue[b] = 1..Len(queue[b]) /\ DOMAIN sent[b] = 1..Len(sent[b])
  BY DEF TypeOK
<1>7. Ranges'
  BY <1>2, <1>3, <1>4, <1>5, <1>6 DEF DeliveryInv, Ranges
<1>8. TotalOrder'
  BY <1>5 DEF DeliveryInv, TotalOrder
<1>9. QueueOrder'
  <2> SUFFICES ASSUME NEW b \in Agents, NEW k \in DOMAIN queue'[b], queue'[b][k] # 0
               PROVE  /\ \A j \in DOMAIN sent[b] : sent[b][j] < queue'[b][k]
                      /\ \A j \in 1..(k - 1) : queue'[b][j] < queue'[b][k]
    BY <1>5 DEF QueueOrder, Sentinel
  <2>1. CASE k \in DOMAIN queue[b]
    <3>1. \A j \in 1..k : queue'[b][j] = queue[b][j]
      BY <1>3, <1>4, <1>6, <2>1
    <3>2. queue'[b][k] = queue[b][k]
      BY <1>3, <1>4, <2>1
    <3> QED BY <1>6, <2>1, <3>1, <3>2 DEF DeliveryInv, QueueOrder, Sentinel
  <2>2. CASE k \notin DOMAIN queue[b]
    <3>1. b # s /\ k = Len(queue[b]) + 1 /\ queue'[b][k] = new
      BY <1>3, <1>4, <2>2
    <3>2. \A j \in 1..(k - 1) : queue'[b][j] = queue[b][j] /\ queue[b][j] \in 0..Len(items)
      BY <1>3, <3>1 DEF DeliveryInv, Ranges
    <3>3. \A j \in DOMAIN sent[b] : sent[b][j] \in 1..Len(items)
      BY DEF DeliveryInv, Ranges
    <3> QED BY <1>2, <3>1, <3>2, <3>3
  <2> QED BY <2>1, <2>2
<1>10. Complete'
  <2> SUFFICES ASSUME NEW b \in Agents, NEW i \in 1..new, items'[i].origin # b
               PROVE  \/ \E k \in DOMAIN sent[b] : sent[b][k] = i
                      \/ \E k \in DOMAIN queue'[b] : queue'[b][k] = i
    BY <1>2, <1>5 DEF Complete
  <2>1. CASE i = new
    <3>1. b # s
      BY <1>1, <1>2, <2>1
    <3>2. Len(queue[b]) + 1 \in DOMAIN queue'[b] /\ queue'[b][Len(queue[b]) + 1] = i
      BY <1>3, <2>1, <3>1
    <3> QED BY <3>2
  <2>2. CASE i # new
    <3>1. \/ \E k \in DOMAIN sent[b] : sent[b][k] = i
          \/ \E k \in DOMAIN queue[b] : queue[b][k] = i
      BY <1>2, <2>2 DEF DeliveryInv, Complete
    <3> QED BY <1>3, <1>4, <3>1
  <2> QED BY <2>1, <2>2
<1>11. Foreign'
  <2> SUFFICES ASSUME NEW b \in Agents
               PROVE  /\ \A k \in DOMAIN queue'[b] :
                            queue'[b][k] # 0 => items'[queue'[b][k]].origin # b
                      /\ \A k \in DOMAIN sent[b] : items'[sent[b][k]].origin # b
    BY <1>5 DEF Foreign, Sentinel
  <2>1. \A k \in DOMAIN queue[b] :
            queue[b][k] # 0 => queue[b][k] \in DOMAIN items /\ items[queue[b][k]].origin # b
    BY <1>2 DEF DeliveryInv, Ranges, Foreign, Sentinel
  <2>2. \A k \in DOMAIN sent[b] : sent[b][k] \in DOMAIN items /\ items[sent[b][k]].origin # b
    BY <1>2 DEF DeliveryInv, Ranges, Foreign
  <2>3. CASE b = s
    BY <1>2, <1>4, <2>1, <2>2, <2>3
  <2>4. CASE b # s
    BY <1>1, <1>2, <1>3, <2>1, <2>2, <2>4
  <2> QED BY <2>3, <2>4
<1>12. Attribution'
  BY <1>1, <1>2 DEF DeliveryInv, Attribution
<1> QED BY <1>7, <1>8, <1>9, <1>10, <1>11, <1>12 DEF DeliveryInv

\* Sentinels disturb no order: they are not items.
LEMMA SentinelsDelivery ==
    ASSUME TypeOK, DeliveryInv, PutSentinels, UNCHANGED <<items, sent>>
    PROVE  DeliveryInv'
<1>1. ASSUME NEW b \in Agents
      PROVE  /\ DOMAIN queue[b] = 1..Len(queue[b]) /\ Len(queue[b]) \in Nat
             /\ DOMAIN queue'[b] = 1..(Len(queue[b]) + 1)
             /\ \A k \in DOMAIN queue[b] : queue'[b][k] = queue[b][k]
             /\ queue'[b][Len(queue[b]) + 1] = 0
  BY DEF PutSentinels, TypeOK, Sentinel
<1>2. Ranges'
  <2> SUFFICES ASSUME NEW b \in Agents
               PROVE  /\ \A k \in DOMAIN queue'[b] : queue'[b][k] \in 0..Len(items)
                      /\ \A k \in DOMAIN sent[b] : sent[b][k] \in 1..Len(items)
    BY DEF Ranges
  <2>1. Len(items) \in Nat
    BY DEF TypeOK
  <2> QED BY <1>1, <2>1 DEF DeliveryInv, Ranges
<1>3. TotalOrder'
  BY DEF DeliveryInv, TotalOrder
<1>4. QueueOrder'
  BY <1>1 DEF DeliveryInv, QueueOrder, Sentinel
<1>5. Complete'
  BY <1>1 DEF DeliveryInv, Complete
<1>6. Foreign'
  BY <1>1 DEF DeliveryInv, Foreign, Sentinel
<1>7. Attribution'
  BY DEF DeliveryInv, Attribution
<1> QED BY <1>2, <1>3, <1>4, <1>5, <1>6, <1>7 DEF DeliveryInv

\* Taking the head of a queue shifts it by one.
LEMMA Taken ==
    ASSUME TypeOK, NEW a \in Agents, queue[a] # <<>>,
           queue' = [queue EXCEPT ![a] = Tail(@)]
    PROVE  /\ \A b \in Agents : b # a => queue'[b] = queue[b]
           /\ Len(queue[a]) \in Nat \ {0} /\ DOMAIN queue[a] = 1..Len(queue[a])
           /\ DOMAIN queue'[a] = 1..(Len(queue[a]) - 1)
           /\ \A k \in DOMAIN queue'[a] :
            k + 1 \in DOMAIN queue[a] /\ queue'[a][k] = queue[a][k + 1]
           /\ Head(queue[a]) = queue[a][1]
BY DEF TypeOK

\* Sending the head of a queue preserves the delivery invariant.
LEMMA PullItemDelivery ==
    ASSUME TypeOK, DeliveryInv, NEW a \in Agents, PullItem(a)
    PROVE  DeliveryInv'
<1> DEFINE head == queue[a][1]
<1>1. /\ \A b \in Agents : b # a => queue'[b] = queue[b]
      /\ Len(queue[a]) \in Nat \ {0} /\ DOMAIN queue[a] = 1..Len(queue[a])
      /\ DOMAIN queue'[a] = 1..(Len(queue[a]) - 1)
      /\ \A k \in DOMAIN queue'[a] :
            k + 1 \in DOMAIN queue[a] /\ queue'[a][k] = queue[a][k + 1]
      /\ Head(queue[a]) = head
  BY Taken DEF PullItem, CanPull
<1>2. /\ \A b \in Agents : b # a => sent'[b] = sent[b]
      /\ Len(sent[a]) \in Nat /\ DOMAIN sent[a] = 1..Len(sent[a])
      /\ DOMAIN sent'[a] = 1..(Len(sent[a]) + 1)
      /\ \A k \in DOMAIN sent[a] : sent'[a][k] = sent[a][k]
      /\ sent'[a][Len(sent[a]) + 1] = head
  BY <1>1 DEF PullItem, TypeOK
<1>3. items' = items /\ head # 0 /\ Len(items) \in Nat
  BY <1>1 DEF PullItem, TypeOK, Sentinel
<1>4. /\ head \in 1..Len(items)
      /\ items[head].origin # a
      /\ \A j \in DOMAIN sent[a] : sent[a][j] < head
      /\ \A k \in DOMAIN queue'[a] : queue'[a][k] # 0 => head < queue'[a][k]
  <2>1. 1 \in DOMAIN queue[a]
    BY <1>1
  <2>2. head \in 1..Len(items)
    BY <1>3, <2>1 DEF DeliveryInv, Ranges
  <2>3. items[head].origin # a /\ \A j \in DOMAIN sent[a] : sent[a][j] < head
    BY <1>3, <2>1 DEF DeliveryInv, QueueOrder, Foreign, Sentinel
  <2>4. ASSUME NEW k \in DOMAIN queue'[a], queue'[a][k] # 0
        PROVE  head < queue'[a][k]
    <3> DEFINE m == k + 1
    <3>1. m \in DOMAIN queue[a] /\ 1 \in 1..(m - 1) /\ queue'[a][k] = queue[a][m]
      BY <1>1
    <3>2. queue[a][m] # 0
      BY <2>4, <3>1
    <3> HIDE DEF m
    <3>3. queue[a][1] < queue[a][m]
      BY <3>1, <3>2 DEF DeliveryInv, QueueOrder, Sentinel
    <3> QED BY <3>1, <3>3
  <2> QED BY <2>2, <2>3, <2>4
<1>5. Ranges'
  <2> SUFFICES ASSUME NEW b \in Agents
               PROVE  /\ \A k \in DOMAIN queue'[b] : queue'[b][k] \in 0..Len(items)
                      /\ \A k \in DOMAIN sent'[b] : sent'[b][k] \in 1..Len(items)
    BY <1>3 DEF Ranges
  <2>1. /\ \A k \in DOMAIN queue[b] : queue[b][k] \in 0..Len(items)
        /\ \A k \in DOMAIN sent[b] : sent[b][k] \in 1..Len(items)
    BY DEF DeliveryInv, Ranges
  <2>2. CASE b # a
    BY <1>1, <1>2, <2>1, <2>2
  <2>3. CASE b = a
    <3>1. \A k \in DOMAIN queue'[a] : queue'[a][k] \in 0..Len(items)
      BY <1>1, <2>1, <2>3
    <3>2. \A k \in DOMAIN sent'[a] : sent'[a][k] \in 1..Len(items)
      BY <1>2, <1>4, <2>1, <2>3
    <3> QED BY <2>3, <3>1, <3>2
  <2> QED BY <2>2, <2>3
<1>6. TotalOrder'
  <2> SUFFICES ASSUME NEW b \in Agents, NEW j \in DOMAIN sent'[b],
                      NEW k \in DOMAIN sent'[b], j < k
               PROVE  sent'[b][j] < sent'[b][k]
    BY DEF TotalOrder
  <2>1. CASE b # a
    BY <1>2, <2>1 DEF DeliveryInv, TotalOrder
  <2>2. CASE b = a /\ k \in DOMAIN sent[a]
    <3>1. j \in DOMAIN sent[a]
      BY <1>2, <2>2
    <3> QED BY <1>2, <2>2, <3>1 DEF DeliveryInv, TotalOrder
  <2>3. CASE b = a /\ k \notin DOMAIN sent[a]
    <3>1. j \in DOMAIN sent[a] /\ k = Len(sent[a]) + 1
      BY <1>2, <2>3
    <3> QED BY <1>2, <1>4, <2>3, <3>1
  <2> QED BY <2>1, <2>2, <2>3
<1>7. QueueOrder'
  <2> SUFFICES ASSUME NEW b \in Agents, NEW k \in DOMAIN queue'[b], queue'[b][k] # 0
               PROVE  /\ \A j \in DOMAIN sent'[b] : sent'[b][j] < queue'[b][k]
                      /\ \A j \in 1..(k - 1) : queue'[b][j] < queue'[b][k]
    BY DEF QueueOrder, Sentinel
  <2>1. CASE b # a
    BY <1>1, <1>2, <2>1 DEF DeliveryInv, QueueOrder, Sentinel
  <2>2. CASE b = a
    <3>1. k + 1 \in DOMAIN queue[a] /\ queue'[a][k] = queue[a][k + 1]
      BY <1>1, <2>2
    <3>2. /\ \A j \in DOMAIN sent[a] : sent[a][j] < queue[a][k + 1]
          /\ \A j \in 1..k : queue[a][j] < queue[a][k + 1]
      BY <1>1, <2>2, <3>1 DEF DeliveryInv, QueueOrder, Sentinel
    <3>3. ASSUME NEW j \in 1..(k - 1)
          PROVE  queue'[a][j] < queue'[a][k]
      <4>1. j \in DOMAIN queue'[a] /\ j + 1 \in 1..k
        BY <1>1, <2>2
      <4>2. queue'[a][j] = queue[a][j + 1]
        BY <1>1, <4>1
      <4> QED BY <3>1, <3>2, <4>1, <4>2
    <3>4. head < queue'[a][k]
      BY <1>4, <2>2
    <3>5. \A j \in DOMAIN sent'[a] : sent'[a][j] < queue'[a][k]
      BY <1>2, <3>1, <3>2, <3>4
    <3> QED BY <2>2, <3>3, <3>5
  <2> QED BY <2>1, <2>2
<1>8. Complete'
  <2> SUFFICES ASSUME NEW b \in Agents, NEW i \in DOMAIN items, items[i].origin # b
               PROVE  \/ \E k \in DOMAIN sent'[b] : sent'[b][k] = i
                      \/ \E k \in DOMAIN queue'[b] : queue'[b][k] = i
    BY <1>3 DEF Complete
  <2>1. \/ \E k \in DOMAIN sent[b] : sent[b][k] = i
        \/ \E k \in DOMAIN queue[b] : queue[b][k] = i
    BY DEF DeliveryInv, Complete
  <2>2. CASE b # a
    BY <1>1, <1>2, <2>1, <2>2
  <2>3. CASE b = a
    <3>1. ASSUME NEW k \in DOMAIN sent[a], sent[a][k] = i
          PROVE  \E m \in DOMAIN sent'[a] : sent'[a][m] = i
      BY <1>2, <3>1
    <3>2. ASSUME NEW k \in DOMAIN queue[a], queue[a][k] = i
          PROVE  \/ \E m \in DOMAIN sent'[a] : sent'[a][m] = i
                 \/ \E m \in DOMAIN queue'[a] : queue'[a][m] = i
      <4>1. CASE k = 1
        BY <1>2, <3>2, <4>1
      <4>2. CASE k # 1
        <5>1. k - 1 \in DOMAIN queue'[a] /\ queue'[a][k - 1] = i
          BY <1>1, <3>2, <4>2
        <5> QED BY <5>1
      <4> QED BY <4>1, <4>2
    <3> QED BY <2>1, <2>3, <3>1, <3>2
  <2> QED BY <2>2, <2>3
<1>9. Foreign'
  <2> SUFFICES ASSUME NEW b \in Agents
               PROVE  /\ \A k \in DOMAIN queue'[b] :
                            queue'[b][k] # 0 => items[queue'[b][k]].origin # b
                      /\ \A k \in DOMAIN sent'[b] : items[sent'[b][k]].origin # b
    BY <1>3 DEF Foreign, Sentinel
  <2>1. /\ \A k \in DOMAIN queue[b] : queue[b][k] # 0 => items[queue[b][k]].origin # b
        /\ \A k \in DOMAIN sent[b] : items[sent[b][k]].origin # b
    BY DEF DeliveryInv, Foreign, Sentinel
  <2>2. CASE b # a
    BY <1>1, <1>2, <2>1, <2>2
  <2>3. CASE b = a
    <3>1. \A k \in DOMAIN queue'[a] : queue'[a][k] # 0 => items[queue'[a][k]].origin # a
      BY <1>1, <2>1, <2>3
    <3>2. \A k \in DOMAIN sent'[a] : items[sent'[a][k]].origin # a
      BY <1>2, <1>4, <2>1, <2>3
    <3> QED BY <2>3, <3>1, <3>2
  <2> QED BY <2>2, <2>3
<1>10. Attribution'
  BY <1>3 DEF DeliveryInv, Attribution
<1> QED BY <1>5, <1>6, <1>7, <1>8, <1>9, <1>10 DEF DeliveryInv

\* So does taking a sentinel.
LEMMA PullSentinelDelivery ==
    ASSUME TypeOK, DeliveryInv, NEW a \in Agents, PullSentinel(a)
    PROVE  DeliveryInv'
<1>1. /\ \A b \in Agents : b # a => queue'[b] = queue[b]
      /\ Len(queue[a]) \in Nat \ {0} /\ DOMAIN queue[a] = 1..Len(queue[a])
      /\ DOMAIN queue'[a] = 1..(Len(queue[a]) - 1)
      /\ \A k \in DOMAIN queue'[a] :
            k + 1 \in DOMAIN queue[a] /\ queue'[a][k] = queue[a][k + 1]
      /\ Head(queue[a]) = queue[a][1]
  BY Taken DEF PullSentinel, CanPull
<1>2. UNCHANGED <<items, sent>> /\ queue[a][1] = 0
  BY <1>1 DEF PullSentinel, Sentinel
<1>3. Ranges'
  BY <1>1, <1>2 DEF DeliveryInv, Ranges
<1>4. TotalOrder'
  BY <1>2 DEF DeliveryInv, TotalOrder
<1>5. QueueOrder'
  <2> SUFFICES ASSUME NEW b \in Agents, NEW k \in DOMAIN queue'[b], queue'[b][k] # 0
               PROVE  /\ \A j \in DOMAIN sent[b] : sent[b][j] < queue'[b][k]
                      /\ \A j \in 1..(k - 1) : queue'[b][j] < queue'[b][k]
    BY <1>2 DEF QueueOrder, Sentinel
  <2>1. CASE b # a
    BY <1>1, <2>1 DEF DeliveryInv, QueueOrder, Sentinel
  <2>2. CASE b = a
    <3>1. k + 1 \in DOMAIN queue[a] /\ queue'[a][k] = queue[a][k + 1]
      BY <1>1, <2>2
    <3>2. /\ \A j \in DOMAIN sent[a] : sent[a][j] < queue[a][k + 1]
          /\ \A j \in 1..k : queue[a][j] < queue[a][k + 1]
      BY <1>1, <2>2, <3>1 DEF DeliveryInv, QueueOrder, Sentinel
    <3>3. \A j \in 1..(k - 1) : queue'[a][j] = queue[a][j + 1] /\ j + 1 \in 1..k
      BY <1>1, <2>2
    <3> QED BY <2>2, <3>1, <3>2, <3>3
  <2> QED BY <2>1, <2>2
<1>6. Complete'
  <2> SUFFICES ASSUME NEW b \in Agents, NEW i \in DOMAIN items, items[i].origin # b
               PROVE  \/ \E k \in DOMAIN sent[b] : sent[b][k] = i
                      \/ \E k \in DOMAIN queue'[b] : queue'[b][k] = i
    BY <1>2 DEF Complete
  <2>1. \/ \E k \in DOMAIN sent[b] : sent[b][k] = i
        \/ \E k \in DOMAIN queue[b] : queue[b][k] = i
    BY DEF DeliveryInv, Complete
  <2>2. ASSUME NEW k \in DOMAIN queue[b], queue[b][k] = i
        PROVE  \E m \in DOMAIN queue'[b] : queue'[b][m] = i
    <3>1. CASE b # a
      BY <1>1, <2>2, <3>1
    <3>2. CASE b = a
      <4>1. i # 0
        BY DEF TypeOK
      <4>2. k - 1 \in DOMAIN queue'[a] /\ queue'[a][k - 1] = i
        BY <1>1, <1>2, <2>2, <3>2, <4>1
      <4> QED BY <3>2, <4>2
    <3> QED BY <3>1, <3>2
  <2> QED BY <2>1, <2>2
<1>7. Foreign'
  BY <1>1, <1>2 DEF DeliveryInv, Foreign, Sentinel
<1>8. Attribution'
  BY <1>2 DEF DeliveryInv, Attribution
<1> QED BY <1>3, <1>4, <1>5, <1>6, <1>7, <1>8 DEF DeliveryInv

\* So does an action that touches neither items, queues nor streams.
LEMMA QuietDelivery ==
    ASSUME DeliveryInv, UNCHANGED <<items, queue, sent>>
    PROVE  DeliveryInv'
BY DEF DeliveryInv, Ranges, TotalOrder, QueueOrder, Complete, Foreign, Attribution

\* Each action preserves the delivery invariant.
LEMMA DeliveryStep ==
    ASSUME TypeOK, DeliveryInv, [Next]_vars
    PROVE  DeliveryInv'
<1>1. ASSUME NEW kind \in RequestKinds, FanOutRequest(kind)
      PROVE  DeliveryInv'
  BY <1>1, RequestPosts, PostedDelivery DEF Speakers
<1>2. ASSUME FanOutEnds
      PROVE  DeliveryInv'
  BY <1>2, SentinelsDelivery DEF FanOutEnds
<1>3. ASSUME NEW a \in Agents, PullItem(a)
      PROVE  DeliveryInv'
  BY <1>3, PullItemDelivery
<1>4. ASSUME NEW a \in Agents, PullSentinel(a)
      PROVE  DeliveryInv'
  BY <1>4, PullSentinelDelivery
<1>5. ASSUME NEW a \in Agents, NEW kind \in ResponseKinds, ReadResponse(a, kind)
      PROVE  DeliveryInv'
  BY <1>5, ResponsePosts, PostedDelivery, QuietDelivery DEF Speakers
<1>6. ASSUME NEW a \in Agents,
             EndOfStream(a) \/ StreamError(a) \/ ReaderCancelled(a) \/ RelayError(a)
      PROVE  DeliveryInv'
  BY <1>6, QuietDelivery
     DEF EndOfStream, StreamError, ReaderCancelled, RelayError, ReaderFinally, CanRespond
<1>7. ASSUME YieldResponse \/ CountDone
      PROVE  DeliveryInv'
  BY <1>7, QuietDelivery DEF YieldResponse, CountDone
<1>8. ASSUME Finish \/ Close
      PROVE  DeliveryInv'
  BY <1>8, SentinelsDelivery DEF Finish, Close, Finalise
<1>9. CASE UNCHANGED vars
  BY <1>9, QuietDelivery DEF vars
<1> QED
  BY <1>1, <1>2, <1>3, <1>4, <1>5, <1>6, <1>7, <1>8, <1>9 DEF Next, AgentStep

\* The delivery invariant holds in every reachable state.
LEMMA Delivery_Invariant == Spec => []DeliveryInv
<1>1. Init => DeliveryInv
  BY DEF Init, DeliveryInv, Ranges, TotalOrder, QueueOrder, Complete, Foreign, Attribution
<1>2. TypeOK /\ DeliveryInv /\ [Next]_vars => DeliveryInv'
  BY DeliveryStep
<1> QED BY <1>1, <1>2, Typing, PTL DEF Spec

\* What an agent was sent of the items that concern it is a prefix of them.
LEMMA SentIsPrefix ==
    ASSUME TypeOK, DeliveryInv, NEW a \in Agents, NEW k \in DOMAIN sent[a],
           NEW i \in 1..sent[a][k], items[i].origin # a
    PROVE  \E j \in DOMAIN sent[a] : sent[a][j] = i
<1>1. sent[a][k] \in 1..Len(items) /\ DOMAIN items = 1..Len(items) /\ Len(items) \in Nat
  BY DEF DeliveryInv, Ranges, TypeOK
<1>2. i \in DOMAIN items /\ i # 0 /\ ~(sent[a][k] < i)
  BY <1>1
<1>3. ~ \E m \in DOMAIN queue[a] : queue[a][m] = i
  BY <1>2 DEF DeliveryInv, QueueOrder, Sentinel
<1> QED BY <1>2, <1>3 DEF DeliveryInv, Complete

-----------------------------------------------------------------------------
(* The theorems about delivery                                             *)

\* All agents hear the session in the order in which its items were created.
THEOREM AgentsAgreeOnOrder == Spec => []TotalOrder
BY Delivery_Invariant, PTL DEF DeliveryInv

\* No agent misses an item that was created before one it was sent.
THEOREM NothingSkipped == Spec => []GapFree
<1>1. TypeOK /\ DeliveryInv => GapFree
  BY SentIsPrefix DEF GapFree, Indices
<1> QED BY <1>1, Typing, Delivery_Invariant, PTL

\* No agent hears itself, or a message that bears its name.
THEOREM EchoSuppressed == Spec => []NoEcho
<1>1. TypeOK /\ DeliveryInv => NoEcho
  <2> SUFFICES ASSUME TypeOK, DeliveryInv, NEW a \in Agents, NEW k \in DOMAIN sent[a]
               PROVE  items[sent[a][k]].origin # a /\ items[sent[a][k]].sender # a
    BY DEF NoEcho, Indices
  <2>1. sent[a][k] \in DOMAIN items
    BY DEF DeliveryInv, Ranges, TypeOK
  <2> QED BY <2>1 DEF DeliveryInv, Foreign, Attribution
<1> QED BY <1>1, Typing, Delivery_Invariant, PTL

-----------------------------------------------------------------------------
(* The transport implements the group chat                                 *)

\* Posting an item is saying it.
LEMMA PostedSays ==
    ASSUME TypeOK, NEW s \in Speakers, Posted(s)
    PROVE  Chat!Say(s)
<1>1. PICK it \in Item : it.origin = s /\ items' = Append(items, it) /\ sent' = sent
  BY DEF Posted
<1> DEFINE log == [i \in DOMAIN items |-> items[i].origin]
<1>2. /\ Len(items) \in Nat
      /\ DOMAIN items = 1..Len(items) /\ DOMAIN items' = 1..(Len(items) + 1)
      /\ \A i \in DOMAIN items : items'[i] = items[i] /\ items[i].origin \in Speakers
      /\ items'[Len(items) + 1] = it /\ it.origin \in Speakers
  <2>1. items \in Seq(Item)
    BY DEF TypeOK
  <2>2. \A r \in Item : r.origin \in Speakers
    BY DEF Item
  <2>3. Len(items) \in Nat /\ DOMAIN items = 1..Len(items)
    BY <2>1
  <2>4. \A i \in DOMAIN items : items[i] \in Item
    BY <2>1
  <2>5. /\ DOMAIN items' = 1..(Len(items) + 1)
        /\ \A i \in DOMAIN items : items'[i] = items[i]
        /\ items'[Len(items) + 1] = it
    BY <1>1, <2>1
  <2> QED BY <1>1, <2>2, <2>3, <2>4, <2>5
<1>3. log \in Seq(Speakers) /\ Len(log) = Len(items)
  BY <1>2
<1>4. log' = Append(log, s)
  BY <1>1, <1>2, <1>3
<1> QED BY <1>1, <1>4 DEF Chat!Say

\* Taking an item from the queue is hearing the next contribution that
\* concerns the agent.
LEMMA PullHears ==
    ASSUME TypeOK, DeliveryInv, DeliveryInv', NEW a \in Agents, PullItem(a)
    PROVE  \E i \in 1..Len(items) : Chat!Hear(a, i)
<1> DEFINE head == queue[a][1]
           last == Len(sent[a])
<1>1. /\ queue[a] # <<>> /\ Head(queue[a]) = head /\ head # 0
      /\ 1 \in DOMAIN queue[a] /\ DOMAIN items = 1..Len(items) /\ Len(items) \in Nat
      /\ last \in Nat /\ DOMAIN sent[a] = 1..last /\ sent[a] \in Seq(Nat)
      /\ last = 0 <=> sent[a] = <<>>
  BY DEF PullItem, CanPull, TypeOK, Sentinel
<1>2. /\ sent' = [sent EXCEPT ![a] = Append(@, head)]
      /\ items' = items
  BY <1>1 DEF PullItem
<1>3. /\ DOMAIN sent'[a] = 1..(last + 1) /\ sent'[a][last + 1] = head
      /\ \A k \in 1..last : sent'[a][k] = sent[a][k]
  BY <1>1, <1>2 DEF TypeOK
<1>4. head \in 1..Len(items) /\ items[head].origin # a
  BY <1>1, <1>2, <1>3 DEF DeliveryInv, Ranges, Foreign
<1>5. Chat!LastHeard(a) < head /\ Chat!LastHeard(a) \in Nat
  <2>1. CASE sent[a] = <<>>
    BY <1>4, <2>1 DEF Chat!LastHeard
  <2>2. CASE sent[a] # <<>>
    <3>1. Chat!LastHeard(a) = sent[a][last] /\ last \in DOMAIN sent[a]
      BY <1>1, <2>2 DEF Chat!LastHeard
    <3>2. sent[a][last] < head
      BY <1>1, <3>1 DEF DeliveryInv, QueueOrder, Sentinel
    <3> QED BY <1>1, <3>1, <3>2 DEF TypeOK
  <2> QED BY <2>1, <2>2
<1>6. ASSUME NEW j \in 1..(head - 1), Chat!LastHeard(a) < j
      PROVE  items[j].origin = a
  <2> SUFFICES ASSUME items[j].origin # a PROVE FALSE
    OBVIOUS
  <2>1. \A k \in DOMAIN sent[a] : sent[a][k] # j
    <3> SUFFICES ASSUME NEW k \in DOMAIN sent[a], sent[a][k] = j PROVE FALSE
      OBVIOUS
    <3>1. last \in DOMAIN sent[a] /\ sent[a] # <<>> /\ k \in 1..last
      BY <1>1
    <3>2. Chat!LastHeard(a) = sent[a][last]
      BY <3>1 DEF Chat!LastHeard
    <3>3. k < last => sent[a][k] < sent[a][last]
      BY <3>1 DEF DeliveryInv, TotalOrder
    <3>4. k = last \/ k < last
      BY <1>1, <3>1
    <3> QED BY <1>1, <1>6, <3>1, <3>2, <3>3, <3>4 DEF TypeOK
  <2>2. items[j].origin # a /\ j \in 1..Len(items)
    BY <1>4
  <2>3. ~ \E k \in DOMAIN queue[a] : queue[a][k] = j
    <3> SUFFICES ASSUME NEW k \in DOMAIN queue[a], queue[a][k] = j PROVE FALSE
      OBVIOUS
    <3>1. j # 0 /\ j < head
      BY <1>4
    <3>2. k # 1
      BY <3>1, <1>4
    <3>3. 1 \in 1..(k - 1)
      BY <3>2 DEF TypeOK
    <3>4. head < queue[a][k]
      BY <3>1, <3>3 DEF DeliveryInv, QueueOrder, Sentinel
    <3> QED BY <1>4, <3>1, <3>4
  <2> QED BY <1>1, <2>1, <2>2, <2>3 DEF DeliveryInv, Complete
<1> DEFINE log == [i \in DOMAIN items |-> items[i].origin]
<1>7. \A i \in 1..Len(items) : log[i] = items[i].origin
  BY <1>1
<1>8. log' = log
  BY <1>2
<1>9. Chat!Hear(a, head)
  BY <1>2, <1>4, <1>5, <1>6, <1>7, <1>8 DEF Chat!Hear
<1> QED BY <1>4, <1>9

\* The log of the abstract chat is as long as the sequence of items.
LEMMA LogLength ==
    ASSUME TypeOK
    PROVE  Len([i \in DOMAIN items |-> items[i].origin]) = Len(items)
BY DEF TypeOK

\* The transport is a group chat: each step of it is a contribution, a
\* member hearing the next contribution of another, or invisible.
THEOREM TransportImplementsGroupChat == Spec => ImplementsGroupChat
<1>1. Init => Chat!Init
  BY DEF Init, Chat!Init
<1>2. ASSUME TypeOK, DeliveryInv, DeliveryInv', [Next]_vars
      PROVE  [Chat!Next]_(Chat!vars)
  <2> DEFINE Quiet == UNCHANGED <<items, sent>>
  <2>1. ASSUME NEW s \in Speakers, Posted(s)
        PROVE  Chat!Next
    BY <1>2, <2>1, PostedSays DEF Chat!Next, Chat!Speakers, Speakers
  <2>2. ASSUME NEW a \in Agents, PullItem(a)
        PROVE  Chat!Next
    <3>1. PICK i \in 1..Len(items) : Chat!Hear(a, i)
      BY <1>2, <2>2, PullHears
    <3>2. i \in 1..Len([k \in DOMAIN items |-> items[k].origin])
      BY <1>2, LogLength
    <3> QED BY <3>1, <3>2, Zenon DEF Chat!Next
  <2>3. Quiet => UNCHANGED Chat!vars
    BY DEF Chat!vars
  <2>4. ASSUME NEW kind \in RequestKinds, FanOutRequest(kind)
        PROVE  Chat!Next
    BY <1>2, <2>1, <2>4, RequestPosts DEF Speakers
  <2>5. ASSUME NEW a \in Agents, NEW kind \in ResponseKinds, ReadResponse(a, kind)
        PROVE  Chat!Next \/ Quiet
    BY <1>2, <2>1, <2>5, ResponsePosts DEF Speakers
  <2>6. ASSUME FanOutEnds \/ YieldResponse \/ CountDone \/ Finish \/ Close
               \/ UNCHANGED vars
        PROVE  Quiet
    BY <2>6 DEF FanOutEnds, YieldResponse, CountDone, Finish, Close, Finalise, vars
  <2>7. ASSUME NEW a \in Agents,
               PullSentinel(a) \/ EndOfStream(a) \/ StreamError(a)
               \/ ReaderCancelled(a) \/ RelayError(a)
        PROVE  Quiet
    BY <2>7 DEF PullSentinel, EndOfStream, StreamError, ReaderCancelled,
                RelayError, ReaderFinally, CanRespond
  <2> QED
    BY <1>2, <2>2, <2>3, <2>4, <2>5, <2>6, <2>7 DEF Next, AgentStep
<1> QED
  BY <1>1, <1>2, Typing, Delivery_Invariant, PTL DEF Spec, ImplementsGroupChat, Chat!Spec

-----------------------------------------------------------------------------
(* Closing the send sides                                                  *)

\* When the session is over no task runs any more, except to wind down.
OverInv ==
    session # "collecting" =>
        fanOut # "running" /\ \A a \in Agents : reader[a] # "running"

\* In a session that is over every task is done or being cancelled: each action
\* preserves that.
LEMMA OverStep ==
    ASSUME TypeOK, OverInv, [Next]_vars
    PROVE  OverInv'
<1>1. ASSUME Finish \/ Close
      PROVE  OverInv'
  BY <1>1 DEF Finish, Close, Finalise, Cancelled, OverInv
<1>2. ASSUME NEW a \in Agents, ReaderFinally(a)
      PROVE  OverInv'
  BY <1>2 DEF ReaderFinally, OverInv, TypeOK
<1>3. ASSUME NEW a \in Agents, RelayError(a)
      PROVE  OverInv'
  BY <1>3 DEF RelayError, CanRespond, OverInv, TypeOK
<1>4. ASSUME NEW a \in Agents, AgentStep(a)
      PROVE  OverInv'
  BY <1>2, <1>3, <1>4 DEF AgentStep, PullItem, PullSentinel, ReadResponse,
     EndOfStream, StreamError, ReaderCancelled, OverInv
<1>5. ASSUME (\E kind \in RequestKinds : FanOutRequest(kind)) \/ FanOutEnds
             \/ YieldResponse \/ CountDone \/ UNCHANGED vars
      PROVE  OverInv'
  BY <1>5 DEF FanOutRequest, FanOutEnds, YieldResponse, CountDone, vars, OverInv
<1> QED BY <1>1, <1>4, <1>5 DEF Next

\* Once the session is over every task is done or being cancelled.
LEMMA Over_Invariant == Spec => []OverInv
<1>1. Init => OverInv
  BY DEF Init, OverInv
<1> QED BY <1>1, OverStep, Typing, PTL DEF Spec

\* A sentinel is the last thing put on a queue that can matter to the caller.
SentinelSeen(b) == ~sendOpen[b] \/ \E k \in DOMAIN queue[b] : queue[b][k] = Sentinel

CallerItem(b, k) == queue[b][k] # Sentinel /\ items[queue[b][k]].origin = Caller

\* The close invariant, one agent at a time.
LEMMA CloseInvParts ==
    CloseInv <=>
        \A b \in Agents :
            /\ SentinelSeen(b) =>
                 fanOut # "running" /\ (fanOut = "done" \/ session # "collecting")
            /\ \A k \in DOMAIN queue[b] : CallerItem(b, k) =>
                 sendOpen[b] /\ \A j \in 1..k : queue[b][j] # Sentinel
BY DEF CloseInv, SentinelSeen, CallerItem

\* Putting an item of s on the others' queues keeps the caller's items before
\* the sentinels, unless the caller is s and there is a sentinel.
LEMMA PostedClose ==
    ASSUME TypeOK, Ranges, CloseInv, NEW s \in Speakers, Posted(s),
           s = Caller => fanOut = "running",
           UNCHANGED <<fanOut, session>>
    PROVE  CloseInv'
<1> DEFINE new == Len(items) + 1
<1>1. PICK it \in Item :
        /\ it.origin = s
        /\ items' = Append(items, it)
        /\ queue' = [b \in Agents |-> IF b = s THEN queue[b] ELSE Append(queue[b], new)]
        /\ UNCHANGED <<sent, sendOpen>>
  BY DEF Posted
<1>2. /\ Len(items) \in Nat /\ DOMAIN items = 1..Len(items)
      /\ \A i \in DOMAIN items : items'[i] = items[i]
      /\ items'[new] = it
  BY <1>1 DEF TypeOK
<1> SUFFICES ASSUME NEW b \in Agents
             PROVE  /\ SentinelSeen(b)' =>
                         fanOut # "running" /\ (fanOut = "done" \/ session # "collecting")
                    /\ \A k \in DOMAIN queue'[b] : CallerItem(b, k)' =>
                         sendOpen[b] /\ \A j \in 1..k : queue'[b][j] # Sentinel
  BY <1>1, CloseInvParts DEF CloseInv, SentinelSeen, CallerItem
<1>3. \A k \in DOMAIN queue[b] : queue[b][k] # 0 => items'[queue[b][k]] = items[queue[b][k]]
  BY <1>2 DEF Ranges
<1>4. CASE b = s
  <2>1. queue'[b] = queue[b] /\ sendOpen' = sendOpen
    BY <1>1, <1>4
  <2> QED BY <1>3, <2>1 DEF CloseInv, SentinelSeen, CallerItem, Sentinel
<1>5. CASE b # s
  <2>1. /\ DOMAIN queue[b] = 1..Len(queue[b]) /\ Len(queue[b]) \in Nat
        /\ DOMAIN queue'[b] = 1..(Len(queue[b]) + 1)
        /\ \A k \in DOMAIN queue[b] : queue'[b][k] = queue[b][k]
        /\ queue'[b][Len(queue[b]) + 1] = new /\ new # 0
        /\ sendOpen' = sendOpen
    BY <1>1, <1>2, <1>5 DEF TypeOK
  <2>2. SentinelSeen(b)' <=> SentinelSeen(b)
    BY <2>1 DEF SentinelSeen, Sentinel
  <2>3. ASSUME NEW k \in DOMAIN queue'[b], CallerItem(b, k)'
        PROVE  sendOpen[b] /\ \A j \in 1..k : queue'[b][j] # Sentinel
    <3>1. CASE k \in DOMAIN queue[b]
      <4>1. CallerItem(b, k)
        BY <1>3, <2>1, <2>3, <3>1 DEF CallerItem, Sentinel
      <4>2. \A j \in 1..k : queue'[b][j] = queue[b][j]
        BY <2>1, <3>1
      <4> QED BY <3>1, <4>1, <4>2, CloseInvParts
    <3>2. CASE k \notin DOMAIN queue[b]
      <4>1. k = Len(queue[b]) + 1 /\ s = Caller
        BY <1>1, <1>2, <2>1, <2>3, <3>2 DEF CallerItem
      <4>2. ~SentinelSeen(b)'
        BY <2>2, <4>1, CloseInvParts
      <4>3. sendOpen[b] /\ \A j \in DOMAIN queue'[b] : queue'[b][j] # Sentinel
        BY <2>1, <4>2 DEF SentinelSeen
      <4> QED BY <2>1, <4>1, <4>3
    <3> QED BY <3>1, <3>2
  <2> QED BY <2>2, <2>3, CloseInvParts
<1> QED BY <1>4, <1>5

\* Sentinels may be put once the fan-out is over or being cancelled.
LEMMA SentinelsClose ==
    ASSUME TypeOK, CloseInv, PutSentinels, UNCHANGED <<items, sendOpen>>,
           fanOut' # "running", fanOut' = "done" \/ session' # "collecting"
    PROVE  CloseInv'
<1>1. ASSUME NEW b \in Agents
      PROVE  /\ DOMAIN queue[b] = 1..Len(queue[b]) /\ Len(queue[b]) \in Nat
             /\ DOMAIN queue'[b] = 1..(Len(queue[b]) + 1)
             /\ \A k \in DOMAIN queue[b] : queue'[b][k] = queue[b][k]
             /\ queue'[b][Len(queue[b]) + 1] = Sentinel
  BY DEF PutSentinels, TypeOK, Sentinel
<1> SUFFICES ASSUME NEW b \in Agents, NEW k \in DOMAIN queue'[b], CallerItem(b, k)'
             PROVE  sendOpen[b] /\ \A j \in 1..k : queue'[b][j] # Sentinel
  BY DEF CloseInv, CallerItem
<1>2. k \in DOMAIN queue[b] /\ \A j \in 1..k : queue'[b][j] = queue[b][j]
  BY <1>1 DEF CallerItem
<1>3. CallerItem(b, k)
  BY <1>1, <1>2 DEF CallerItem
<1> QED BY <1>2, <1>3, CloseInvParts

\* Taking the head of a queue, whatever it is: if it is a sentinel, no item of
\* the caller is behind it.
LEMMA TakenClose ==
    ASSUME TypeOK, CloseInv, NEW a \in Agents, PullItem(a) \/ PullSentinel(a)
    PROVE  CloseInv'
<1>1. /\ \A b \in Agents : b # a => queue'[b] = queue[b]
      /\ Len(queue[a]) \in Nat \ {0} /\ DOMAIN queue[a] = 1..Len(queue[a])
      /\ DOMAIN queue'[a] = 1..(Len(queue[a]) - 1)
      /\ \A k \in DOMAIN queue'[a] :
            k + 1 \in DOMAIN queue[a] /\ queue'[a][k] = queue[a][k + 1]
      /\ Head(queue[a]) = queue[a][1]
  BY Taken DEF PullItem, PullSentinel, CanPull
<1>2. UNCHANGED <<items, fanOut, session>>
  BY DEF PullItem, PullSentinel
<1>3. \/ sendOpen' = sendOpen
      \/ sendOpen' = [sendOpen EXCEPT ![a] = FALSE] /\ queue[a][1] = Sentinel
  BY <1>1 DEF PullItem, PullSentinel
<1>4. ASSUME NEW b \in Agents, b # a
      PROVE  sendOpen'[b] = sendOpen[b] /\ queue'[b] = queue[b]
  BY <1>1, <1>3, <1>4 DEF TypeOK
<1>5. 1 \in DOMAIN queue[a]
  BY <1>1
<1>6. SentinelSeen(a)' => SentinelSeen(a)
  BY <1>1, <1>3, <1>5 DEF SentinelSeen
<1>7. ASSUME NEW k \in DOMAIN queue'[a], CallerItem(a, k)'
      PROVE  sendOpen'[a] /\ \A j \in 1..k : queue'[a][j] # Sentinel
  <2> DEFINE m == k + 1
  <2>1. m \in DOMAIN queue[a] /\ CallerItem(a, m)
    BY <1>1, <1>2, <1>7 DEF CallerItem
  <2> HIDE DEF m
  <2>2. sendOpen[a] /\ \A j \in 1..m : queue[a][j] # Sentinel
    BY <2>1, CloseInvParts
  <2> USE DEF m
  <2>3. queue[a][1] # Sentinel
    BY <1>1, <2>2
  <2>4. ASSUME NEW j \in 1..k
        PROVE  queue'[a][j] # Sentinel
    <3>1. j \in DOMAIN queue'[a] /\ j + 1 \in 1..m
      BY <1>1
    <3> QED BY <1>1, <2>2, <3>1
  <2> QED BY <1>3, <2>2, <2>3, <2>4
<1>8. ASSUME NEW b \in Agents
      PROVE  /\ SentinelSeen(b)' => SentinelSeen(b)
             /\ \A k \in DOMAIN queue'[b] : CallerItem(b, k)' =>
                   sendOpen'[b] /\ \A j \in 1..k : queue'[b][j] # Sentinel
  <2>1. CASE b = a
    BY <1>6, <1>7, <2>1
  <2>2. CASE b # a
    <3>1. sendOpen'[b] = sendOpen[b] /\ queue'[b] = queue[b]
      BY <1>4, <2>2
    <3> QED BY <1>2, <3>1, CloseInvParts DEF SentinelSeen, CallerItem
  <2> QED BY <2>1, <2>2
<1> QED BY <1>2, <1>8, CloseInvParts DEF CloseInv, SentinelSeen, CallerItem

\* Ends and cancellations of tasks that put nothing on the agents' queues.
LEMMA QuietClose ==
    ASSUME CloseInv, UNCHANGED <<items, queue, sendOpen, fanOut, session>>
    PROVE  CloseInv'
BY DEF CloseInv

\* Each action preserves the close invariant.
LEMMA CloseStep ==
    ASSUME TypeOK, Ranges, OverInv, CloseInv, [Next]_vars
    PROVE  CloseInv'
<1>1. ASSUME NEW kind \in RequestKinds, FanOutRequest(kind)
      PROVE  CloseInv'
  <2>1. fanOut = "running" /\ UNCHANGED <<fanOut, session>>
    BY <1>1 DEF FanOutRequest
  <2> QED BY <1>1, <2>1, RequestPosts, PostedClose DEF Speakers
<1>2. ASSUME FanOutEnds
      PROVE  CloseInv'
  BY <1>2, SentinelsClose DEF FanOutEnds
<1>3. ASSUME NEW a \in Agents, PullItem(a) \/ PullSentinel(a)
      PROVE  CloseInv'
  BY <1>3, TakenClose
<1>4. ASSUME NEW a \in Agents, NEW kind \in ResponseKinds, ReadResponse(a, kind)
      PROVE  CloseInv'
  <2>1. UNCHANGED <<fanOut, session>> /\ a # Caller
    BY <1>4, AgentsAssumption DEF ReadResponse
  <2>2. Posted(a) \/ UNCHANGED <<items, queue, sent, sendOpen>>
    BY <1>4, ResponsePosts
  <2> QED BY <2>1, <2>2, PostedClose, QuietClose DEF Speakers
<1>5. ASSUME NEW a \in Agents,
             EndOfStream(a) \/ StreamError(a) \/ ReaderCancelled(a) \/ RelayError(a)
      PROVE  CloseInv'
  BY <1>5, QuietClose
     DEF EndOfStream, StreamError, ReaderCancelled, RelayError, ReaderFinally, CanRespond
<1>6. ASSUME YieldResponse \/ CountDone
      PROVE  CloseInv'
  BY <1>6, QuietClose DEF YieldResponse, CountDone
<1>7. ASSUME Finish \/ Close
      PROVE  CloseInv'
  <2>1. /\ PutSentinels /\ UNCHANGED <<items, sendOpen>>
        /\ session' # "collecting" /\ fanOut' # "running"
    BY <1>7 DEF Finish, Close, Finalise, Cancelled
  <2> QED BY <2>1, SentinelsClose
<1>8. CASE UNCHANGED vars
  BY <1>8, QuietClose DEF vars
<1> QED
  BY <1>1, <1>2, <1>3, <1>4, <1>5, <1>6, <1>7, <1>8 DEF Next, AgentStep

\* The close invariant holds in every reachable state.
LEMMA Close_Invariant == Spec => []CloseInv
<1>1. Init => CloseInv
  BY DEF Init, CloseInv
<1>2. DeliveryInv => Ranges
  BY DEF DeliveryInv
<1> QED
  BY <1>1, <1>2, CloseStep, Typing, Delivery_Invariant, Over_Invariant, PTL DEF Spec

\* An agent whose send side is closed was sent every request of the caller.
THEOREM RequestsPrecedeClose == Spec => []NoRequestLost
<1>1. TypeOK /\ DeliveryInv /\ CloseInv => NoRequestLost
  <2> SUFFICES ASSUME TypeOK, DeliveryInv, CloseInv, NEW a \in Agents, ~sendOpen[a],
                      NEW i \in DOMAIN items, items[i].origin = Caller
               PROVE  \E k \in DOMAIN sent[a] : sent[a][k] = i
    BY DEF NoRequestLost, Indices
  <2>1. i # Sentinel /\ items[i].origin # a
    BY AgentsAssumption DEF TypeOK, Sentinel
  <2>2. ~ \E k \in DOMAIN queue[a] : queue[a][k] = i
    BY <2>1 DEF CloseInv
  <2> QED BY <2>1, <2>2 DEF DeliveryInv, Complete
<1> QED BY <1>1, Typing, Delivery_Invariant, Close_Invariant, PTL

\* Only the end of the caller's stream or of the session closes a send side.
THEOREM FailuresStayIsolated == Spec => []PeersDoNotCloseStreams
<1>1. CloseInv => PeersDoNotCloseStreams
  BY DEF CloseInv, PeersDoNotCloseStreams
<1> QED BY <1>1, Close_Invariant, PTL

\* Once the session is over nothing more is read, relayed or yielded.
THEOREM NothingAfterTheEnd == Spec => QuietAfterEnd
<1>1. OverInv /\ [Next]_vars =>
          [session # "collecting" =>
              UNCHANGED <<items, requests, responses, yielded>>]_vars
  <2> SUFFICES ASSUME OverInv, Next, session # "collecting"
               PROVE  UNCHANGED <<items, requests, responses, yielded>>
    OBVIOUS
  <2>1. fanOut # "running" /\ \A a \in Agents : reader[a] # "running"
    BY DEF OverInv
  <2>2. ASSUME NEW a \in Agents, AgentStep(a)
        PROVE  UNCHANGED <<items, requests, responses, yielded>>
    BY <2>1, <2>2 DEF AgentStep, PullItem, PullSentinel, ReadResponse, EndOfStream,
       StreamError, RelayError, CanRespond, ReaderCancelled, ReaderFinally
  <2> QED
    BY <2>1, <2>2 DEF Next, FanOutRequest, FanOutEnds, YieldResponse, CountDone,
       Finish, Close
<1> QED BY <1>1, Over_Invariant, PTL DEF Spec, QuietAfterEnd
=============================================================================
