---------------------- MODULE MulticastBroadcastProofs ----------------------
(***************************************************************************)
(* Proofs about MulticastBroadcast for any set of agents, any payloads and *)
(* any bounds: the one stream of the GROUP channel delivers the group chat *)
(* of GroupChat, the caller is told the same story, and closing the stream *)
(* overtakes no request.                                                   *)
(***************************************************************************)
EXTENDS MulticastBroadcast, RecursionLemmas, SequenceTheorems, FiniteSetTheorems

-----------------------------------------------------------------------------
(* The inductive invariants                                                *)

(***************************************************************************)
(* Every item goes once through the one queue, so what was sent is the     *)
(* items themselves up to some position, what an agent was given the items *)
(* up to an earlier one, and the queue holds the rest in order, among      *)
(* sentinels.                                                              *)
(***************************************************************************)
Numbers(s) == \A k \in DOMAIN s : s[k] = k

StreamInv ==
    /\ Numbers(sent) /\ Len(sent) <= Len(items)
    /\ \A a \in Agents : Numbers(heard[a]) /\ Len(heard[a]) <= Len(sent)
    /\ \A k \in DOMAIN queue : queue[k] # Sentinel => queue[k] > Len(sent)
    /\ \A j, k \in DOMAIN queue : j < k /\ queue[j] # Sentinel /\ queue[k] # Sentinel
           => queue[j] < queue[k]
    /\ \A i \in DOMAIN items : i > Len(sent) => \E k \in DOMAIN queue : queue[k] = i

\* A session that is over has no response to relay and no fan-out running.
OverInv == session # "reading" => fanOut # "running" /\ pending = None

\* There is a sentinel, on the queue or taken from it.
SentinelSeen == ~sendOpen \/ \E k \in DOMAIN queue : queue[k] = Sentinel

\* A sentinel comes after the fan-out, and no request of the caller waits
\* behind it.
CloseInv ==
    /\ SentinelSeen => fanOut # "running" /\ (fanOut = "done" \/ session # "reading")
    /\ \A k \in DOMAIN queue :
          queue[k] # Sentinel /\ items[queue[k]].origin = Caller =>
              sendOpen /\ \A j \in 1..k : queue[j] # Sentinel

(***************************************************************************)
(* The story: the responses of an agent are numbered as the caller is given*)
(* them, every item of an agent was built from a response the caller was   *)
(* given, in the same order, and only the last response may lack its item. *)
(***************************************************************************)
Numbered ==
    /\ \A p \in DOMAIN yielded : yielded[p].n <= responses[yielded[p].agent]
    /\ \A p, q \in DOMAIN yielded :
          p < q /\ yielded[p].agent = yielded[q].agent => yielded[p].n < yielded[q].n

AtLast == pending # None => yielded # <<>> /\ yielded[Len(yielded)] = pending

Told ==
    \A i \in DOMAIN items : items[i].origin \in Agents =>
        \E p \in DOMAIN yielded :
            BuiltFrom(items[i], yielded[p]) /\ (pending # None => p < Len(yielded))

ToldInOrder ==
    \A i, j \in DOMAIN items : \A p, q \in DOMAIN yielded :
        i < j /\ BuiltFrom(items[i], yielded[p]) /\ BuiltFrom(items[j], yielded[q]) => p < q

Relay ==
    \A p \in DOMAIN yielded :
        /\ yielded[p].kind # "other"
        /\ p < Len(yielded) \/ (pending = None /\ session = "reading")
        => \E i \in DOMAIN items : BuiltFrom(items[i], yielded[p])

StoryInv == Numbered /\ AtLast /\ Told /\ ToldInOrder /\ Relay

-----------------------------------------------------------------------------
(* What the steps do to the items and the queue                            *)

\* A new item is put on the queue.
Posted(it) ==
    /\ items' = Append(items, it)
    /\ queue' = Append(queue, Len(items) + 1)
    /\ UNCHANGED <<sent, heard, sendOpen>>

\* A request of the caller becomes an item of the caller.
LEMMA RequestPosts ==
    ASSUME TypeOK, NEW kind \in RequestKinds, FanOutRequest(kind)
    PROVE  \E it \in Item : it.origin = Caller /\ Posted(it)
<1>1. requests \in Nat
  BY BoundsAssumption DEF TypeOK
<1>2. RequestItem(kind) \in Item /\ RequestItem(kind).origin = Caller
  BY <1>1 DEF RequestItem, Item
<1> QED BY <1>2 DEF FanOutRequest, Posted

\* What is forwarded of a response is one item built from it, or nothing of a
\* payload that is not known.
LEMMA ForwardedItem ==
    ASSUME NEW r \in Response
    PROVE  \/ Forwarded(r) = <<>> /\ r.kind = "other"
           \/ \E it \in Item : Forwarded(r) = <<it>> /\ BuiltFrom(it, r)
<1> DEFINE It(sender) == [origin |-> r.agent, n |-> r.n, kind |-> r.kind, sender |-> sender]
<1>1. \A sender \in {r.agent, OutOfBand, NoSender} :
          It(sender) \in Item /\ BuiltFrom(It(sender), r)
  BY DEF Item, Response, BuiltFrom
<1>2. CASE r.kind \in {"task", "status_update"}
  <2>1. Forwarded(r) = <<It(r.agent)>>
    BY <1>2 DEF Forwarded
  <2> QED BY <1>1, <2>1
<1>3. CASE r.kind = "message_update"
  <2>1. Forwarded(r) = <<It(OutOfBand)>>
    BY <1>3 DEF Forwarded
  <2> QED BY <1>1, <2>1
<1>4. CASE r.kind = "artifact_update"
  <2>1. Forwarded(r) = <<It(NoSender)>>
    BY <1>4 DEF Forwarded
  <2> QED BY <1>1, <2>1
<1>5. CASE r.kind \notin {"task", "status_update", "message_update", "artifact_update"}
  <2>1. Forwarded(r) = <<>>
    BY <1>5 DEF Forwarded
  <2> QED BY <1>5, <2>1, KindsAssumption DEF Response
<1> QED BY <1>2, <1>3, <1>4, <1>5

\* The relay puts the item built from the pending response on the queue, if the
\* response is one that is forwarded.
LEMMA RelayPosts ==
    ASSUME TypeOK, RelayResponse
    PROVE  \/ UNCHANGED <<items, queue>> /\ pending.kind = "other"
           \/ \E it \in Item : BuiltFrom(it, pending) /\ Posted(it)
<1>1. pending \in Response
  BY DEF RelayResponse, TypeOK
<1>2. CASE Forwarded(pending) = <<>> /\ pending.kind = "other"
  BY <1>2 DEF RelayResponse, Relayed, Enqueued, TypeOK
<1>3. ASSUME NEW it \in Item, Forwarded(pending) = <<it>>, BuiltFrom(it, pending)
      PROVE  Posted(it)
  <2>1. items' = Append(items, it)
    BY <1>3, AppendIsConcat, Zenon DEF RelayResponse, Relayed, TypeOK
  <2>2. queue' = Append(queue, Len(items) + 1)
    BY <1>3 DEF RelayResponse, Relayed, Enqueued
  <2> QED BY <2>1, <2>2 DEF RelayResponse, Posted
<1> QED BY <1>1, <1>2, <1>3, ForwardedItem

-----------------------------------------------------------------------------
(* Type correctness                                                        *)

\* Item numbers stay item numbers when there are more items.
LEMMA PostedType ==
    ASSUME TypeOK, NEW it \in Item, Posted(it)
    PROVE  /\ items' \in Seq(Item) /\ queue' \in Seq(0..Len(items'))
           /\ sent' \in Seq(1..Len(items')) /\ heard' \in [Agents -> Seq(1..Len(items'))]
<1>1. items' \in Seq(Item) /\ Len(items') = Len(items) + 1 /\ Len(items) \in Nat
  BY DEF Posted, TypeOK
<1>2. 1..Len(items) \subseteq 1..Len(items') /\ 0..Len(items) \subseteq 0..Len(items')
  BY <1>1
<1>3. queue \in Seq(0..Len(items'))
  BY <1>2, SeqMonotonic, Zenon DEF TypeOK
<1>4. queue' \in Seq(0..Len(items'))
  BY <1>1, <1>3 DEF Posted
<1>5. sent' \in Seq(1..Len(items'))
  BY <1>2, SeqMonotonic, Zenon DEF TypeOK, Posted
<1>6. \A a \in Agents : heard[a] \in Seq(1..Len(items'))
  <2>1. \A a \in Agents : heard[a] \in Seq(1..Len(items))
    BY DEF TypeOK
  <2> QED BY <1>2, <2>1, SeqMonotonic, Zenon
<1>7. heard' \in [Agents -> Seq(1..Len(items'))]
  BY <1>6 DEF TypeOK, Posted
<1> QED BY <1>1, <1>4, <1>5, <1>7

\* So does a sentinel, and the finally block.
LEMMA FinaliseType ==
    ASSUME TypeOK, PutSentinel
    PROVE  queue' \in Seq(0..Len(items))
<1>1. Sentinel \in 0..Len(items)
  BY DEF TypeOK, Sentinel
<1> QED BY <1>1 DEF TypeOK, PutSentinel

\* Every step keeps the types.
LEMMA TypeStep ==
    ASSUME TypeOK, [Next]_vars
    PROVE  TypeOK'
<1> USE BoundsAssumption
<1>1. ASSUME NEW kind \in RequestKinds, FanOutRequest(kind)
      PROVE  TypeOK'
  <2>1. /\ items' \in Seq(Item) /\ queue' \in Seq(0..Len(items'))
        /\ sent' \in Seq(1..Len(items')) /\ heard' \in [Agents -> Seq(1..Len(items'))]
    BY <1>1, RequestPosts, PostedType
  <2> QED BY <1>1, <2>1 DEF FanOutRequest, TypeOK
<1>2. CASE FanOutEnds
  BY <1>2, FinaliseType DEF FanOutEnds, TypeOK
<1>3. CASE PullItem
  <2>1. /\ Head(queue) \in 0..Len(items) /\ Tail(queue) \in Seq(0..Len(items))
        /\ Len(items) \in Nat
    BY <1>3 DEF PullItem, CanPull, TypeOK
  <2>2. Head(queue) \in 1..Len(items)
    BY <1>3, <2>1 DEF PullItem, Sentinel
  <2>3. sent' \in Seq(1..Len(items)) /\ queue' \in Seq(0..Len(items))
    BY <1>3, <2>1, <2>2 DEF PullItem, TypeOK
  <2> QED BY <1>3, <2>3 DEF PullItem, TypeOK
<1>4. CASE PullSentinel
  <2>1. queue' \in Seq(0..Len(items))
    BY <1>4 DEF PullSentinel, CanPull, TypeOK
  <2> QED BY <1>4, <2>1 DEF PullSentinel, TypeOK
<1>5. ASSUME NEW a \in Agents, Deliver(a)
      PROVE  TypeOK'
  <2>1. Len(heard[a]) + 1 \in DOMAIN sent
    BY <1>5 DEF Deliver, TypeOK
  <2>2. sent[Len(heard[a]) + 1] \in 1..Len(items)
    BY <2>1 DEF TypeOK
  <2>3. heard' \in [Agents -> Seq(1..Len(items))]
    BY <1>5, <2>2 DEF Deliver, TypeOK
  <2> QED BY <1>5, <2>3 DEF Deliver, TypeOK
<1>6. ASSUME NEW a \in Agents, NEW kind \in ResponseKinds, ReadResponse(a, kind)
      PROVE  TypeOK'
  <2>1. pending' \in Response
    BY <1>6 DEF ReadResponse, Response, TypeOK
  <2>2. yielded' \in Seq(Response)
    BY <1>6, <2>1 DEF ReadResponse, TypeOK
  <2>3. responses' \in [Agents -> 0..MaxResponses]
    BY <1>6 DEF ReadResponse, TypeOK
  <2> QED BY <1>6, <2>1, <2>2, <2>3 DEF ReadResponse, TypeOK
<1>7. CASE RelayResponse
  <2>1. /\ items' \in Seq(Item) /\ queue' \in Seq(0..Len(items'))
        /\ sent' \in Seq(1..Len(items')) /\ heard' \in [Agents -> Seq(1..Len(items'))]
    BY <1>7, RelayPosts, PostedType DEF TypeOK, RelayResponse
  <2> QED BY <1>7, <2>1 DEF RelayResponse, TypeOK
<1>8. CASE EndOfStream \/ RelayError \/ Close
  <2>1. Finalise /\ session' \in {"reading", "finished", "closed"} /\ streamOpen' \in BOOLEAN
        /\ pending' \in Response \cup {None}
    BY <1>8 DEF EndOfStream, RelayError, Close, TypeOK
  <2>2. queue' \in Seq(0..Len(items)) /\ fanOut' \in {"running", "cancelled", "done"}
    BY <2>1, FinaliseType DEF Finalise, Cancelled, TypeOK
  <2> QED BY <2>1, <2>2 DEF Finalise, TypeOK
<1>9. CASE UNCHANGED vars
  BY <1>9 DEF vars, TypeOK
<1> QED
  BY <1>1, <1>2, <1>3, <1>4, <1>5, <1>6, <1>7, <1>8, <1>9 DEF Next

\* The queue and what was sent and delivered hold numbers of items that exist,
\* in every session with any agents, payloads and bounds.
THEOREM Typing == Spec => []TypeOK
<1>1. Init => TypeOK
  BY BoundsAssumption DEF Init, TypeOK
<1> QED BY <1>1, TypeStep, PTL DEF Spec
-----------------------------------------------------------------------------
(* The stream                                                              *)

\* What a step may do to the items on their way to the agents.
StreamStep ==
    \/ \E it \in Item : Posted(it)
    \/ PutSentinel /\ UNCHANGED <<items, sent, heard, sendOpen>>
    \/ PullItem \/ PullSentinel
    \/ \E a \in Agents : Deliver(a)
    \/ UNCHANGED <<items, queue, sent, heard, sendOpen>>

\* Every step is one of these.
LEMMA StreamSteps ==
    ASSUME TypeOK, [Next]_vars
    PROVE  StreamStep
<1>1. ASSUME NEW kind \in RequestKinds, FanOutRequest(kind)
      PROVE  StreamStep
  BY <1>1, RequestPosts DEF StreamStep
<1>2. ASSUME NEW a \in Agents, NEW kind \in ResponseKinds, ReadResponse(a, kind)
      PROVE  StreamStep
  BY <1>2 DEF StreamStep, ReadResponse
<1>3. CASE RelayResponse
  <2>1. UNCHANGED <<sent, heard, sendOpen>>
    BY <1>3 DEF RelayResponse
  <2> QED BY <1>3, <2>1, RelayPosts DEF StreamStep
<1>4. CASE FanOutEnds \/ EndOfStream \/ RelayError \/ Close
  BY <1>4 DEF StreamStep, FanOutEnds, EndOfStream, RelayError, Close, Finalise
<1>5. CASE UNCHANGED vars
  BY <1>5 DEF StreamStep, vars
<1>6. CASE PullItem \/ PullSentinel \/ \E a \in Agents : Deliver(a)
  BY <1>6 DEF StreamStep
<1> QED BY <1>1, <1>2, <1>3, <1>4, <1>5, <1>6 DEF Next

\* The transport pulls the items in the order of their numbers.
LEMMA PullsNext ==
    ASSUME TypeOK, StreamInv, PullItem
    PROVE  Head(queue) = Len(sent) + 1
<1>1. queue # <<>> /\ Head(queue) = queue[1] /\ 1 \in DOMAIN queue /\ queue[1] # Sentinel
  BY DEF PullItem, CanPull, TypeOK
<1>2. queue[1] \in 0..Len(items) /\ Len(items) \in Nat /\ Len(sent) \in Nat
  BY <1>1 DEF TypeOK
<1>3. queue[1] > Len(sent)
  BY <1>1 DEF StreamInv
<1>4. Len(sent) + 1 \in DOMAIN items
  BY <1>2, <1>3 DEF TypeOK
<1>5. PICK k \in DOMAIN queue : queue[k] = Len(sent) + 1
  BY <1>2, <1>4 DEF StreamInv
<1>6. k \in Nat /\ k >= 1
  BY <1>5 DEF TypeOK
<1>7. k > 1 => queue[1] < queue[k]
  BY <1>1, <1>2, <1>5 DEF StreamInv, Sentinel
<1> QED BY <1>1, <1>2, <1>3, <1>5, <1>6, <1>7

\* Every step keeps the order of the stream.
LEMMA StreamKept ==
    ASSUME TypeOK, StreamInv, [Next]_vars
    PROVE  StreamInv'
<1>t. /\ items \in Seq(Item) /\ queue \in Seq(0..Len(items)) /\ sent \in Seq(1..Len(items))
      /\ heard \in [Agents -> Seq(1..Len(items))]
  BY DEF TypeOK
<1>1. ASSUME NEW it \in Item, Posted(it)
      PROVE  StreamInv'
  <2>1. /\ items' \in Seq(Item) /\ Len(items') = Len(items) + 1 /\ Len(items) \in Nat
        /\ queue' = Append(queue, Len(items) + 1)
        /\ Len(queue') = Len(queue) + 1 /\ Len(queue) \in Nat
        /\ queue'[Len(queue) + 1] = Len(items) + 1
        /\ \A k \in DOMAIN queue : queue'[k] = queue[k]
        /\ DOMAIN queue' = DOMAIN queue \cup {Len(queue) + 1}
        /\ sent' = sent /\ heard' = heard /\ Len(sent) \in Nat
    BY <1>t, <1>1 DEF Posted
  <2>2. \A k \in DOMAIN queue : queue[k] \in 0..Len(items)
    BY <1>t
  <2>3. \A k \in DOMAIN queue' : queue'[k] # Sentinel => queue'[k] > Len(sent')
    BY <2>1, <2>2 DEF StreamInv
  <2>4. \A j, k \in DOMAIN queue' :
            j < k /\ queue'[j] # Sentinel /\ queue'[k] # Sentinel => queue'[j] < queue'[k]
    <3> SUFFICES ASSUME NEW j \in DOMAIN queue', NEW k \in DOMAIN queue', j < k,
                        queue'[j] # Sentinel, queue'[k] # Sentinel
                 PROVE  queue'[j] < queue'[k]
      OBVIOUS
    <3>1. j \in DOMAIN queue
      BY <1>t, <2>1
    <3> QED BY <2>1, <2>2, <3>1 DEF StreamInv
  <2>5. \A i \in DOMAIN items' : i > Len(sent') => \E k \in DOMAIN queue' : queue'[k] = i
    <3> SUFFICES ASSUME NEW i \in DOMAIN items', i > Len(sent)
                 PROVE  \E k \in DOMAIN queue' : queue'[k] = i
      BY <2>1
    <3>1. CASE i = Len(items) + 1
      BY <2>1, <3>1
    <3>2. CASE i # Len(items) + 1
      <4>1. i \in DOMAIN items
        BY <1>t, <2>1, <3>2
      <4>2. PICK k \in DOMAIN queue : queue[k] = i
        BY <4>1 DEF StreamInv
      <4> QED BY <2>1, <4>2
    <3> QED BY <3>1, <3>2
  <2> QED BY <2>1, <2>3, <2>4, <2>5 DEF StreamInv, Numbers
<1>2. CASE PutSentinel /\ UNCHANGED <<items, sent, heard, sendOpen>>
  <2>1. /\ queue' = Append(queue, Sentinel) /\ Len(queue) \in Nat
        /\ queue'[Len(queue) + 1] = Sentinel
        /\ \A k \in DOMAIN queue : queue'[k] = queue[k]
        /\ DOMAIN queue' = DOMAIN queue \cup {Len(queue) + 1}
        /\ items' = items /\ sent' = sent /\ heard' = heard
    BY <1>t, <1>2 DEF PutSentinel
  <2>2. \A k \in DOMAIN queue' : queue'[k] # Sentinel => k \in DOMAIN queue /\ queue'[k] = queue[k]
    BY <2>1
  <2>3. \A k \in DOMAIN queue' : queue'[k] # Sentinel => queue'[k] > Len(sent')
    BY <2>1, <2>2 DEF StreamInv
  <2>4. \A j, k \in DOMAIN queue' :
            j < k /\ queue'[j] # Sentinel /\ queue'[k] # Sentinel => queue'[j] < queue'[k]
    BY <2>2 DEF StreamInv
  <2>5. \A i \in DOMAIN items' : i > Len(sent') => \E k \in DOMAIN queue' : queue'[k] = i
    BY <2>1 DEF StreamInv
  <2> QED BY <2>1, <2>3, <2>4, <2>5 DEF StreamInv, Numbers
<1>3. CASE PullItem \/ PullSentinel
  <2>1. /\ queue' = Tail(queue) /\ queue # <<>> /\ Len(queue) \in Nat
        /\ items' = items /\ heard' = heard
        /\ \A k \in DOMAIN queue' : k + 1 \in DOMAIN queue /\ queue'[k] = queue[k + 1] /\ k \in Nat
        /\ \A k \in DOMAIN queue : k # 1 => k - 1 \in DOMAIN queue' /\ queue'[k - 1] = queue[k]
        /\ Len(items) \in Nat /\ Len(sent) \in Nat /\ 1 \in DOMAIN queue /\ Head(queue) = queue[1]
    <3>1. queue' = Tail(queue) /\ queue # <<>> /\ items' = items /\ heard' = heard
      BY <1>3 DEF PullItem, PullSentinel, CanPull
    <3>2. /\ Len(queue) \in Nat /\ Len(queue) >= 1 /\ DOMAIN queue = 1..Len(queue)
          /\ DOMAIN Tail(queue) = 1..(Len(queue) - 1)
          /\ \A k \in 1..(Len(queue) - 1) : Tail(queue)[k] = queue[k + 1]
          /\ Head(queue) = queue[1] /\ Len(items) \in Nat /\ Len(sent) \in Nat
      BY <1>t, <3>1
    <3> QED BY <3>1, <3>2
  <2>2. \A j, k \in DOMAIN queue' :
            j < k /\ queue'[j] # Sentinel /\ queue'[k] # Sentinel => queue'[j] < queue'[k]
    BY <2>1 DEF StreamInv
  <2>3. CASE PullItem
    <3>1. /\ sent' = Append(sent, Len(sent) + 1) /\ queue[1] = Len(sent) + 1
          /\ queue[1] # Sentinel
      BY <2>1, <2>3, PullsNext DEF PullItem
    <3>2. Numbers(sent') /\ Len(sent') = Len(sent) + 1
      BY <1>t, <3>1 DEF StreamInv, Numbers
    <3>3. \A k \in DOMAIN queue' : queue'[k] # Sentinel => queue'[k] > Len(sent')
      <4> SUFFICES ASSUME NEW k \in DOMAIN queue', queue'[k] # Sentinel
                   PROVE  queue'[k] > Len(sent')
        OBVIOUS
      <4>1. k + 1 \in DOMAIN queue /\ queue'[k] = queue[k + 1] /\ 1 < k + 1
        BY <1>t, <2>1
      <4>2. queue[1] < queue[k + 1]
        BY <2>1, <3>1, <4>1 DEF StreamInv
      <4> QED BY <1>t, <2>1, <3>1, <3>2, <4>1, <4>2
    <3>4. \A i \in DOMAIN items' : i > Len(sent') => \E k \in DOMAIN queue' : queue'[k] = i
      <4> SUFFICES ASSUME NEW i \in DOMAIN items, i > Len(sent')
                   PROVE  \E k \in DOMAIN queue' : queue'[k] = i
        BY <2>1
      <4>0. i > Len(sent) /\ i # Len(sent) + 1
        BY <1>t, <3>2
      <4>1. PICK k \in DOMAIN queue : queue[k] = i
        BY <4>0 DEF StreamInv
      <4>2. k # 1
        BY <3>1, <4>0, <4>1
      <4> QED BY <2>1, <4>1, <4>2
    <3>5. Len(sent') <= Len(items')
      BY <1>t, <2>1, <3>1, <3>2
    <3>6. \A a \in Agents : Numbers(heard'[a]) /\ Len(heard'[a]) <= Len(sent')
      BY <1>t, <2>1, <3>2 DEF StreamInv
    <3> QED BY <2>2, <3>2, <3>3, <3>4, <3>5, <3>6 DEF StreamInv
  <2>4. CASE PullSentinel
    <3>1. sent' = sent /\ queue[1] = Sentinel
      BY <2>1, <2>4 DEF PullSentinel
    <3>2. \A k \in DOMAIN queue' : queue'[k] # Sentinel => queue'[k] > Len(sent')
      BY <2>1, <3>1 DEF StreamInv
    <3>3. \A i \in DOMAIN items' : i > Len(sent') => \E k \in DOMAIN queue' : queue'[k] = i
      <4> SUFFICES ASSUME NEW i \in DOMAIN items, i > Len(sent)
                   PROVE  \E k \in DOMAIN queue' : queue'[k] = i
        BY <2>1, <3>1
      <4>1. PICK k \in DOMAIN queue : queue[k] = i
        BY <1>t DEF StreamInv
      <4>2. k # 1
        BY <1>t, <2>1, <3>1, <4>1 DEF Sentinel
      <4> QED BY <2>1, <4>1, <4>2
    <3> QED BY <2>1, <2>2, <3>1, <3>2, <3>3 DEF StreamInv, Numbers
  <2> QED BY <1>3, <2>3, <2>4
<1>4. ASSUME NEW a \in Agents, Deliver(a)
      PROVE  StreamInv'
  <2>1. Len(heard[a]) + 1 \in DOMAIN sent /\ Len(heard[a]) \in Nat
    BY <1>t, <1>4 DEF Deliver
  <2>2. sent[Len(heard[a]) + 1] = Len(heard[a]) + 1
    BY <2>1 DEF StreamInv, Numbers
  <2>3. heard' = [heard EXCEPT ![a] = Append(heard[a], Len(heard[a]) + 1)]
    BY <1>t, <1>4, <2>2 DEF Deliver
  <2>4. \A b \in Agents : Numbers(heard'[b]) /\ Len(heard'[b]) <= Len(sent)
    <3> SUFFICES ASSUME NEW b \in Agents
                 PROVE  Numbers(heard'[b]) /\ Len(heard'[b]) <= Len(sent)
      OBVIOUS
    <3>1. CASE b # a
      BY <1>t, <2>3, <3>1 DEF StreamInv
    <3>2. CASE b = a
      <4>1. heard'[a] = Append(heard[a], Len(heard[a]) + 1) /\ heard[a] \in Seq(1..Len(items))
        BY <1>t, <2>3
      <4>2. /\ Len(heard'[a]) = Len(heard[a]) + 1
            /\ \A k \in DOMAIN heard'[a] :
                  heard'[a][k] = IF k = Len(heard[a]) + 1 THEN k ELSE heard[a][k]
            /\ \A k \in DOMAIN heard'[a] : k = Len(heard[a]) + 1 \/ k \in DOMAIN heard[a]
        BY <2>1, <4>1
      <4>3. Numbers(heard[a])
        BY DEF StreamInv
      <4>4. Numbers(heard'[a])
        BY <4>2, <4>3 DEF Numbers
      <4> QED BY <1>t, <2>1, <3>2, <4>2, <4>4
    <3> QED BY <3>1, <3>2
  <2>5. items' = items /\ queue' = queue /\ sent' = sent
    BY <1>4 DEF Deliver
  <2> QED BY <2>4, <2>5 DEF StreamInv, Numbers
<1>5. CASE UNCHANGED <<items, queue, sent, heard, sendOpen>>
  BY <1>5 DEF StreamInv, Numbers
<1> QED BY <1>1, <1>2, <1>3, <1>4, <1>5, StreamSteps DEF StreamStep
-----------------------------------------------------------------------------
(* The end of the stream                                                   *)

\* The session ends with the fan-out stopped and no response to relay.
LEMMA OverKept ==
    ASSUME OverInv, [Next]_vars
    PROVE  OverInv'
<1>1. CASE EndOfStream \/ RelayError \/ Close
  BY <1>1 DEF EndOfStream, RelayError, Close, Finalise, Cancelled, OverInv
<1>2. CASE FanOutEnds \/ PullItem \/ PullSentinel
  BY <1>2 DEF FanOutEnds, PullItem, PullSentinel, OverInv
<1>3. ASSUME NEW kind \in RequestKinds, FanOutRequest(kind)
      PROVE  OverInv'
  BY <1>3 DEF FanOutRequest, OverInv
<1>4. ASSUME NEW a \in Agents, Deliver(a)
      PROVE  OverInv'
  BY <1>4 DEF Deliver, OverInv
<1>5. ASSUME NEW a \in Agents, NEW kind \in ResponseKinds, ReadResponse(a, kind)
      PROVE  OverInv'
  BY <1>5 DEF ReadResponse, OverInv
<1>6. CASE RelayResponse
  BY <1>6 DEF RelayResponse, OverInv
<1>7. CASE UNCHANGED vars
  BY <1>7 DEF vars, OverInv
<1> QED BY <1>1, <1>2, <1>3, <1>4, <1>5, <1>6, <1>7 DEF Next

\* No item of the caller is put behind a sentinel, so none is overtaken by one.
LEMMA CloseKept ==
    ASSUME TypeOK, CloseInv, [Next]_vars
    PROVE  CloseInv'
<1>t. /\ items \in Seq(Item) /\ queue \in Seq(0..Len(items)) /\ Len(queue) \in Nat
      /\ Len(items) \in Nat
  BY DEF TypeOK
<1>1. ASSUME NEW it \in Item, Posted(it), UNCHANGED <<fanOut, session>>,
             it.origin = Caller => fanOut = "running"
      PROVE  CloseInv'
  <2>1. /\ \A i \in DOMAIN items : items'[i] = items[i]
        /\ items'[Len(items) + 1] = it
        /\ queue'[Len(queue) + 1] = Len(items) + 1
        /\ \A k \in DOMAIN queue : queue'[k] = queue[k]
        /\ DOMAIN queue' = DOMAIN queue \cup {Len(queue) + 1}
        /\ sendOpen' = sendOpen /\ fanOut' = fanOut /\ session' = session
    BY <1>t, <1>1 DEF Posted
  <2>2. Len(items) + 1 # Sentinel
    BY <1>t DEF Sentinel
  <2>3. SentinelSeen' => SentinelSeen
    BY <2>1, <2>2 DEF SentinelSeen
  <2>4. ASSUME NEW k \in DOMAIN queue', queue'[k] # Sentinel, items'[queue'[k]].origin = Caller
        PROVE  sendOpen /\ \A j \in 1..k : queue'[j] # Sentinel
    <3>1. CASE k \in DOMAIN queue
      <4>1. queue[k] \in DOMAIN items /\ 1..k \subseteq DOMAIN queue
        BY <1>t, <2>1, <2>4, <3>1 DEF Sentinel
      <4> QED BY <2>1, <2>4, <3>1, <4>1 DEF CloseInv
    <3>2. CASE k = Len(queue) + 1
      <4>1. ~SentinelSeen
        BY <1>1, <2>1, <2>4, <3>2 DEF CloseInv
      <4>2. \A j \in 1..k : j = k \/ j \in DOMAIN queue
        BY <1>t, <3>2
      <4> QED BY <2>1, <2>4, <4>1, <4>2 DEF SentinelSeen
    <3> QED BY <2>1, <3>1, <3>2
  <2> QED BY <2>1, <2>3, <2>4 DEF CloseInv
<1>2. ASSUME PutSentinel, UNCHANGED <<items, sendOpen>>, fanOut' # "running",
             fanOut' = "done" \/ session' # "reading"
      PROVE  CloseInv'
  <2>1. /\ queue'[Len(queue) + 1] = Sentinel
        /\ \A k \in DOMAIN queue : queue'[k] = queue[k] /\ 1..k \subseteq DOMAIN queue
        /\ DOMAIN queue' = DOMAIN queue \cup {Len(queue) + 1}
    BY <1>t, <1>2 DEF PutSentinel
  <2> QED BY <1>2, <2>1 DEF CloseInv
<1>3. CASE PullItem \/ PullSentinel
  <2>1. queue' = Tail(queue) /\ queue # <<>>
    BY <1>3 DEF PullItem, PullSentinel, CanPull
  <2>2. /\ Head(queue) = queue[1] /\ 1 \in DOMAIN queue
        /\ \A k \in DOMAIN queue' : /\ k + 1 \in DOMAIN queue /\ queue'[k] = queue[k + 1]
                                    /\ \A j \in 1..k : j + 1 \in 1..(k + 1) /\ j \in DOMAIN queue'
                                    /\ 1 \in 1..(k + 1)
    BY <1>t, <2>1
  <2>3. UNCHANGED <<items, fanOut, session>>
    BY <1>3 DEF PullItem, PullSentinel
  <2>4. SentinelSeen' => SentinelSeen
    BY <1>3, <2>2 DEF SentinelSeen, PullItem, PullSentinel
  <2>5. ASSUME NEW k \in DOMAIN queue', queue'[k] # Sentinel, items[queue'[k]].origin = Caller
        PROVE  sendOpen' /\ \A j \in 1..k : queue'[j] # Sentinel
    <3>1. sendOpen /\ \A j \in 1..(k + 1) : queue[j] # Sentinel
      BY <2>2, <2>5 DEF CloseInv
    <3>2. queue[1] # Sentinel
      BY <2>2, <3>1
    <3> QED BY <1>3, <2>2, <3>1, <3>2 DEF PullItem, PullSentinel
  <2> QED BY <2>3, <2>4, <2>5 DEF CloseInv
<1>4. CASE UNCHANGED <<items, queue, sendOpen, fanOut, session>>
  BY <1>4 DEF CloseInv, SentinelSeen
<1>5. ASSUME NEW kind \in RequestKinds, FanOutRequest(kind)
      PROVE  CloseInv'
  <2>1. UNCHANGED <<fanOut, session>> /\ fanOut = "running"
    BY <1>5 DEF FanOutRequest
  <2> QED BY <1>1, <1>5, <2>1, RequestPosts
<1>6. CASE FanOutEnds
  BY <1>2, <1>6 DEF FanOutEnds
<1>7. CASE EndOfStream \/ RelayError \/ Close
  <2>1. fanOut' # "running" /\ session' # "reading" /\ Finalise
    BY <1>7 DEF EndOfStream, RelayError, Close, Finalise, Cancelled
  <2> QED BY <1>2, <2>1 DEF Finalise
<1>8. CASE RelayResponse
  <2>1. UNCHANGED <<fanOut, session, sendOpen>> /\ pending \in Response
    BY <1>8 DEF RelayResponse, TypeOK
  <2>2. \A it : BuiltFrom(it, pending) => it.origin # Caller
    BY <2>1, AgentsAssumption DEF BuiltFrom, Response
  <2> QED BY <1>1, <1>4, <1>8, <2>1, <2>2, RelayPosts
<1>9. ASSUME NEW a \in Agents, Deliver(a)
      PROVE  CloseInv'
  BY <1>4, <1>9 DEF Deliver
<1>10. ASSUME NEW a \in Agents, NEW kind \in ResponseKinds, ReadResponse(a, kind)
       PROVE  CloseInv'
  BY <1>4, <1>10 DEF ReadResponse
<1>11. CASE UNCHANGED vars
  BY <1>4, <1>11 DEF vars
<1> QED BY <1>3, <1>5, <1>6, <1>7, <1>8, <1>9, <1>10, <1>11 DEF Next

-----------------------------------------------------------------------------
(* The story                                                               *)

\* The caller was given responses of agents.
LEMMA YieldedType ==
    ASSUME TypeOK
    PROVE  /\ DOMAIN yielded = 1..Len(yielded) /\ Len(yielded) \in Nat
           /\ \A p \in DOMAIN yielded : yielded[p].agent \in Agents /\ yielded[p].n \in Nat
<1>1. \A r \in Response : r.agent \in Agents /\ r.n \in Nat
  BY DEF Response
<1>2. /\ DOMAIN yielded = 1..Len(yielded) /\ Len(yielded) \in Nat
      /\ \A p \in DOMAIN yielded : yielded[p] \in Response
  BY DEF TypeOK
<1> QED BY <1>1, <1>2

\* An item tells which response of the caller's it was built from.
LEMMA OneResponse ==
    ASSUME Numbered, TypeOK, NEW it, NEW p \in DOMAIN yielded, NEW q \in DOMAIN yielded,
           BuiltFrom(it, yielded[p]), BuiltFrom(it, yielded[q])
    PROVE  p = q
<1>1. yielded[p].agent = yielded[q].agent /\ yielded[p].n = yielded[q].n
  BY DEF BuiltFrom
<1>2. yielded[p].n \in Nat /\ p \in Nat /\ q \in Nat
  BY YieldedType
<1> QED BY <1>1, <1>2 DEF Numbered

\* What the caller is told and what is relayed stay one story.
LEMMA StoryKept ==
    ASSUME TypeOK, StoryInv, [Next]_vars
    PROVE  StoryInv'
<1>t. /\ items \in Seq(Item) /\ yielded \in Seq(Response) /\ Len(items) \in Nat
      /\ Len(yielded) \in Nat /\ responses \in [Agents -> 0..MaxResponses]
      /\ MaxResponses \in Nat
  BY BoundsAssumption DEF TypeOK
<1> USE DEF StoryInv
<1>1. ASSUME NEW kind \in RequestKinds, FanOutRequest(kind)
      PROVE  StoryInv'
  <2>1. PICK it \in Item : it.origin = Caller /\ items' = Append(items, it)
    BY <1>1, RequestPosts DEF Posted
  <2>2. UNCHANGED <<yielded, pending, responses, session>>
    BY <1>1 DEF FanOutRequest
  <2>3. /\ \A i \in DOMAIN items : items'[i] = items[i] /\ i \in DOMAIN items'
        /\ \A i \in DOMAIN items' : i \in DOMAIN items \/ items'[i] = it
    BY <1>t, <2>1
  <2>4. \A p \in DOMAIN yielded : ~BuiltFrom(it, yielded[p])
    BY <2>1, YieldedType, AgentsAssumption DEF BuiltFrom
  <2>5. Numbered' /\ AtLast'
    BY <2>2 DEF Numbered, AtLast
  <2>6. Told'
    BY <2>1, <2>2, <2>3, AgentsAssumption DEF Told
  <2>7. ToldInOrder'
    BY <2>2, <2>3, <2>4 DEF ToldInOrder
  <2>8. Relay'
    BY <2>2, <2>3 DEF Relay
  <2> QED BY <2>5, <2>6, <2>7, <2>8
<1>2. ASSUME NEW a \in Agents, NEW kind \in ResponseKinds, ReadResponse(a, kind)
      PROVE  StoryInv'
  <2> DEFINE r == [agent |-> a, n |-> responses[a] + 1, kind |-> kind]
             last == Len(yielded) + 1
  <2>1. /\ yielded' = Append(yielded, r) /\ pending' = r /\ pending = None
        /\ responses' = [responses EXCEPT ![a] = @ + 1] /\ items' = items
        /\ session' = session /\ session = "reading"
    BY <1>2 DEF ReadResponse
  <2>2. /\ Len(yielded') = last /\ yielded'[last] = r
        /\ \A p \in DOMAIN yielded : yielded'[p] = yielded[p] /\ p < last /\ p \in DOMAIN yielded'
        /\ \A p \in DOMAIN yielded' : p \in DOMAIN yielded \/ p = last
        /\ yielded' # <<>>
    BY <1>t, <2>1
  <2>3. \A p \in DOMAIN yielded : yielded[p].agent = a => yielded[p].n < r.n
    <3>1. \A p \in DOMAIN yielded : yielded[p].agent = a =>
              yielded[p].n <= responses[a] /\ yielded[p].n \in Nat /\ responses[a] \in Nat
      BY <1>t, YieldedType DEF Numbered
    <3> QED BY <3>1
  <2>4. Numbered'
    <3>1. \A p \in DOMAIN yielded' : yielded'[p].n <= responses'[yielded'[p].agent]
      <4>1. r.n <= responses'[r.agent] 
        BY <1>t, <2>1
      <4>2. ASSUME NEW p \in DOMAIN yielded
            PROVE  yielded[p].n <= responses'[yielded[p].agent]
        <5>1. yielded[p].agent \in Agents /\ yielded[p].n \in Nat
          BY YieldedType
        <5>2. yielded[p].n <= responses[yielded[p].agent]
          BY DEF Numbered
        <5> QED BY <1>t, <2>1, <5>1, <5>2
      <4> QED BY <2>2, <4>1, <4>2
    <3>2. \A p, q \in DOMAIN yielded' :
              p < q /\ yielded'[p].agent = yielded'[q].agent => yielded'[p].n < yielded'[q].n
      <4> SUFFICES ASSUME NEW p \in DOMAIN yielded', NEW q \in DOMAIN yielded', p < q,
                          yielded'[p].agent = yielded'[q].agent
                   PROVE  yielded'[p].n < yielded'[q].n
        OBVIOUS
      <4>1. p \in DOMAIN yielded /\ yielded'[p] = yielded[p]
        BY <1>t, <2>2
      <4>2. CASE q = last
        BY <2>2, <2>3, <4>1, <4>2
      <4>3. CASE q \in DOMAIN yielded
        BY <2>2, <4>1, <4>3 DEF Numbered
      <4> QED BY <2>2, <4>2, <4>3
    <3> QED BY <3>1, <3>2 DEF Numbered
  <2>5. AtLast'
    BY <2>1, <2>2 DEF AtLast
  <2>6. Told'
    <3> SUFFICES ASSUME NEW i \in DOMAIN items, items[i].origin \in Agents
                 PROVE  \E p \in DOMAIN yielded' :
                            BuiltFrom(items[i], yielded'[p]) /\ p < Len(yielded')
      BY <2>1 DEF Told
    <3>1. PICK p \in DOMAIN yielded : BuiltFrom(items[i], yielded[p])
      BY DEF Told
    <3> QED BY <2>2, <3>1
  <2>7. \A i \in DOMAIN items : ~BuiltFrom(items[i], r)
    <3> SUFFICES ASSUME NEW i \in DOMAIN items, BuiltFrom(items[i], r)
                 PROVE  FALSE
      OBVIOUS
    <3>1. items[i].origin = a /\ items[i].n = r.n
      BY DEF BuiltFrom
    <3>2. PICK p \in DOMAIN yielded : BuiltFrom(items[i], yielded[p])
      BY <3>1 DEF Told
    <3>3. yielded[p].agent = a /\ yielded[p].n = r.n /\ yielded[p].n \in Nat
      BY <3>1, <3>2, YieldedType DEF BuiltFrom
    <3> QED BY <2>3, <3>3
  <2>8. ToldInOrder'
    BY <2>1, <2>2, <2>7 DEF ToldInOrder
  <2>9. Relay'
    <3>1. \A p \in DOMAIN yielded' : p < Len(yielded') => p \in DOMAIN yielded /\ yielded'[p] = yielded[p]
      BY <1>t, <2>2
    <3>2. \A p \in DOMAIN yielded : p < Len(yielded) \/ (pending = None /\ session = "reading")
      BY <2>1
    <3>3. pending' # None
      BY <2>1, NoneAssumption, <1>2 DEF ReadResponse, Response, TypeOK
    <3> QED BY <2>1, <3>1, <3>2, <3>3 DEF Relay
  <2> QED BY <2>4, <2>5, <2>6, <2>8, <2>9
<1>3. CASE RelayResponse
  <2> DEFINE last == Len(yielded)
  <2>1. /\ UNCHANGED <<yielded, responses, session>> /\ pending' = None /\ pending # None
        /\ pending = yielded[last] /\ last \in DOMAIN yielded
    BY <1>t, <1>3 DEF RelayResponse, AtLast
  <2>2. Numbered' /\ AtLast'
    BY <2>1 DEF Numbered, AtLast
  <2>3. CASE UNCHANGED items /\ pending.kind = "other"
    <3>1. Told' /\ ToldInOrder'
      BY <2>1, <2>3 DEF Told, ToldInOrder
    <3>2. Relay'
      <4> SUFFICES ASSUME NEW p \in DOMAIN yielded, yielded[p].kind # "other"
                   PROVE  \E i \in DOMAIN items : BuiltFrom(items[i], yielded[p])
        BY <2>1, <2>3 DEF Relay
      <4>1. p < last
        BY <1>t, <2>1, <2>3
      <4> QED BY <4>1 DEF Relay
    <3> QED BY <2>2, <3>1, <3>2
  <2>4. ASSUME NEW it \in Item, BuiltFrom(it, pending), items' = Append(items, it)
        PROVE  StoryInv'
    <3>1. /\ \A i \in DOMAIN items : items'[i] = items[i] /\ i \in DOMAIN items' /\ i < Len(items) + 1
          /\ \A i \in DOMAIN items' : i \in DOMAIN items \/ i = Len(items) + 1
          /\ items'[Len(items) + 1] = it /\ Len(items) + 1 \in DOMAIN items'
      BY <1>t, <2>4
    <3>2. Told'
      <4> SUFFICES ASSUME NEW i \in DOMAIN items', items'[i].origin \in Agents
                   PROVE  \E p \in DOMAIN yielded : BuiltFrom(items'[i], yielded[p])
        BY <2>1 DEF Told
      <4>1. CASE i \in DOMAIN items
        BY <3>1, <4>1 DEF Told
      <4>2. CASE i = Len(items) + 1
        BY <2>1, <2>4, <3>1, <4>2
      <4> QED BY <3>1, <4>1, <4>2
    <3>3. ToldInOrder'
      <4> SUFFICES ASSUME NEW i \in DOMAIN items', NEW j \in DOMAIN items',
                          NEW p \in DOMAIN yielded, NEW q \in DOMAIN yielded, i < j,
                          BuiltFrom(items'[i], yielded[p]), BuiltFrom(items'[j], yielded[q])
                   PROVE  p < q
        BY <2>1 DEF ToldInOrder
      <4>1. i \in DOMAIN items /\ items'[i] = items[i]
        BY <1>t, <3>1
      <4>2. CASE j \in DOMAIN items
        BY <3>1, <4>1, <4>2 DEF ToldInOrder
      <4>3. CASE j = Len(items) + 1
        <5>1. q = last
          BY <2>1, <2>4, <3>1, <4>3, OneResponse
        <5>2. items[i].origin \in Agents
          BY <4>1, YieldedType DEF BuiltFrom
        <5>3. PICK o \in DOMAIN yielded : BuiltFrom(items[i], yielded[o]) /\ o < last
          BY <2>1, <4>1, <5>2 DEF Told
        <5>4. p = o
          BY <4>1, <5>3, OneResponse
        <5> QED BY <5>1, <5>3, <5>4
      <4> QED BY <3>1, <4>2, <4>3
    <3>4. Relay'
      <4> SUFFICES ASSUME NEW p \in DOMAIN yielded, yielded[p].kind # "other"
                   PROVE  \E i \in DOMAIN items' : BuiltFrom(items'[i], yielded[p])
        BY <2>1 DEF Relay
      <4>1. CASE p = last
        BY <2>1, <2>4, <3>1, <4>1
      <4>2. CASE p # last
        <5>1. p < last
          BY <1>t, <4>2
        <5>2. PICK i \in DOMAIN items : BuiltFrom(items[i], yielded[p])
          BY <5>1 DEF Relay
        <5> QED BY <3>1, <5>2
      <4> QED BY <4>1, <4>2
    <3> QED BY <2>2, <3>2, <3>3, <3>4
  <2> QED BY <1>3, <2>3, <2>4, RelayPosts DEF Posted
<1>4. ASSUME UNCHANGED <<items, yielded, responses>>,
             UNCHANGED <<pending, session>> \/ (pending' = None /\ session' # "reading")
      PROVE  StoryInv'
  BY <1>4 DEF Numbered, AtLast, Told, ToldInOrder, Relay
<1>5. CASE FanOutEnds \/ PullItem \/ PullSentinel \/ \E a \in Agents : Deliver(a)
  <2>1. UNCHANGED <<items, yielded, responses, pending, session>>
    BY <1>5 DEF FanOutEnds, PullItem, PullSentinel, Deliver
  <2> QED BY <1>4, <2>1
<1>6. CASE EndOfStream \/ RelayError \/ Close
  <2>1. UNCHANGED <<items, yielded, responses>>
    BY <1>6 DEF EndOfStream, RelayError, Close, Finalise
  <2>2. session' # "reading" /\ (pending' = None \/ (pending' = pending /\ pending = None))
    BY <1>6 DEF EndOfStream, RelayError, Close
  <2> HIDE DEF StoryInv
  <2> QED BY <1>4, <2>1, <2>2
<1>7. CASE UNCHANGED vars
  BY <1>4, <1>7 DEF vars
<1> QED BY <1>1, <1>2, <1>3, <1>5, <1>6, <1>7 DEF Next

-----------------------------------------------------------------------------
(* What the session promises                                               *)

Inv == TypeOK /\ StreamInv /\ OverInv /\ CloseInv /\ StoryInv

\* The conjunction of the parts is an invariant of the session.
LEMMA Invariance == Spec => []Inv
<1>1. Init => Inv
  BY BoundsAssumption DEF Init, Inv, TypeOK, StreamInv, Numbers, OverInv, CloseInv,
     SentinelSeen, StoryInv, Numbered, AtLast, Told, ToldInOrder, Relay
<1>2. Inv /\ [Next]_vars => Inv'
  BY TypeStep, StreamKept, OverKept, CloseKept, StoryKept DEF Inv
<1> QED BY <1>1, <1>2, PTL DEF Spec

\* No request of the caller is left behind when the send side closes, however
\* the end of its stream, the end of the session and the relay interleave.
THEOREM RequestsGoOut == Spec => []NoRequestLost
<1>1. Inv => NoRequestLost
  <2> SUFFICES ASSUME Inv, ~sendOpen, NEW i \in DOMAIN items, items[i].origin = Caller
               PROVE  i \in Indices(sent)
    BY DEF NoRequestLost
  <2>1. i \in Nat /\ i >= 1 /\ i <= Len(items) /\ Len(sent) \in Nat /\ sent \in Seq(1..Len(items))
    BY DEF Inv, TypeOK
  <2>2. ~(i > Len(sent))
    <3> SUFFICES ASSUME i > Len(sent)
                 PROVE  FALSE
      OBVIOUS
    <3>1. PICK k \in DOMAIN queue : queue[k] = i
      BY DEF Inv, StreamInv
    <3>2. queue[k] # Sentinel /\ items[queue[k]].origin = Caller
      BY <2>1, <3>1 DEF Sentinel
    <3> QED BY <3>2 DEF Inv, CloseInv
  <2>3. i \in DOMAIN sent
    BY <2>1, <2>2
  <2> QED BY <2>3 DEF Inv, StreamInv, Numbers, Indices
<1> QED BY <1>1, Invariance, PTL

\* Every response the caller was given is put on the queue once, in the order
\* in which the caller was given them, but for the one it is at or left at, and
\* nothing is put there in an agent's name that the caller was not given.
THEOREM OneStory == Spec => []SameStory
<1>1. Inv => SameStory
  <2> SUFFICES ASSUME Inv
               PROVE  SameStory
    OBVIOUS
  <2> DEFINE ItemOf(r) == {i \in DOMAIN items : BuiltFrom(items[i], r)}
  <2>t. DOMAIN items \subseteq Nat /\ DOMAIN yielded = 1..Len(yielded) /\ Len(yielded) \in Nat
    BY DEF Inv, TypeOK
  <2>1. ASSUME NEW p \in DOMAIN yielded, yielded[p].kind # "other"
        PROVE  \/ Cardinality(ItemOf(yielded[p])) = 1
               \/ /\ p = Len(yielded) /\ ItemOf(yielded[p]) = {}
                  /\ (pending # None \/ session # "reading")
    <3>1. CASE ItemOf(yielded[p]) = {}
      BY <2>t, <2>1, <3>1 DEF Inv, StoryInv, Relay
    <3>2. CASE ItemOf(yielded[p]) # {}
      <4>1. PICK i \in DOMAIN items : BuiltFrom(items[i], yielded[p])
        BY <3>2
      <4>2. \A j \in DOMAIN items : BuiltFrom(items[j], yielded[p]) => ~(i < j) /\ ~(j < i)
        BY <2>t, <4>1 DEF Inv, StoryInv, ToldInOrder
      <4>3. ItemOf(yielded[p]) = {i}
        BY <2>t, <4>1, <4>2
      <4> QED BY <4>3, FS_Singleton
    <3> QED BY <3>1, <3>2
  <2>2. ASSUME NEW p \in DOMAIN yielded, NEW q \in DOMAIN yielded, p < q,
               NEW i \in ItemOf(yielded[p]), NEW j \in ItemOf(yielded[q])
        PROVE  i < j
    <3>1. i # j
      BY <2>t, <2>2, OneResponse DEF Inv, StoryInv
    <3>2. ~(j < i)
      BY <2>t, <2>2 DEF Inv, StoryInv, ToldInOrder
    <3> QED BY <2>t, <3>1, <3>2
  <2>3. ASSUME NEW i \in DOMAIN items, items[i].origin \in Agents
        PROVE  \E p \in DOMAIN yielded : i \in ItemOf(yielded[p])
    BY <2>3 DEF Inv, StoryInv, Told
  <2> QED BY <2>1, <2>2, <2>3 DEF SameStory
<1> QED BY <1>1, Invariance, PTL

\* After the session nothing is read, taken or relayed any more.
THEOREM QuietAfterwards == Spec => QuietAfterEnd
<1>1. OverInv /\ [Next]_vars =>
          [session # "reading" => UNCHANGED <<items, requests, responses, yielded>>]_vars
  BY DEF OverInv, Next, FanOutRequest, FanOutEnds, PullItem, PullSentinel, Deliver,
     ReadResponse, RelayResponse, EndOfStream, RelayError, Close, vars
<1> QED BY <1>1, Invariance, PTL DEF Inv, Spec, QuietAfterEnd
-----------------------------------------------------------------------------
(* What an agent hears of the others                                       *)

\* What the k-th delivery to a adds to what it heard of the others.
OthersStep(a) ==
    [k \in 1..Len(heard[a]) |->
        [s \in Seq(Nat) |->
            IF items[heard[a][k]].origin = a THEN s ELSE Append(s, heard[a][k])]]

\* The recursive definition of OthersUpTo defines a function.
OthersDefined ==
    \A a \in Agents :
        /\ OthersUpTo(a) \in [0..Len(heard[a]) -> Seq(Nat)]
        /\ Follows(OthersUpTo(a), <<>>, OthersStep(a), Len(heard[a]))

\* The number of deliveries bounds the recursion, so the equation determines it.
LEMMA OthersEquation == TypeOK => OthersDefined
<1> SUFFICES ASSUME TypeOK, NEW a \in Agents
             PROVE  /\ OthersUpTo(a) \in [0..Len(heard[a]) -> Seq(Nat)]
                    /\ Follows(OthersUpTo(a), <<>>, OthersStep(a), Len(heard[a]))
  BY DEF OthersDefined
<1> DEFINE n == Len(heard[a])
           Step(s, k) == IF items[heard[a][k]].origin = a THEN s ELSE Append(s, heard[a][k])
           g == OthersUpTo(a)
<1>1. n \in Nat /\ <<>> \in Seq(Nat) /\ \A k \in 1..n : heard[a][k] \in Nat
  BY DEF TypeOK
<1>2. OthersStep(a) \in [1..n -> [Seq(Nat) -> Seq(Nat)]]
  BY <1>1 DEF OthersStep
<1>3. PICK f \in [0..n -> Seq(Nat)] : Follows(f, <<>>, OthersStep(a), n)
  BY <1>1, <1>2, RecursionExists, Zenon
<1>4. f[0] = <<>> /\ \A k \in 1..n : f[k] = Step(f[k - 1], k)
  <2>1. \A k \in 1..n : f[k - 1] \in Seq(Nat)
    BY <1>1, <1>3
  <2> QED BY <1>3, <2>1 DEF Follows, OthersStep
<1>5. f = [k \in 0..n |-> IF k = 0 THEN <<>> ELSE Step(f[k - 1], k)]
  <2> HIDE DEF Step
  <2>1. \A k \in 0..n : k # 0 => k \in 1..n
    BY <1>1
  <2> QED BY <1>3, <1>4, <2>1
<1>6. g = [k \in 0..n |-> IF k = 0 THEN <<>> ELSE Step(g[k - 1], k)]
  BY <1>5, Zenon DEF OthersUpTo
<1> HIDE DEF g, Step
<1>7. \A k \in 0..n : g[k] = f[k]
  <2> DEFINE S == {k \in Nat : k <= n => g[k] = f[k]}
  <2>1. 0 \in S
    BY <1>1, <1>4, <1>6
  <2>2. ASSUME NEW k \in Nat, k \in S
        PROVE  k + 1 \in S
    <3> SUFFICES ASSUME k + 1 <= n
                 PROVE  g[k + 1] = f[k + 1]
      OBVIOUS
    <3>1. g[k] = f[k] /\ k + 1 \in 1..n /\ k + 1 # 0 /\ (k + 1) - 1 = k
      BY <1>1, <2>2
    <3>2. g[k + 1] = Step(g[k], k + 1)
      BY <1>1, <1>6, <3>1
    <3> QED BY <1>4, <3>1, <3>2
  <2> HIDE DEF S
  <2>3. Nat \subseteq S
    BY <2>1, <2>2, Induction
  <2> QED BY <1>1, <2>3 DEF S
<1>8. g = f
  BY <1>3, <1>6, <1>7
<1> QED BY <1>3, <1>8 DEF g

\* It does so in the next state as well.
LEMMA OthersEquationNext == TypeOK' => OthersDefined'
BY OthersEquation, PTL

\* What an agent heard of the others does not change while nothing is
\* delivered to it, whatever items are added.
LEMMA OthersStay ==
    ASSUME TypeOK, TypeOK', NEW a \in Agents, heard'[a] = heard[a],
           \A i \in DOMAIN items : items'[i] = items[i]
    PROVE  HeardOfOthers(a)' = HeardOfOthers(a)
<1> DEFINE n == Len(heard[a])
<1>1. n \in Nat /\ \A k \in 1..n : heard[a][k] \in DOMAIN items
  BY DEF TypeOK
<1>2. Follows(OthersUpTo(a), <<>>, OthersStep(a), n)
  BY OthersEquation DEF OthersDefined
<1>3. Follows(OthersUpTo(a)', <<>>, OthersStep(a)', n)
  BY OthersEquationNext DEF OthersDefined
<1>4. \A k \in 1..n : OthersStep(a)'[k] = OthersStep(a)[k]
  <2> SUFFICES ASSUME NEW k \in 1..n
               PROVE  OthersStep(a)'[k] = OthersStep(a)[k]
    OBVIOUS
  <2>1. heard'[a][k] = heard[a][k] /\ items'[heard'[a][k]] = items[heard[a][k]]
    BY <1>1
  <2> QED BY <2>1 DEF OthersStep
<1>5. OthersUpTo(a)'[n] = OthersUpTo(a)[n]
  BY <1>1, <1>2, <1>3, <1>4, RecursionUnique
<1> QED BY <1>5 DEF HeardOfOthers

\* A delivery adds itself to what the agent heard of the others, unless it is
\* the agent's own.
LEMMA OthersGrow ==
    ASSUME TypeOK, TypeOK', NEW a \in Agents, NEW i \in 1..Len(items), items' = items,
           heard'[a] = Append(heard[a], i)
    PROVE  HeardOfOthers(a)' = IF items[i].origin = a THEN HeardOfOthers(a)
                               ELSE Append(HeardOfOthers(a), i)
<1> DEFINE n == Len(heard[a])
<1>1. /\ n \in Nat /\ Len(heard'[a]) = n + 1 /\ heard'[a][n + 1] = i
      /\ \A k \in 1..n : heard'[a][k] = heard[a][k]
      /\ 1..n \subseteq 1..(n + 1) /\ n + 1 \in 1..(n + 1) /\ (n + 1) - 1 = n
  BY DEF TypeOK
<1>2. /\ OthersUpTo(a) \in [0..n -> Seq(Nat)]
      /\ Follows(OthersUpTo(a), <<>>, OthersStep(a), n)
  BY OthersEquation DEF OthersDefined
<1>3. Follows(OthersUpTo(a)', <<>>, OthersStep(a)', n + 1)
  BY <1>1, OthersEquationNext DEF OthersDefined
<1>4. Follows(OthersUpTo(a)', <<>>, OthersStep(a)', n)
  BY <1>1, <1>3 DEF Follows
<1>5. \A k \in 1..n : OthersStep(a)'[k] = OthersStep(a)[k]
  <2> SUFFICES ASSUME NEW k \in 1..n
               PROVE  OthersStep(a)'[k] = OthersStep(a)[k]
    OBVIOUS
  <2>1. heard'[a][k] = heard[a][k] /\ k \in 1..(n + 1)
    BY <1>1
  <2> QED BY <1>1, <2>1 DEF OthersStep
<1>6. OthersUpTo(a)'[n] = OthersUpTo(a)[n] /\ OthersUpTo(a)[n] \in Seq(Nat)
  <2>1. Follows(OthersUpTo(a), <<>>, OthersStep(a), n) /\ n \in Nat
    BY <1>1, <1>2
  <2>2. \A k \in 0..n : OthersUpTo(a)[k] = OthersUpTo(a)'[k]
    BY <2>1, <1>4, <1>5, RecursionUnique
  <2> QED BY <1>1, <1>2, <2>2
<1>7. OthersUpTo(a)'[n + 1] = OthersStep(a)'[n + 1][OthersUpTo(a)'[n]]
  BY <1>1, <1>3 DEF Follows
<1>8. OthersStep(a)'[n + 1][OthersUpTo(a)[n]] =
          IF items[i].origin = a THEN OthersUpTo(a)[n] ELSE Append(OthersUpTo(a)[n], i)
  BY <1>1, <1>6 DEF OthersStep
<1> QED BY <1>1, <1>6, <1>7, <1>8 DEF HeardOfOthers
-----------------------------------------------------------------------------
(* The transport implements the group chat                                 *)

\* The last item of others that an agent heard, if any, is the last of them
\* that was delivered to it.
LastInv ==
    \A a \in Agents :
        /\ HeardOfOthers(a) \in Seq(Nat)
        /\ Chat!LastHeard(a) \in 0..Len(heard[a])
        /\ \A j \in 1..Len(heard[a]) : Chat!LastHeard(a) < j => items[j].origin = a

\* A delivery is heard: it is the agent's own item, or the next one of others.
LEMMA DeliverHears ==
    ASSUME TypeOK, TypeOK', StreamInv, LastInv, NEW a \in Agents, Deliver(a)
    PROVE  /\ \/ UNCHANGED Chat!vars
              \/ \E i \in 1..Len(items) : Chat!Hear(a, i)
           /\ LastInv'
<1> DEFINE m == Len(heard[a]) + 1
           log == [i \in DOMAIN items |-> items[i].origin]
           heardOf == [b \in Agents |-> HeardOfOthers(b)]
<1>1. /\ Len(heard[a]) \in Nat /\ m \in 1..Len(items) /\ sent[m] = m /\ items' = items
      /\ DOMAIN items = 1..Len(items) /\ Len(items) \in Nat
  <2>1. m \in DOMAIN sent /\ Len(heard[a]) \in Nat /\ Len(items) \in Nat /\ Len(sent) \in Nat
    BY DEF Deliver, TypeOK
  <2>2. sent[m] = m /\ Len(sent) <= Len(items)
    BY <2>1 DEF StreamInv, Numbers
  <2> QED BY <2>1, <2>2 DEF Deliver, TypeOK
<1>2. heard' = [heard EXCEPT ![a] = Append(heard[a], m)]
  BY <1>1 DEF Deliver
<1>3. heard'[a] = Append(heard[a], m) /\ Len(heard'[a]) = m
  BY <1>1, <1>2 DEF TypeOK
<1>4. ASSUME NEW b \in Agents, b # a
      PROVE  heard'[b] = heard[b] /\ HeardOfOthers(b)' = HeardOfOthers(b)
  <2>1. heard'[b] = heard[b]
    BY <1>2, <1>4 DEF TypeOK
  <2> QED BY <1>1, <2>1, OthersStay
<1>5. HeardOfOthers(a)' = IF items[m].origin = a THEN HeardOfOthers(a)
                          ELSE Append(HeardOfOthers(a), m)
  BY <1>1, <1>3, OthersGrow
<1>6. ASSUME NEW b \in Agents
      PROVE  /\ Chat!LastHeard(b) = IF HeardOfOthers(b) = <<>> THEN 0
                                    ELSE HeardOfOthers(b)[Len(HeardOfOthers(b))]
             /\ Chat!LastHeard(b)' = IF HeardOfOthers(b)' = <<>> THEN 0
                                     ELSE HeardOfOthers(b)'[Len(HeardOfOthers(b)')]
  BY DEF Chat!LastHeard
<1>7. ASSUME NEW b \in Agents, b # a
      PROVE  /\ HeardOfOthers(b)' \in Seq(Nat)
             /\ Chat!LastHeard(b)' \in 0..Len(heard'[b])
             /\ \A j \in 1..Len(heard'[b]) : Chat!LastHeard(b)' < j => items'[j].origin = b
  BY <1>1, <1>4, <1>6, <1>7 DEF LastInv
<1>8. CASE items[m].origin = a
  <2>1. heardOf' = heardOf
    BY <1>4, <1>5, <1>8
  <2>2. UNCHANGED Chat!vars
    BY <1>1, <2>1 DEF Chat!vars
  <2>3. Chat!LastHeard(a)' = Chat!LastHeard(a)
    BY <1>5, <1>6, <1>8
  <2>4. /\ HeardOfOthers(a)' \in Seq(Nat)
        /\ Chat!LastHeard(a)' \in 0..Len(heard'[a])
        /\ \A j \in 1..Len(heard'[a]) : Chat!LastHeard(a)' < j => items'[j].origin = a
    <3>1. \A j \in 1..m : j = m \/ j \in 1..Len(heard[a])
      BY <1>1
    <3> QED BY <1>1, <1>3, <1>5, <1>8, <2>3, <3>1 DEF LastInv
  <2> QED BY <1>7, <2>2, <2>4 DEF LastInv
<1>9. CASE items[m].origin # a
  <2>1. HeardOfOthers(a) \in Seq(Nat) /\ HeardOfOthers(a)' = Append(HeardOfOthers(a), m)
    BY <1>5, <1>9 DEF LastInv
  <2>2. heardOf' = [heardOf EXCEPT ![a] = Append(@, m)]
    BY <1>4, <2>1
  <2>3. Chat!LastHeard(a) < m /\ \A j \in 1..(m - 1) : Chat!LastHeard(a) < j => log[j] = a
    BY <1>1 DEF LastInv
  <2>4. log' = log /\ log[m] # a
    BY <1>1, <1>9
  <2>5. Chat!Hear(a, m)
    BY <2>2, <2>3, <2>4 DEF Chat!Hear
  <2>6. HeardOfOthers(a)' \in Seq(Nat) /\ Chat!LastHeard(a)' = m
    BY <1>1, <1>6, <2>1
  <2>7. /\ HeardOfOthers(a)' \in Seq(Nat)
        /\ Chat!LastHeard(a)' \in 0..Len(heard'[a])
        /\ \A j \in 1..Len(heard'[a]) : Chat!LastHeard(a)' < j => items'[j].origin = a
    BY <1>1, <1>3, <2>6
  <2> QED BY <1>1, <1>7, <2>5, <2>7 DEF LastInv
<1> QED BY <1>8, <1>9

\* While nothing is delivered, nobody hears anything.
LEMMA NobodyHears ==
    ASSUME TypeOK, TypeOK', StreamInv, LastInv, heard' = heard,
           \A i \in DOMAIN items : items'[i] = items[i] /\ i \in DOMAIN items'
    PROVE  /\ [a \in Agents |-> HeardOfOthers(a)]' = [a \in Agents |-> HeardOfOthers(a)]
           /\ LastInv'
<1>1. \A a \in Agents : HeardOfOthers(a)' = HeardOfOthers(a)
  BY OthersStay
<1>2. \A a \in Agents : Chat!LastHeard(a)' = Chat!LastHeard(a)
  BY <1>1 DEF Chat!LastHeard
<1>3. \A a \in Agents : \A j \in 1..Len(heard[a]) : items'[j] = items[j]
  <2>1. Len(items) \in Nat /\ DOMAIN items = 1..Len(items) /\ Len(sent) \in Nat
    BY DEF TypeOK
  <2>2. \A a \in Agents : Len(heard[a]) \in Nat /\ Len(heard[a]) <= Len(items)
    BY <2>1 DEF TypeOK, StreamInv
  <2> QED BY <2>1, <2>2
<1> QED BY <1>1, <1>2, <1>3 DEF LastInv

\* Putting an item on the queue is saying it.
LEMMA PostedSays ==
    ASSUME TypeOK, TypeOK', StreamInv, LastInv, NEW it \in Item, Posted(it)
    PROVE  Chat!Say(it.origin) /\ it.origin \in Chat!Speakers /\ LastInv'
<1> DEFINE log == [i \in DOMAIN items |-> items[i].origin]
<1>1. /\ Len(items) \in Nat /\ DOMAIN items = 1..Len(items)
      /\ DOMAIN items' = 1..(Len(items) + 1) /\ items'[Len(items) + 1] = it
      /\ \A i \in DOMAIN items : items'[i] = items[i] /\ i \in DOMAIN items'
      /\ heard' = heard
  BY DEF Posted, TypeOK
<1>2. \A r \in Item : r.origin \in Agents \cup {Caller}
  BY DEF Item
<1>3. \A i \in DOMAIN items : items[i].origin \in Agents \cup {Caller}
  BY <1>2 DEF TypeOK
<1>4. log \in Seq(Agents \cup {Caller}) /\ Len(log) = Len(items)
  BY <1>1, <1>3
<1>5. log' = Append(log, it.origin)
  BY <1>1, <1>2, <1>4
<1> QED BY <1>1, <1>2, <1>5, NobodyHears DEF Chat!Say, Chat!Speakers

\* The multicast session implements the abstract group chat: what an agent
\* hears of the others is what the chat delivers to its members, so by leaving
\* out its own messages it is as well off as on the N-streams transport.
THEOREM MulticastImplementsGroupChat == Spec => ImplementsGroupChat
<1> DEFINE log == [i \in DOMAIN items |-> items[i].origin]
<1>1. Init => Chat!Init /\ LastInv
  <2> SUFFICES ASSUME Init
               PROVE  Chat!Init /\ LastInv
    OBVIOUS
  <2>1. TypeOK
    BY BoundsAssumption DEF Init, TypeOK
  <2>2. \A a \in Agents : HeardOfOthers(a) = <<>> /\ Len(heard[a]) = 0
    BY <2>1, OthersEquation DEF OthersDefined, Follows, HeardOfOthers, Init
  <2>3. log = <<>>
    BY DEF Init
  <2>4. \A a \in Agents : Chat!LastHeard(a) = 0
    BY <2>2 DEF Chat!LastHeard
  <2>5. \A a \in Agents : 1..Len(heard[a]) = {} /\ 0 \in 0..Len(heard[a])
    BY <2>2
  <2>6. <<>> \in Seq(Nat)
    OBVIOUS
  <2>7. LastInv
    BY <2>2, <2>4, <2>5, <2>6, Zenon DEF LastInv
  <2> QED BY <2>2, <2>3, <2>7 DEF Chat!Init
<1>2. ASSUME TypeOK, TypeOK', StreamInv, LastInv, [Next]_vars
      PROVE  [Chat!Next]_(Chat!vars) /\ LastInv'
  <2>1. Len(log) = Len(items)
    BY <1>2 DEF TypeOK
  <2>2. ASSUME NEW it \in Item, Posted(it)
        PROVE  Chat!Next /\ LastInv'
    BY <1>2, <2>2, PostedSays DEF Chat!Next
  <2>3. ASSUME NEW a \in Agents, Deliver(a)
        PROVE  (Chat!Next \/ UNCHANGED Chat!vars) /\ LastInv'
    <3>1. LastInv' /\ (UNCHANGED Chat!vars \/ \E i \in 1..Len(items) : Chat!Hear(a, i))
      BY <1>2, <2>3, DeliverHears
    <3> QED BY <2>1, <3>1, Zenon DEF Chat!Next
  <2>4. ASSUME UNCHANGED <<items, heard>>
        PROVE  UNCHANGED Chat!vars /\ LastInv'
    BY <1>2, <2>4, NobodyHears DEF Chat!vars
  <2>5. UNCHANGED <<items, heard>> \/ (\E it \in Item : Posted(it)) \/ \E a \in Agents : Deliver(a)
    BY <1>2, StreamSteps DEF StreamStep, PullItem, PullSentinel
  <2> QED BY <2>2, <2>3, <2>4, <2>5
<1> QED BY <1>1, <1>2, Invariance, PTL DEF Inv, Spec, ImplementsGroupChat, Chat!Spec
=============================================================================
