------------------------- MODULE MulticastBroadcast -------------------------
(***************************************************************************)
(* MulticastBroadcastTransport.send_live_message                           *)
(* (examples/collaborative/incident-response/multicast_transport.py): the  *)
(* broadcast session over one stream to a SLIM GROUP channel.              *)
(*                                                                         *)
(* There are three activities: the task fan_out_client, the generator      *)
(* merged_stream (pulled by the SLIMRPC transport, which hands every item  *)
(* to all agents in one order) and send_live_message itself, an async      *)
(* generator that reads a response, yields it to the caller, and relays it *)
(* when the caller asks for the next one.  Each runs until it suspends; a  *)
(* put on the unbounded merged_send_queue never suspends.  The caller may  *)
(* await anything between two responses, so the others run meanwhile.      *)
(*                                                                         *)
(* An operator named Op_Variant is Op with a mistake one could have made;  *)
(* the specification does not use it.                                      *)
(***************************************************************************)
EXTENDS Naturals, Sequences, FiniteSets

CONSTANTS
    Agents,         \* the members of the GROUP channel
    Caller,         \* the caller of send_live_message
    Source,         \* source_slim_name, or NoSender when it was left empty
    OutOfBand,      \* a client that talks to an agent outside this session
    NoSender,       \* no message-sender in the metadata
    None,           \* no response
    RequestKinds,   \* payloads of the requests the caller yields
    ResponseKinds,  \* payloads of the responses the agents send
    MaxRequests,    \* bound: requests the caller yields
    MaxResponses    \* bound: responses read from each agent

ASSUME AgentsAssumption ==
    /\ Agents # {} /\ Caller \notin Agents /\ NoSender \notin Agents
    /\ Source \notin Agents /\ OutOfBand \notin Agents

ASSUME KindsAssumption ==
    /\ RequestKinds \subseteq {"message", "artifact_update"}
    /\ ResponseKinds \subseteq {"task", "status_update", "message_update",
                                "artifact_update", "other"}

ASSUME BoundsAssumption == MaxRequests \in Nat /\ MaxResponses \in Nat

Response == [agent : Agents, n : Nat \ {0}, kind : ResponseKinds]

ASSUME NoneAssumption == None \notin Response

\* A StreamRequest object: who it came from, the ordinal of the caller's
\* request or of the agent's response it was built from, its payload, and the
\* message-sender of its metadata.
Item == [origin : Agents \cup {Caller}, n : Nat \ {0},
         kind : RequestKinds \cup ResponseKinds,
         sender : Agents \cup {Source, OutOfBand, NoSender}]

Sentinel == 0

VARIABLES
    items,      \* the StreamRequest objects put on the queue, oldest first
    queue,      \* merged_send_queue: indices of items, and sentinels
    sent,       \* the items merged_stream has yielded
    heard,      \* heard[a]: the items the GROUP channel has delivered to a
    sendOpen,   \* merged_stream has not returned
    streamOpen, \* the SLIMRPC stream to the GROUP channel is up
    fanOut,     \* the task fan_out_client
    requests,   \* number of requests the caller has yielded
    responses,  \* responses[a]: number of responses of a read
    yielded,    \* what send_live_message has yielded to the caller
    pending,    \* the response at whose yield it is suspended
    session     \* send_live_message: "reading", "finished" or "closed"

vars == <<items, queue, sent, heard, sendOpen, streamOpen, fanOut, requests,
          responses, yielded, pending, session>>

TypeOK ==
    /\ items \in Seq(Item)
    /\ queue \in Seq(0..Len(items))
    /\ sent \in Seq(1..Len(items))
    /\ heard \in [Agents -> Seq(1..Len(items))]
    /\ sendOpen \in BOOLEAN /\ streamOpen \in BOOLEAN
    /\ fanOut \in {"running", "cancelled", "done"}
    /\ requests \in 0..MaxRequests
    /\ responses \in [Agents -> 0..MaxResponses]
    /\ yielded \in Seq(Response)
    /\ pending \in Response \cup {None}
    /\ session \in {"reading", "finished", "closed"}

Init ==
    /\ items = <<>> /\ queue = <<>> /\ sent = <<>>
    /\ heard = [a \in Agents |-> <<>>]
    /\ sendOpen = TRUE /\ streamOpen = TRUE
    /\ fanOut = "running"
    /\ requests = 0
    /\ responses = [a \in Agents |-> 0]
    /\ yielded = <<>> /\ pending = None
    /\ session = "reading"

-----------------------------------------------------------------------------
(* fan_out_client and merged_stream                                        *)

RequestItem_CountFromZero(kind) ==
    [origin |-> Caller, n |-> requests, kind |-> kind,
     sender |-> IF kind = "message" THEN Source ELSE NoSender]

\* The caller's request gets the caller's name, if it is a message and the
\* transport was given a name.
RequestItem(kind) ==
    [origin |-> Caller, n |-> requests + 1, kind |-> kind,
     sender |-> IF kind = "message" THEN Source ELSE NoSender]

FanOutRequest(kind) ==
    /\ fanOut = "running" /\ requests < MaxRequests
    /\ requests' = requests + 1
    /\ items' = Append(items, RequestItem(kind))
    /\ queue' = Append(queue, Len(items) + 1)
    /\ UNCHANGED <<sent, heard, sendOpen, streamOpen, fanOut, responses, yielded,
                   pending, session>>

PutSentinel_InFront == queue' = <<Sentinel>> \o queue
PutSentinel_Forgotten == UNCHANGED queue

PutSentinel == queue' = Append(queue, Sentinel)

\* The caller's stream exhausts or raises, or the cancelled task wakes up.
FanOutEnds ==
    /\ fanOut \in {"running", "cancelled"}
    /\ fanOut' = "done"
    /\ PutSentinel
    /\ UNCHANGED <<items, sent, heard, sendOpen, streamOpen, requests, responses,
                   yielded, pending, session>>

CanPull == sendOpen /\ streamOpen /\ queue # <<>>

PullItem ==
    /\ CanPull /\ Head(queue) # Sentinel
    /\ sent' = Append(sent, Head(queue))
    /\ queue' = Tail(queue)
    /\ UNCHANGED <<items, heard, sendOpen, streamOpen, fanOut, requests, responses,
                   yielded, pending, session>>

PullSentinel ==
    /\ CanPull /\ Head(queue) = Sentinel
    /\ sendOpen' = FALSE
    /\ queue' = Tail(queue)
    /\ UNCHANGED <<items, sent, heard, streamOpen, fanOut, requests, responses,
                   yielded, pending, session>>

\* SLIM delivers the next item of the stream to one of the agents; it makes no
\* exception for the agent that the item came from.
Deliver(a) ==
    /\ Len(heard[a]) < Len(sent)
    /\ heard' = [heard EXCEPT ![a] = Append(@, sent[Len(@) + 1])]
    /\ UNCHANGED <<items, queue, sent, sendOpen, streamOpen, fanOut, requests,
                   responses, yielded, pending, session>>

-----------------------------------------------------------------------------
(* send_live_message                                                       *)

\* A response is read and yielded, and the generator waits for its caller.  An
\* agent has something to say only once something was delivered to it.
ReadResponse(a, kind) ==
    /\ session = "reading" /\ pending = None /\ streamOpen /\ heard[a] # <<>>
    /\ responses[a] < MaxResponses
    /\ responses' = [responses EXCEPT ![a] = @ + 1]
    /\ pending' = [agent |-> a, n |-> responses[a] + 1, kind |-> kind]
    /\ yielded' = Append(yielded, pending')
    /\ UNCHANGED <<items, queue, sent, heard, sendOpen, streamOpen, fanOut,
                   requests, session>>

\* The requests built from response r: a sequence of length 0 or 1.
Forwarded(r) ==
    LET item(sender) ==
            [origin |-> r.agent, n |-> r.n, kind |-> r.kind, sender |-> sender]
    IN  CASE r.kind \in {"task", "status_update"} -> <<item(r.agent)>>
          [] r.kind = "message_update"            -> <<item(OutOfBand)>>
          [] r.kind = "artifact_update"           -> <<item(NoSender)>>
          [] OTHER                                -> <<>>

Enqueued_Urgent(forwarded) ==
    IF forwarded = <<>> THEN queue ELSE <<Len(items) + 1>> \o queue
Enqueued_DropIfBusy(forwarded) ==
    IF forwarded = <<>> \/ queue # <<>> THEN queue ELSE Append(queue, Len(items) + 1)

\* The queue after the forwarded request, if any, was put on it.
Enqueued(forwarded) ==
    IF forwarded = <<>> THEN queue ELSE Append(queue, Len(items) + 1)

Relayed_NoArtifacts(r) == IF r.kind = "artifact_update" THEN <<>> ELSE Forwarded(r)

\* What is relayed of r when the caller comes back for more.
Relayed(r) == Forwarded(r)

\* The caller asks for the next response: now this one is relayed.
RelayResponse ==
    /\ session = "reading" /\ pending # None
    /\ items' = items \o Relayed(pending)
    /\ queue' = Enqueued(Relayed(pending))
    /\ pending' = None
    /\ UNCHANGED <<sent, heard, sendOpen, streamOpen, fanOut, requests, responses,
                   yielded, session>>

Cancelled_Never(task) == task

Cancelled(task) == IF task = "running" THEN "cancelled" ELSE task

\* The finally block.
Finalise ==
    /\ fanOut' = Cancelled(fanOut)
    /\ PutSentinel
    /\ UNCHANGED <<items, sent, heard, sendOpen, requests, responses, yielded>>

\* The agents have closed their response streams, or the stream breaks.
EndOfStream ==
    /\ session = "reading" /\ pending = None
    /\ session' = "finished" /\ streamOpen' = FALSE
    /\ Finalise
    /\ UNCHANGED pending

\* Where the SDK's StreamRequest has no artifact_update field the relay
\* raises, and the except clause around the loop ends the session.
RelayError ==
    /\ session = "reading" /\ pending # None /\ pending.kind = "artifact_update"
    /\ session' = "finished" /\ pending' = None
    /\ streamOpen' \in {streamOpen, FALSE}
    /\ Finalise

\* The caller breaks off the iteration at a response, or is cancelled while it
\* waits for one.
Close ==
    /\ session = "reading"
    /\ session' = "closed" /\ pending' = None
    /\ streamOpen' \in {streamOpen, FALSE}
    /\ Finalise

-----------------------------------------------------------------------------

Next ==
    \/ \E kind \in RequestKinds : FanOutRequest(kind)
    \/ FanOutEnds \/ PullItem \/ PullSentinel
    \/ \E a \in Agents : Deliver(a)
    \/ \E a \in Agents, kind \in ResponseKinds : ReadResponse(a, kind)
    \/ RelayResponse \/ EndOfStream \/ RelayError \/ Close

Spec == Init /\ [][Next]_vars

\* The event loop runs what is ready, the transport pulls merged_stream, the
\* caller comes back for more, SLIM delivers, and agents whose send side was
\* closed complete their tasks and close their response streams.
Fairness ==
    /\ WF_vars(FanOutEnds /\ fanOut = "cancelled")
    /\ WF_vars(PullItem \/ PullSentinel)
    /\ WF_vars(RelayResponse \/ RelayError)
    /\ WF_vars(EndOfStream /\ ~sendOpen)
    /\ \A a \in Agents : WF_vars(Deliver(a))

FairSpec == Spec /\ Fairness

-----------------------------------------------------------------------------
(* Safety                                                                  *)

Indices(s) == {s[k] : k \in DOMAIN s}

BuiltFrom(it, r) == it.origin = r.agent /\ it.n = r.n

\* The caller and the agents are told the same story although the relay waits
\* for the caller: every response the caller was given was put on the queue,
\* in the order in which the caller was given them, but for the one it is at
\* and the one at which it left; and no other item is an agent's (lines
\* 163-213).
SameStory ==
    LET itemOf(r) == {i \in DOMAIN items : BuiltFrom(items[i], r)}
        last == Len(yielded)
    IN  /\ \A p \in DOMAIN yielded : yielded[p].kind # "other" =>
              \/ Cardinality(itemOf(yielded[p])) = 1
              \/ p = last /\ itemOf(yielded[p]) = {} /\ (pending # None \/ session # "reading")
        /\ \A p, q \in DOMAIN yielded : p < q =>
              \A i \in itemOf(yielded[p]), j \in itemOf(yielded[q]) : i < j
        /\ \A i \in DOMAIN items : items[i].origin \in Agents =>
              \E p \in DOMAIN yielded : i \in itemOf(yielded[p])

\* The send side is closed only after every request the caller made before its
\* stream ended went out: the sentinel overtakes no request (lines 139-145).
NoRequestLost ==
    ~sendOpen => \A i \in DOMAIN items : items[i].origin = Caller => i \in Indices(sent)

\* After the session is over (lines 219-222) nothing more is read from the
\* agents or taken from the caller, and nothing more is relayed.
QuietAfterEnd ==
    [][session # "reading" => UNCHANGED <<items, requests, responses, yielded>>]_vars

-----------------------------------------------------------------------------
(* The abstract group chat                                                 *)

\* What the GROUP channel delivered to a, less its own contributions: the
\* function takes k to what is left of the first k deliveries.  (A recursive
\* function where SelectSeq would do, which the proof system cannot expand.)
OthersUpTo(a) ==
    LET others[k \in 0..Len(heard[a])] ==
            IF k = 0 THEN <<>>
            ELSE IF items[heard[a][k]].origin = a THEN others[k - 1]
                 ELSE Append(others[k - 1], heard[a][k])
    IN  others

HeardOfOthers(a) == OthersUpTo(a)[Len(heard[a])]

Chat == INSTANCE GroupChat WITH
    Members <- Agents,
    log     <- [i \in DOMAIN items |-> items[i].origin],
    heard   <- [a \in Agents |-> HeardOfOthers(a)]

\* An agent that leaves out what it said itself hears the same group chat that
\* the N-streams transport delivers (README.md of the example, Transport
\* modes).
ImplementsGroupChat == Chat!Spec

-----------------------------------------------------------------------------
(* Liveness                                                                *)

\* When the caller's stream exhausts, the session ends by itself.
ExhaustedEnds == fanOut = "done" ~> session # "reading"

\* After the session is over the fan-out task ends and merged_stream returns or
\* has lost its stream (lines 220-222).
CleanedUp ==
    session # "reading" ~> fanOut = "done" /\ (sendOpen => ~streamOpen)

-----------------------------------------------------------------------------
(* What a comment says and the code does not do                            *)

\* multicast_transport.py:94-95: agents filter echoes of their own messages by
\* the guard sender != FULL_SLIM_NAME.  So an item that passes a's guard is not
\* a's own.
GuardFiltersEchoes ==
    \A a \in Agents : \A i \in Indices(heard[a]) :
        items[i].sender # a => items[i].origin # a
=============================================================================
