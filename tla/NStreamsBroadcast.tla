------------------------- MODULE NStreamsBroadcast -------------------------
(***************************************************************************)
(* NStreamsBroadcastTransport.send_live_message                            *)
(* (examples/collaborative/incident-response/nstreams_transport.py): the   *)
(* broadcast session over one SendLiveMessage stream per agent.            *)
(*                                                                         *)
(* The transport is a set of asyncio tasks: fan_out_client, one read_agent *)
(* per agent, the send generator of each agent (pulled by its SLIMRPC      *)
(* transport) and the collector loop that the caller iterates.  A task     *)
(* runs until it suspends.  put() on an unbounded asyncio.Queue never      *)
(* suspends, so handling one request or one response, with all the queues  *)
(* it is put on, is one step, and so is a finally block made of puts.  A   *)
(* task that was cancelled gets CancelledError at the point it is          *)
(* suspended and runs only its finally block.                              *)
(*                                                                         *)
(* An operator named Op_Variant is Op with a mistake one could have made;  *)
(* the specification does not use it.                                      *)
(***************************************************************************)
EXTENDS Naturals, Sequences, FiniteSets

CONSTANTS
    Agents,         \* the slim names of the session's agents
    Caller,         \* the caller of send_live_message
    Source,         \* source_slim_name, or NoSender when it was left empty
    OutOfBand,      \* a client that talks to an agent outside this session
    NoSender,       \* no message-sender in the metadata
    None,           \* the done signal on the output queue
    RequestKinds,   \* payloads of the requests the caller yields
    ResponseKinds,  \* payloads of the responses the agents send
    MaxRequests,    \* bound: requests the caller yields
    MaxResponses    \* bound: responses read from each agent

ASSUME AgentsAssumption ==
    /\ IsFiniteSet(Agents) /\ Agents # {}
    /\ Caller \notin Agents /\ NoSender \notin Agents
    /\ Source \notin Agents /\ OutOfBand \notin Agents

ASSUME KindsAssumption ==
    /\ RequestKinds \subseteq {"message", "artifact_update"}
    /\ ResponseKinds \subseteq {"task", "status_update", "message_update",
                                "artifact_update", "other"}

ASSUME BoundsAssumption == MaxRequests \in Nat /\ MaxResponses \in Nat

Response == [agent : Agents, n : Nat \ {0}, kind : ResponseKinds]

ASSUME NoneAssumption == None \notin Response

Speakers == Agents \cup {Caller}
Senders  == Agents \cup {Source, OutOfBand, NoSender}

\* A StreamRequest object: who it came from, the ordinal of the caller's
\* request or of the agent's response it was built from, its payload, and the
\* message-sender of its metadata.
Item == [origin : Speakers, n : Nat \ {0},
         kind : RequestKinds \cup ResponseKinds, sender : Senders]

Sentinel == 0

VARIABLES
    items,      \* the StreamRequest objects put on queues, in order of creation
    queue,      \* queue[a]: indices of items, and sentinels
    sent,       \* sent[a]: the items a's send generator has yielded
    sendOpen,   \* sendOpen[a]: a's send generator has not returned
    streamOpen, \* streamOpen[a]: the SLIMRPC stream to a is up
    fanOut,     \* the task fan_out_client
    reader,     \* reader[a]: the task read_agent(a)
    requests,   \* number of requests the caller has yielded
    responses,  \* responses[a]: number of responses read from a
    output,     \* output_queue
    yielded,    \* what send_live_message has yielded to the caller
    doneCount,  \* done_count
    session     \* the collector: "collecting", "finished" or "closed"

vars == <<items, queue, sent, sendOpen, streamOpen, fanOut, reader, requests,
          responses, output, yielded, doneCount, session>>

TaskState == {"running", "cancelled", "done"}

TypeOK ==
    /\ items \in Seq(Item)
    /\ queue \in [Agents -> Seq(Nat)]
    /\ sent \in [Agents -> Seq(Nat)]
    /\ sendOpen \in [Agents -> BOOLEAN]
    /\ streamOpen \in [Agents -> BOOLEAN]
    /\ fanOut \in TaskState
    /\ reader \in [Agents -> TaskState]
    /\ requests \in 0..MaxRequests
    /\ responses \in [Agents -> 0..MaxResponses]
    /\ output \in Seq(Response \cup {None})
    /\ yielded \in Seq(Response)
    /\ doneCount \in Nat
    /\ session \in {"collecting", "finished", "closed"}

Init ==
    /\ items = <<>>
    /\ queue = [a \in Agents |-> <<>>]
    /\ sent = [a \in Agents |-> <<>>]
    /\ sendOpen = [a \in Agents |-> TRUE]
    /\ streamOpen = [a \in Agents |-> TRUE]
    /\ fanOut = "running"
    /\ reader = [a \in Agents |-> "running"]
    /\ requests = 0
    /\ responses = [a \in Agents |-> 0]
    /\ output = <<>>
    /\ yielded = <<>>
    /\ doneCount = 0
    /\ session = "collecting"

-----------------------------------------------------------------------------
(* fan_out_client                                                          *)

RequestItem_CountFromZero(kind) ==
    [origin |-> Caller, n |-> requests, kind |-> kind,
     sender |-> IF kind = "message" THEN Source ELSE NoSender]

\* The caller's request gets the caller's name, if it is a message and the
\* transport was given a name.
RequestItem(kind) ==
    [origin |-> Caller, n |-> requests + 1, kind |-> kind,
     sender |-> IF kind = "message" THEN Source ELSE NoSender]

PutSentinels_InFront == queue' = [a \in Agents |-> <<Sentinel>> \o queue[a]]
PutSentinels_Forgotten == UNCHANGED queue

\* Every agent's queue gets the end-of-stream mark.
PutSentinels == queue' = [a \in Agents |-> Append(queue[a], Sentinel)]

\* The caller yields one request, which goes onto every queue.
FanOutRequest(kind) ==
    /\ fanOut = "running"
    /\ requests < MaxRequests
    /\ requests' = requests + 1
    /\ items' = Append(items, RequestItem(kind))
    /\ queue' = [a \in Agents |-> Append(queue[a], Len(items) + 1)]
    /\ UNCHANGED <<sent, sendOpen, streamOpen, fanOut, reader, responses,
                   output, yielded, doneCount, session>>

\* The caller's stream exhausts or raises, or the cancelled task wakes up:
\* in each case the finally block closes every send side.
FanOutEnds ==
    /\ fanOut \in {"running", "cancelled"}
    /\ fanOut' = "done"
    /\ PutSentinels
    /\ UNCHANGED <<items, sent, sendOpen, streamOpen, reader, requests,
                   responses, output, yielded, doneCount, session>>

-----------------------------------------------------------------------------
(* agent_send_stream, pulled by the agent's SLIMRPC transport              *)

CanPull_AllStreamsUp(a) ==
    sendOpen[a] /\ queue[a] # <<>> /\ \A b \in Agents : streamOpen[b]

CanPull(a) == sendOpen[a] /\ streamOpen[a] /\ queue[a] # <<>>

PullItem(a) ==
    /\ CanPull(a)
    /\ Head(queue[a]) # Sentinel
    /\ sent' = [sent EXCEPT ![a] = Append(@, Head(queue[a]))]
    /\ queue' = [queue EXCEPT ![a] = Tail(@)]
    /\ UNCHANGED <<items, sendOpen, streamOpen, fanOut, reader, requests,
                   responses, output, yielded, doneCount, session>>

PullSentinel(a) ==
    /\ CanPull(a)
    /\ Head(queue[a]) = Sentinel
    /\ sendOpen' = [sendOpen EXCEPT ![a] = FALSE]
    /\ queue' = [queue EXCEPT ![a] = Tail(@)]
    /\ UNCHANGED <<items, sent, streamOpen, fanOut, reader, requests,
                   responses, output, yielded, doneCount, session>>

-----------------------------------------------------------------------------
(* read_agent                                                              *)

\* The requests built from a response: a sequence of length 0 or 1.  Tasks and
\* status updates are stamped with the agent's name, a message update keeps
\* the sender it had, an artifact update carries no message to stamp, and a
\* response without a known payload is not forwarded.
Forwarded(a, n, kind) ==
    LET item(sender) == [origin |-> a, n |-> n, kind |-> kind, sender |-> sender]
    IN  CASE kind \in {"task", "status_update"} -> <<item(a)>>
          [] kind = "message_update"            -> <<item(OutOfBand)>>
          [] kind = "artifact_update"           -> <<item(NoSender)>>
          [] OTHER                              -> <<>>

RelayToPeers_Urgent(a, forwarded) ==
    [b \in Agents |-> IF b = a \/ forwarded = <<>> THEN queue[b]
                      ELSE <<Len(items) + 1>> \o queue[b]]
RelayToPeers_DropIfBusy(a, forwarded) ==
    [b \in Agents |-> IF b = a \/ forwarded = <<>> \/ queue[b] # <<>>
                      THEN queue[b] ELSE Append(queue[b], Len(items) + 1)]
RelayToPeers_Echo(a, forwarded) ==
    [b \in Agents |-> IF forwarded = <<>> THEN queue[b]
                      ELSE Append(queue[b], Len(items) + 1)]

\* The queues after a's forwarded request, if any, was put on those of the
\* other agents.
RelayToPeers(a, forwarded) ==
    [b \in Agents |-> IF b = a \/ forwarded = <<>> THEN queue[b]
                      ELSE Append(queue[b], Len(items) + 1)]

ResponseRead(a, kind) == [agent |-> a, n |-> responses[a] + 1, kind |-> kind]

\* An agent has something to say only once it was sent something.
CanRespond(a) ==
    /\ reader[a] = "running" /\ sent[a] # <<>>
    /\ responses[a] < MaxResponses

ReadResponse(a, kind) ==
    /\ CanRespond(a)
    /\ LET forwarded == Forwarded(a, responses[a] + 1, kind)
       IN  /\ items' = items \o forwarded
           /\ queue' = RelayToPeers(a, forwarded)
    /\ responses' = [responses EXCEPT ![a] = @ + 1]
    /\ output' = Append(output, ResponseRead(a, kind))
    /\ UNCHANGED <<sent, sendOpen, streamOpen, fanOut, reader, requests,
                   yielded, doneCount, session>>

\* Where the SDK's StreamRequest has no artifact_update field (the spec says
\* A2A 1.1 has none), building the forwarded request raises after the response
\* went to the output: the except clause ends this agent's reader.
RelayError(a) ==
    /\ "artifact_update" \in ResponseKinds
    /\ CanRespond(a)
    /\ responses' = [responses EXCEPT ![a] = @ + 1]
    /\ output' = output \o <<ResponseRead(a, "artifact_update"), None>>
    /\ reader' = [reader EXCEPT ![a] = "done"]
    /\ \E up \in {streamOpen[a], FALSE} :
           streamOpen' = [streamOpen EXCEPT ![a] = up]
    /\ UNCHANGED <<items, queue, sent, sendOpen, fanOut, requests, yielded,
                   doneCount, session>>

ReaderFinally_ClosesPeers(a) ==
    /\ reader' = [reader EXCEPT ![a] = "done"]
    /\ output' = Append(output, None)
    /\ PutSentinels
    /\ UNCHANGED <<items, sent, sendOpen, fanOut, requests, responses,
                   yielded, doneCount, session>>

\* The finally block of read_agent: tell the collector, and no one else.
ReaderFinally(a) ==
    /\ reader' = [reader EXCEPT ![a] = "done"]
    /\ output' = Append(output, None)
    /\ UNCHANGED <<items, queue, sent, sendOpen, fanOut, requests, responses,
                   yielded, doneCount, session>>

\* The agent closes its response stream: its task is complete.
EndOfStream(a) ==
    /\ reader[a] = "running"
    /\ streamOpen' = [streamOpen EXCEPT ![a] = FALSE]
    /\ ReaderFinally(a)

\* The stream breaks, which the except clause swallows.
StreamError(a) ==
    /\ reader[a] = "running"
    /\ streamOpen' = [streamOpen EXCEPT ![a] = FALSE]
    /\ ReaderFinally(a)

\* The cancelled reader wakes up.  Whether the transport also drops the stream
\* at once or drains the send side first is the SLIMRPC library's choice.
ReaderCancelled(a) ==
    /\ reader[a] = "cancelled"
    /\ \E up \in {streamOpen[a], FALSE} :
           streamOpen' = [streamOpen EXCEPT ![a] = up]
    /\ ReaderFinally(a)

-----------------------------------------------------------------------------
(* The collector loop and its finally block                                *)

Cancelled_Never(task) == task

Cancelled(task) == IF task = "running" THEN "cancelled" ELSE task

Finalise ==
    /\ fanOut' = Cancelled(fanOut)
    /\ reader' = [a \in Agents |-> Cancelled(reader[a])]
    /\ PutSentinels
    /\ UNCHANGED <<items, sent, sendOpen, streamOpen, requests, responses>>

YieldResponse_Newest ==
    /\ session = "collecting"
    /\ output # <<>> /\ output[Len(output)] # None
    /\ yielded' = Append(yielded, output[Len(output)])
    /\ output' = SubSeq(output, 1, Len(output) - 1)
    /\ UNCHANGED <<items, queue, sent, sendOpen, streamOpen, fanOut, reader,
                   requests, responses, doneCount, session>>

YieldResponse ==
    /\ session = "collecting"
    /\ output # <<>> /\ Head(output) # None
    /\ yielded' = Append(yielded, Head(output))
    /\ output' = Tail(output)
    /\ UNCHANGED <<items, queue, sent, sendOpen, streamOpen, fanOut, reader,
                   requests, responses, doneCount, session>>

LastAgent_OffByOne == doneCount + 2 >= Cardinality(Agents)

\* The agent whose done signal is being counted is the last one.
LastAgent == doneCount + 1 >= Cardinality(Agents)

CountDone ==
    /\ session = "collecting"
    /\ output # <<>> /\ Head(output) = None
    /\ ~LastAgent
    /\ doneCount' = doneCount + 1
    /\ output' = Tail(output)
    /\ UNCHANGED <<items, queue, sent, sendOpen, streamOpen, fanOut, reader,
                   requests, responses, yielded, session>>

\* The last agent is done: the loop ends, and the generator with it.
Finish ==
    /\ session = "collecting"
    /\ output # <<>> /\ Head(output) = None
    /\ LastAgent
    /\ doneCount' = doneCount + 1
    /\ output' = Tail(output)
    /\ session' = "finished"
    /\ Finalise
    /\ UNCHANGED yielded

\* The caller breaks off the iteration or is cancelled.
Close ==
    /\ session = "collecting"
    /\ session' = "closed"
    /\ Finalise
    /\ UNCHANGED <<output, yielded, doneCount>>

-----------------------------------------------------------------------------

AgentStep(a) ==
    \/ PullItem(a) \/ PullSentinel(a)
    \/ \E kind \in ResponseKinds : ReadResponse(a, kind)
    \/ EndOfStream(a) \/ StreamError(a) \/ RelayError(a) \/ ReaderCancelled(a)

Next ==
    \/ \E kind \in RequestKinds : FanOutRequest(kind)
    \/ FanOutEnds
    \/ \E a \in Agents : AgentStep(a)
    \/ YieldResponse \/ CountDone \/ Finish \/ Close

Spec == Init /\ [][Next]_vars

\* The event loop runs every task that is ready, each transport pulls its send
\* generator, the caller keeps iterating, and an agent whose send side was
\* closed completes its task and closes its response stream.  Nobody is obliged
\* to send requests or responses, to exhaust the request stream or to fail.
Fairness ==
    /\ WF_vars(FanOutEnds /\ fanOut = "cancelled")
    /\ WF_vars(YieldResponse \/ CountDone \/ Finish)
    /\ \A a \in Agents :
        /\ WF_vars(PullItem(a) \/ PullSentinel(a))
        /\ WF_vars(EndOfStream(a) /\ ~sendOpen[a])
        /\ WF_vars(ReaderCancelled(a))

FairSpec == Spec /\ Fairness

-----------------------------------------------------------------------------
(* Safety                                                                  *)

Indices(s) == {s[k] : k \in DOMAIN s}

\* Every agent hears the session in the one order of items: of two items it
\* was sent, the one created first was sent first, and none was sent twice.
\* (The readers of different agents and the fan-out put on the queues without
\* any lock; see lines 165-166 and 241-243.)
TotalOrder ==
    \A a \in Agents : \A j, k \in DOMAIN sent[a] :
        j < k => sent[a][j] < sent[a][k]

\* Nothing is skipped: when an agent was sent an item, it was sent every
\* earlier item of the caller and of its peers, however its own stream, its
\* peers' failures and the close of the session interleave.
GapFree ==
    \A a \in Agents : \A k \in DOMAIN sent[a] : \A i \in 1..sent[a][k] :
        items[i].origin # a => i \in Indices(sent[a])

\* Echo suppression (lines 241-243; a2a-collaborative-task.md, 5.4): an agent
\* is never sent what it said itself, nor anything that bears its name.
NoEcho ==
    \A a \in Agents : \A i \in Indices(sent[a]) :
        items[i].origin # a /\ items[i].sender # a

\* A response r is what item it was built from.
BuiltFrom(it, r) == it.origin = r.agent /\ it.n = r.n

\* The caller sees the responses in the order in which the agents hear them,
\* although it reads them from another queue, and whatever an agent was told
\* of a peer the caller has seen or will see.
CallerOrder ==
    \A i \in DOMAIN items : items[i].origin \in Agents =>
        /\ \/ \E p \in DOMAIN yielded : BuiltFrom(items[i], yielded[p])
           \/ \E p \in DOMAIN output :
                 output[p] # None /\ BuiltFrom(items[i], output[p])
        /\ \A j \in 1..i : \A p, q \in DOMAIN yielded :
              BuiltFrom(items[j], yielded[q]) /\ BuiltFrom(items[i], yielded[p])
                  => q <= p

\* A session that ended by itself (line 263) lost no response: every reader is
\* done, nothing is left in the output queue and the caller was given every
\* response that was read.
NoResponseLost ==
    session = "finished" =>
        /\ output = <<>>
        /\ \A a \in Agents :
              /\ reader[a] = "done"
              /\ \A n \in 1..responses[a] : \E p \in DOMAIN yielded :
                    yielded[p].agent = a /\ yielded[p].n = n

\* An agent's send side is closed only after every request of the caller went
\* out on it: the end of the caller's stream overtakes no request (line 169).
NoRequestLost ==
    \A a \in Agents : ~sendOpen[a] =>
        \A i \in DOMAIN items : items[i].origin = Caller => i \in Indices(sent[a])

\* An agent's send side is closed by the end of the caller's stream or by the
\* end of the session, never by what becomes of a peer (lines 249-251).
PeersDoNotCloseStreams ==
    \A a \in Agents : ~sendOpen[a] => fanOut = "done" \/ session # "collecting"

\* After the session is over (lines 269-275) nothing more is read from an
\* agent or from the caller, and nothing more is relayed: the tasks that still
\* run are only winding down.
QuietAfterEnd ==
    [][session # "collecting" =>
        UNCHANGED <<items, requests, responses, yielded>>]_vars

-----------------------------------------------------------------------------
(* The inductive invariant                                                 *)

\* Queues hold sentinels and items, send generators have yielded items.
Ranges ==
    \A a \in Agents :
        /\ \A k \in DOMAIN queue[a] : queue[a][k] \in 0..Len(items)
        /\ \A k \in DOMAIN sent[a] : sent[a][k] \in 1..Len(items)

\* The items still on a queue are in the order of creation, too, and younger
\* than what was sent.
QueueOrder ==
    \A a \in Agents : \A k \in DOMAIN queue[a] : queue[a][k] # Sentinel =>
        /\ \A j \in DOMAIN sent[a] : sent[a][j] < queue[a][k]
        /\ \A j \in 1..(k - 1) : queue[a][j] < queue[a][k]

\* Every item that concerns an agent was sent to it or is on its queue.
Complete ==
    \A a \in Agents : \A i \in DOMAIN items : items[i].origin # a =>
        (\E k \in DOMAIN sent[a] : sent[a][k] = i)
            \/ (\E k \in DOMAIN queue[a] : queue[a][k] = i)

\* Neither its queue nor its stream holds an item of the agent itself.
Foreign ==
    \A a \in Agents :
        /\ \A k \in DOMAIN queue[a] :
              queue[a][k] # Sentinel => items[queue[a][k]].origin # a
        /\ \A k \in DOMAIN sent[a] : items[sent[a][k]].origin # a

\* The only agent whose name an item can bear is the one it came from.
Attribution ==
    \A i \in DOMAIN items :
        items[i].sender \in Agents => items[i].sender = items[i].origin

DeliveryInv == Ranges /\ TotalOrder /\ QueueOrder /\ Complete /\ Foreign /\ Attribution

\* No request of the caller is on a queue behind a sentinel, or on a queue
\* whose sentinel was taken: there is no sentinel before the fan-out ends or
\* is cancelled, and no request after.
CloseInv ==
    \A a \in Agents :
        /\ (~sendOpen[a] \/ \E k \in DOMAIN queue[a] : queue[a][k] = Sentinel) =>
              fanOut # "running" /\ (fanOut = "done" \/ session # "collecting")
        /\ \A k \in DOMAIN queue[a] :
              /\ queue[a][k] # Sentinel
              /\ items[queue[a][k]].origin = Caller
              => sendOpen[a] /\ \A j \in 1..k : queue[a][j] # Sentinel

-----------------------------------------------------------------------------
(* The abstract group chat                                                 *)

Chat == INSTANCE GroupChat WITH
    Members <- Agents,
    log     <- [i \in DOMAIN items |-> items[i].origin],
    heard   <- sent

\* The transport implements the group chat: a StreamRequest object is one
\* contribution, and pulling it from the queue is hearing it.
ImplementsGroupChat == Chat!Spec

-----------------------------------------------------------------------------
(* Liveness                                                                *)

\* a's live stream has item i before it, with no end-of-stream mark between.
Awaits(a, i) ==
    /\ sendOpen[a] /\ streamOpen[a]
    /\ \E k \in DOMAIN queue[a] :
          queue[a][k] = i /\ \A j \in 1..k : queue[a][j] # Sentinel

\* An item queued for an agent reaches it unless its own stream ends: the
\* failure of peers holds nothing up.
Delivery ==
    \A a \in Agents : \A i \in 1..(MaxRequests + MaxResponses * Cardinality(Agents)) :
        Awaits(a, i) ~> i \in Indices(sent[a]) \/ ~streamOpen[a]

\* When the caller's stream exhausts, the session ends by itself (lines
\* 130-133 of the docstring).
ExhaustedEnds == fanOut = "done" ~> session # "collecting"

\* After the session is over every task ends and every send generator returns
\* or has lost its stream (lines 270-275).
CleanedUp ==
    session # "collecting" ~>
        /\ fanOut = "done"
        /\ \A a \in Agents : reader[a] = "done" /\ (sendOpen[a] => ~streamOpen[a])

-----------------------------------------------------------------------------
(* What the specification says and the code does not do                    *)

\* a2a-collaborative-task.md:174: message-sender is present on every item
\* delivered to a receiving agent.  Artifact updates are relayed as they are.
EveryItemAttributed ==
    \A a \in Agents : \A i \in Indices(sent[a]) : items[i].sender # NoSender
=============================================================================
