---------------------------- MODULE CollabRelay ----------------------------
(***************************************************************************)
(* The collaborate plugin of the a2a CLI (examples/a2a-collaborate/main.go)*)
(* relays between N agents that know nothing of each other.  Per agent it  *)
(* has a bounded channel of requests, a reader goroutine that opens the    *)
(* agent's stream with the first request of that channel and relays every  *)
(* event to the channels of the others, and a sender goroutine that passes *)
(* the rest of the channel on, one SendMessage call at a time, once the    *)
(* agent's task is known.  A broadcaster goroutine puts each line of the   *)
(* user on all channels.                                                   *)
(*                                                                         *)
(* One step is one operation on a channel, a stream or a shared variable;  *)
(* goroutines interleave between any two.  The prints on the output        *)
(* channel are drained by a goroutine that only prints, so only what a     *)
(* send on the closed channel does is kept: it panics and ends the process.*)
(* An operator named Op_Variant is Op with a mistake one could have made;  *)
(* the specification does not use it.                                      *)
(***************************************************************************)
EXTENDS Naturals, Sequences, FiniteSets

CONSTANTS
    N,          \* number of agents
    QueueCap,   \* capacity of an agent's channel (100 in the code)
    MaxTexts,   \* bound: lines the user enters
    MaxEvents   \* bound: relayed events of each agent

ASSUME RelayAssumption ==
    /\ N \in Nat \ {0} /\ QueueCap \in Nat \ {0}
    /\ MaxTexts \in Nat /\ MaxEvents \in Nat

Agents == 1..N
User   == 0
NoTask == 0         \* the empty TaskID; the task of agent a is called a
Torn   == N + 1     \* a string whose length was read without its pointer

TaskIDs == Agents \cup {NoTask}

Request == [origin : Agents \cup {User}, n : Nat \ {0},
            taskID : TaskIDs \cup {Torn}]

VARIABLES
    queue,      \* queue[a]: the channel agentClient.queue
    taskID,     \* taskID[a]: r.agents[a].taskID
    ready,      \* ready[a]: taskReady is closed
    reader,     \* reader[a]: where readAndRelay(a) is
    target,     \* target[a]: the agent its relay loop is at
    held,       \* held[a]: the request it is about to put on target's channel
    events,     \* events[a]: the events it has relayed or is relaying
    sender,     \* sender[a]: where the sender goroutine of a is
    caster,     \* where Broadcast is
    castTo,     \* the agent Broadcast is at
    castReq,    \* the request it is about to put on castTo's channel
    texts,      \* the lines broadcast so far, the current one included
    handed,     \* handed[a]: the requests passed to a's client, first to last
    cancelled,  \* ctx is done
    closed,     \* output is closed
    panicked    \* the process has panicked

shared == <<queue, taskID, ready, handed>>
rvars  == <<reader, target, held, events>>
bvars  == <<caster, castTo, castReq, texts>>
ending == <<cancelled, closed>>
vars   == <<shared, rvars, sender, bvars, ending, panicked>>

NoRequest == [origin |-> User, n |-> 1, taskID |-> NoTask]

TypeOK ==
    /\ queue \in [Agents -> Seq(Request)]
    /\ \A a \in Agents : Len(queue[a]) <= QueueCap
    /\ taskID \in [Agents -> TaskIDs]
    /\ ready \in [Agents -> BOOLEAN]
    /\ reader \in [Agents -> {"first", "stream", "store", "stamp", "put", "done"}]
    /\ target \in [Agents -> Agents]
    /\ held \in [Agents -> Request]
    /\ events \in [Agents -> 0..MaxEvents]
    /\ sender \in [Agents -> {"absent", "waiting", "idle", "calling", "done"}]
    /\ caster \in {"scan", "stamp", "put", "done"}
    /\ castTo \in Agents
    /\ castReq \in Request
    /\ texts \in 0..MaxTexts
    /\ handed \in [Agents -> Seq(Request)]
    /\ cancelled \in BOOLEAN /\ closed \in BOOLEAN /\ panicked \in BOOLEAN

Init ==
    /\ queue = [a \in Agents |-> <<>>]
    /\ taskID = [a \in Agents |-> NoTask]
    /\ ready = [a \in Agents |-> FALSE]
    /\ reader = [a \in Agents |-> "first"]
    /\ target = [a \in Agents |-> 1]
    /\ held = [a \in Agents |-> NoRequest]
    /\ events = [a \in Agents |-> 0]
    /\ sender = [a \in Agents |-> "absent"]
    /\ caster = "scan"
    /\ castTo = 1
    /\ castReq = NoRequest
    /\ texts = 0
    /\ handed = [a \in Agents |-> <<>>]
    /\ cancelled = FALSE /\ closed = FALSE /\ panicked = FALSE

HasRoom_Always(a) == TRUE

\* output <- msg
PrintLine == panicked' = closed

\* a.queue <- req, where there is room; the select's other case is ctx.Done().
HasRoom(a) == Len(queue[a]) < QueueCap

Put_Front(a, req) == queue' = [queue EXCEPT ![a] = <<req>> \o @]

Put(a, req) == queue' = [queue EXCEPT ![a] = Append(@, req)]

\* req := <-a.queue, passed to a's client; marshalling a torn string panics.
Hand(a) ==
    /\ queue' = [queue EXCEPT ![a] = Tail(@)]
    /\ handed' = [handed EXCEPT ![a] = Append(@, Head(queue[a]))]
    /\ panicked' = (Head(queue[a]).taskID = Torn)

\* r.agents[b].taskID as another goroutine reads it.  Nothing orders the read
\* and the write: while b's reader stores the two words of the string, the new
\* length may be seen with the old, nil pointer.
TaskIDSeen(b) == {taskID[b]} \cup (IF reader[b] = "store" THEN {Torn} ELSE {})

-----------------------------------------------------------------------------
(* Broadcast                                                               *)

\* The user enters a line, or it is the initial message.
ScanLine ==
    /\ caster = "scan" /\ texts < MaxTexts
    /\ texts' = texts + 1
    /\ caster' = "stamp"
    /\ UNCHANGED <<shared, rvars, sender, castTo, castReq, ending, panicked>>

\* The line's request for the agent at hand gets the task ID known by now.
CastStamp ==
    /\ caster = "stamp"
    /\ \E id \in TaskIDSeen(castTo) :
           castReq' = [origin |-> User, n |-> texts, taskID |-> id]
    /\ caster' = "put"
    /\ UNCHANGED <<shared, rvars, sender, castTo, texts, ending, panicked>>

CastPut ==
    /\ caster = "put" /\ HasRoom(castTo)
    /\ Put(castTo, castReq)
    /\ castReq' = NoRequest
    /\ IF castTo = N THEN caster' = "scan" /\ castTo' = 1
                     ELSE caster' = "stamp" /\ castTo' = castTo + 1
    /\ UNCHANGED <<taskID, ready, handed, rvars, sender, texts, ending, panicked>>

\* Broadcast returns; the scanner goes on to the next line.
CastAbort ==
    /\ caster = "put" /\ cancelled
    /\ caster' = "scan" /\ castTo' = 1 /\ castReq' = NoRequest
    /\ UNCHANGED <<shared, rvars, sender, texts, ending, panicked>>

\* The standard input is exhausted; the session goes on.
ScanEnds ==
    /\ caster = "scan"
    /\ caster' = "done"
    /\ UNCHANGED <<shared, rvars, sender, castTo, castReq, texts, ending, panicked>>

-----------------------------------------------------------------------------
(* readAndRelay                                                            *)

\* The first request opens the stream, and the sender goroutine starts.
ReadFirst(a) ==
    /\ reader[a] = "first" /\ queue[a] # <<>>
    /\ Hand(a)
    /\ reader' = [reader EXCEPT ![a] = "stream"]
    /\ sender' = [sender EXCEPT ![a] = "waiting"]
    /\ UNCHANGED <<taskID, ready, target, held, events, bvars, ending>>

FirstAbort(a) ==
    /\ reader[a] = "first" /\ cancelled
    /\ reader' = [reader EXCEPT ![a] = "done"]
    /\ UNCHANGED <<shared, target, held, events, sender, bvars, ending, panicked>>

After_Everyone(a, b) == b + 1

\* The agent that comes after b in a's relay loop, which skips a itself.
After(a, b) == IF b + 1 = a THEN b + 2 ELSE b + 1

\* The loop goes on to the agent after b, or is over and the next event is read.
RelayTo(a, b) ==
    IF b \in Agents
    THEN /\ target' = [target EXCEPT ![a] = b]
         /\ reader' = [reader EXCEPT ![a] = "stamp"]
    ELSE /\ target' = [target EXCEPT ![a] = 1]
         /\ reader' = [reader EXCEPT ![a] = "stream"]

\* The relay loop starts on a new event.
Relay(a) ==
    /\ events[a] < MaxEvents
    /\ events' = [events EXCEPT ![a] = @ + 1]
    /\ RelayTo(a, After(a, 0))
    /\ PrintLine
    /\ UNCHANGED <<queue, held, sender, bvars, handed, ending>>

\* The agent's task, which comes once, before any update of it.
ReadTask(a) ==
    /\ reader[a] = "stream" /\ ~ready[a] /\ events[a] < MaxEvents
    /\ reader' = [reader EXCEPT ![a] = "store"]
    /\ UNCHANGED <<shared, target, held, events, sender, bvars, ending, panicked>>

\* Its ID is stored and the sender goroutine is let go.
StoreTask(a) ==
    /\ reader[a] = "store"
    /\ taskID' = [taskID EXCEPT ![a] = a]
    /\ ready' = [ready EXCEPT ![a] = TRUE]
    /\ Relay(a)

\* A status or artifact update.
ReadUpdate(a) ==
    /\ reader[a] = "stream" /\ ready[a]
    /\ Relay(a)
    /\ UNCHANGED <<taskID, ready>>

\* A message instead of a task is printed and not relayed; so the stream may
\* end without a task.  An error, that of a cancelled context among them, is
\* printed.
StreamEnds(a) ==
    /\ reader[a] = "stream"
    /\ reader' = [reader EXCEPT ![a] = "done"]
    /\ UNCHANGED panicked
    /\ UNCHANGED <<shared, target, held, events, sender, bvars, ending>>

StreamFails_StopsSender(a) ==
    /\ reader[a] = "stream"
    /\ reader' = [reader EXCEPT ![a] = "done"]
    /\ sender' = [sender EXCEPT ![a] = "done"]
    /\ PrintLine
    /\ UNCHANGED <<shared, target, held, events, bvars, ending>>

StreamFails(a) ==
    /\ reader[a] = "stream"
    /\ reader' = [reader EXCEPT ![a] = "done"]
    /\ PrintLine
    /\ UNCHANGED <<shared, target, held, events, sender, bvars, ending>>

Clones_SharedStruct(a, b) == {[origin |-> a, n |-> events[a], taskID |-> taskID[a]]}

\* cloneRequestForAgent
Clones(a, b) == {[origin |-> a, n |-> events[a], taskID |-> id] : id \in TaskIDSeen(b)}

RelayStamp(a) ==
    /\ reader[a] = "stamp"
    /\ \E req \in Clones(a, target[a]) : held' = [held EXCEPT ![a] = req]
    /\ reader' = [reader EXCEPT ![a] = "put"]
    /\ PrintLine
    /\ UNCHANGED <<shared, target, events, sender, bvars, ending>>

RelayPut(a) ==
    /\ reader[a] = "put" /\ HasRoom(target[a])
    /\ Put(target[a], held[a])
    /\ RelayTo(a, After(a, target[a]))
    /\ held' = [held EXCEPT ![a] = NoRequest]
    /\ UNCHANGED <<taskID, ready, handed, events, sender, bvars, ending, panicked>>

RelayAbort_Missing(a) == FALSE

RelayAbort(a) ==
    /\ reader[a] = "put" /\ cancelled
    /\ reader' = [reader EXCEPT ![a] = "done"]
    /\ target' = [target EXCEPT ![a] = 1]
    /\ held' = [held EXCEPT ![a] = NoRequest]
    /\ UNCHANGED <<shared, events, sender, bvars, ending, panicked>>

-----------------------------------------------------------------------------
(* The sender goroutine                                                    *)

SenderReady_AtOnce(a) ==
    /\ sender[a] = "waiting"
    /\ sender' = [sender EXCEPT ![a] = "idle"]
    /\ UNCHANGED <<shared, rvars, bvars, ending, panicked>>

\* <-agent.taskReady: there is no other case, not even ctx.Done().
SenderReady(a) ==
    /\ sender[a] = "waiting" /\ ready[a]
    /\ sender' = [sender EXCEPT ![a] = "idle"]
    /\ UNCHANGED <<shared, rvars, bvars, ending, panicked>>

SenderCalls(a) ==
    /\ sender[a] = "idle" /\ queue[a] # <<>>
    /\ Hand(a)
    /\ sender' = [sender EXCEPT ![a] = "calling"]
    /\ UNCHANGED <<taskID, ready, rvars, bvars, ending>>

\* The call returns; its error is printed and the request is not sent again.
CallReturns(a) ==
    /\ sender[a] = "calling"
    /\ sender' = [sender EXCEPT ![a] = "idle"]
    /\ UNCHANGED <<shared, rvars, bvars, ending, panicked>>

CallFails(a) ==
    /\ sender[a] = "calling"
    /\ sender' = [sender EXCEPT ![a] = "idle"]
    /\ PrintLine
    /\ UNCHANGED <<shared, rvars, bvars, ending>>

SenderAbort(a) ==
    /\ sender[a] = "idle" /\ cancelled
    /\ sender' = [sender EXCEPT ![a] = "done"]
    /\ UNCHANGED <<shared, rvars, bvars, ending, panicked>>

-----------------------------------------------------------------------------
(* The end of the session                                                  *)

\* main got an interrupt and calls relay.cancel().
Cancel ==
    /\ ~cancelled /\ cancelled' = TRUE
    /\ UNCHANGED <<shared, rvars, sender, bvars, closed, panicked>>

\* Run closes output while the other goroutines may still be printing.
CloseOutput ==
    /\ cancelled /\ ~closed /\ closed' = TRUE
    /\ UNCHANGED <<shared, rvars, sender, bvars, cancelled, panicked>>

-----------------------------------------------------------------------------

Broadcaster == ScanLine \/ CastStamp \/ CastPut \/ CastAbort \/ ScanEnds

Reader(a) ==
    \/ ReadFirst(a) \/ FirstAbort(a)
    \/ ReadTask(a) \/ StoreTask(a) \/ ReadUpdate(a) \/ StreamEnds(a) \/ StreamFails(a)
    \/ RelayStamp(a) \/ RelayPut(a) \/ RelayAbort(a)

Sender(a) ==
    SenderReady(a) \/ SenderCalls(a) \/ CallReturns(a) \/ CallFails(a) \/ SenderAbort(a)

Next ==
    /\ ~panicked
    /\ \/ Broadcaster
       \/ \E a \in Agents : Reader(a) \/ Sender(a)
       \/ Cancel \/ CloseOutput

Spec == Init /\ [][Next]_vars

\* What the goroutines do of their own accord, of all that they do: a stream
\* fails when its context is cancelled.
CasterRuns == ~panicked /\ (CastStamp \/ CastPut \/ CastAbort)

ReaderRuns(a) ==
    /\ ~panicked
    /\ \/ ReadFirst(a) \/ FirstAbort(a)
       \/ StoreTask(a) \/ RelayStamp(a) \/ RelayPut(a) \/ RelayAbort(a)
       \/ StreamFails(a) /\ cancelled

SenderRuns(a) ==
    ~panicked /\ (SenderReady(a) \/ SenderCalls(a) \/ CallReturns(a) \/ CallFails(a))

\* Goroutines run, calls to agents return, and a goroutine blocked on a full
\* channel is served in turn (the runtime queues the blocked senders), hence
\* strong fairness for those that put.  The user is not obliged to type or to
\* interrupt, nor an agent to send events, to fail or to end its stream.
Fairness ==
    /\ SF_vars(CasterRuns)
    /\ \A a \in Agents : SF_vars(ReaderRuns(a)) /\ WF_vars(SenderRuns(a))

FairSpec == Spec /\ Fairness

-----------------------------------------------------------------------------
(* Safety                                                                  *)

\* What was passed to a's client and what waits for it, oldest first.
Line(a) == handed[a] \o queue[a]

\* Of one speaker, an agent is passed the first, the second, the third ...
\* contribution, in that order, although the first request of all goes through
\* the stream and the rest through the sender goroutine (lines 105-128), and
\* although every channel has as many writers as there are speakers.  Only a
\* put given up after an interrupt leaves a gap.
SpeakerOrder ==
    \A a \in Agents : \A j \in DOMAIN Line(a) :
        LET earlier == {i \in 1..(j - 1) : Line(a)[i].origin = Line(a)[j].origin}
        IN  /\ \A i \in earlier : Line(a)[i].n < Line(a)[j].n
            /\ ~cancelled => Line(a)[j].n = Cardinality(earlier) + 1

\* No agent is passed its own events (line 148).
NoEcho == \A a \in Agents : \A j \in DOMAIN Line(a) : Line(a)[j].origin # a

\* A request never names a peer's task (lines 149-150), and once a speaker has
\* addressed an agent's task all its later requests to that agent do, however
\* long they waited for room.
OwnTask ==
    \A a \in Agents : \A j \in DOMAIN Line(a) :
        /\ Line(a)[j].taskID \in {a, NoTask, Torn}
        /\ \A i \in 1..j : Line(a)[i].origin = Line(a)[j].origin
              /\ Line(a)[i].taskID = a => Line(a)[j].taskID = a

\* Before the agent has a task only the request that opens the stream is
\* passed to it, so that no call can overtake the opening (line 113).
OpeningFirst ==
    \A a \in Agents : Len(handed[a]) > 1 => ready[a]

-----------------------------------------------------------------------------
(* Liveness                                                                *)

\* What waits in the channel of an agent that has a task is passed on, even
\* when the agent's stream has ended or failed (lines 114-125, 130-133): the
\* sender goroutine outlives the reader that started it.
ChannelDrains ==
    \A a \in Agents, k \in 1..(MaxTexts + MaxEvents * (N - 1)) :
        ready[a] /\ Len(Line(a)) >= k ~> Len(handed[a]) >= k \/ cancelled \/ panicked

\* An interrupt ends every reader, wherever it is blocked, so that wg.Wait
\* returns (line 80), or the process ends by a print on the closed output.  (main
\* returns after the cancel, which may end the process sooner still; a Relay
\* within a longer-lived program has to end like this.)
InterruptEndsReaders ==
    cancelled ~> panicked \/ \A a \in Agents : reader[a] = "done"

-----------------------------------------------------------------------------
(* What comments and the specification say and the code does not do        *)

\* main.go:117, of the requests the sender goroutine takes: "task ID and
\* context ID are already set correctly at enqueue time".
StampedAtEnqueue ==
    \A a \in Agents : \A j \in DOMAIN handed[a] : j > 1 => handed[a][j].taskID = a

HandedLine(a, n) ==
    \E j \in DOMAIN handed[a] : handed[a][j].origin = User /\ handed[a][j].n = n

\* a2a-collaborative-task.md:236-241: an agent whose stream terminates does not
\* affect the others.  So a line of the user reaches every agent whose
\* own task is running.
LinesArrive ==
    \A a \in Agents, n \in 1..MaxTexts :
        (texts >= n /\ ready[a] /\ reader[a] # "done") ~>
            (HandedLine(a, n) \/ reader[a] = "done" \/ cancelled \/ panicked)
=============================================================================
