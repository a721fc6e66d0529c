# A verification of collaborative A2A sessions

The repository describes how several A2A agents share one session (`spec/v1`)
and implements it twice: in Python for an incident-response example
(`examples/collaborative/incident-response`), with three interchangeable
transports, and in Go as a CLI plugin that relays between ordinary A2A agents
(`examples/a2a-collaborate`) plus an agent to relay to
(`examples/a2a-collaborate-agent`). All of it is concurrent plumbing around a
simple promise, a *group chat*: everyone hears everyone else, in one order, and
nobody hears himself. On top of it four Python agents and a client handle an
incident by reacting to each other's words. This project models the plumbing and
the incident session, model-checks them with TLC, and proves every safety property
the passing runs check, the refinements included, with TLAPS; liveness is model-checked.

Paths below are relative to `src/`; `IR` is `examples/collaborative/incident-response`.

## 1. Inventory

| Component | State | Operations | Interacts with |
|---|---|---|---|
| **N-streams transport** `IR/nstreams_transport.py` | a queue per agent, the output queue, a fan-out task, a reader task per agent, `done_count` | fan out a request, pull a send generator, read and relay a response, end of stream, stream error, collect, finish, close | caller (async generators), SLIMRPC stream per agent |
| **Multicast transport** `IR/multicast_transport.py` | one merged queue, the fan-out task, the generator's own suspension point | fan out, pull, deliver (SLIM), read and yield, relay, end, close | caller, one stream to a GROUP channel |
| **Go relay** `examples/a2a-collaborate/main.go` | a bounded channel, `taskID`, `taskReady` per agent; `output`; the context | `Broadcast`, `readAndRelay`, sender goroutine, interrupt | user's terminal, a streaming call and many unary calls per agent |
| **Fan-in handler** `examples/a2a-collaborate-agent/fanin.go` | `inboxes`, a map from task to channel, under a lock | `SendMessage`, `RegisterInbox`, `DeregisterInbox` | A2A server, executor |
| **Agent executor** `.../agent.go` | the inbox, the conversation | `Execute`, `runLLMLoop` | LLM service, A2A server (yields events), inbox |
| **Incident agents** `IR/agents/*.py` | per execution: `confidence`, `logs_sent`, `diagnosis_sent`, `remediation_sent`, `awaiting_approval`; the server's input queue and event queue | create the task, react to ANOMALY, LOG, METRICS, DIAGNOSIS, APPROVED, complete the task | each other, only through the session |
| **Incident client** `IR/client.py` | `send_queue`, `approved` | trigger, approve, close | a transport |
| Go agent `main.go`, `IR/run.sh`, build files, `proto/`, `spec/` | none | wiring, documents | - |

What makes each of them correct, and hard to get right:

* *N-streams transport.* N+1 writers put on N queues with no lock; the end of
  the session travels as a sentinel through the same queues as the data; readers
  fail one by one; cancelled tasks still run their `finally` blocks. Wanted: one
  order for all agents and for the caller, no gap, no echo, nothing lost when
  the session ends by itself, failures of one agent confined to it, no task left.
* *Multicast transport.* The relay waits for the caller at a `yield`. Wanted: the
  same group chat, the caller told the same story as the agents, echoes
  recognisable by their sender.
* *Go relay.* Bounded channels with several writers and two readers in turn,
  task IDs shared without a lock, a sender that must wait for the task, an
  interrupt that must get everybody out. Wanted: order per speaker, no echo, no
  request for somebody else's task, draining, isolation, termination.
* *Fan-in and executor.* The registry is read under a lock and the channel it
  gave is used outside of it, while executions end and start. Wanted: every
  message in exactly one place, no message astray while an execution runs, no
  LLM call without new input, no call stuck while its execution goes on.
* *Incident agents and client.* A distributed state machine that no process
  holds: who does what next depends on words in messages, flags local to each
  executor, and a threshold that is compared in two files. Triggers and approvals
  can be repeated, by a client outside the session too. Wanted: no diagnosis
  without evidence, no execution without a plan and an approval, nothing twice,
  a diagnosis that is sent is acted on, and the session ends.

`PROJECT.json` lists the hazards one by one with the lines where they bite and
the properties that watch them.

## 2. Modules

```
GroupChat                   what a session promises (abstract)
  implemented by NStreamsBroadcast and by MulticastBroadcast

NStreamsBroadcast           the default transport
  MCNStreamsBroadcast         adds the symmetry set for TLC
  NStreamsBroadcastProofs     theorems: delivery, closing, refinement
    NStreamsCallerProofs      theorems: what the caller is given

MulticastBroadcast          the transport over one GROUP channel
  MulticastBroadcastProofs    theorems

CollabRelay                 the Go relay
  CollabRelayProofs           theorems

FanIn                       the Go agent: handler and LLM loop
  FanInProofs                 theorems

IncidentSession             the four Python agents and their client, over the
                            one order NStreamsBroadcast is shown to give
  IncidentSessionProofs       theorems: types, thresholds, causal order
    IncidentEvidenceProofs    theorems: nothing twice, grounded diagnoses

RecursionLemmas             recursive functions, for MulticastBroadcastProofs
                            and IncidentEvidenceProofs
```

An indented module EXTENDS the one above it.

An operator called `Op_Variant` is `Op` with a mistake one could have made. The
specifications never use it; it shows that a property can fail (`mutants` in
`PROJECT.json`).

### GroupChat
`log` is the sequence of speakers of the contributions, `heard[m]` the positions
of the log that member `m` has heard. `Say` appends, `Hear` gives a member the
next position that is not its own. A member may stop hearing at any time.

### NStreamsBroadcast
asyncio runs a task until it suspends, and `put` on an unbounded queue does not
suspend. So "put on every queue" is one step, which the code relies on without
saying so. State and actions:

| Model | Code |
|---|---|
| `items` | the `StreamRequest` objects that were put on queues; a queue holds indices of `items` |
| `queue[a]`, `Sentinel` | `queues[name]`, `sentinel` |
| `sent[a]`, `sendOpen[a]` | what `agent_send_stream(a)` has yielded; it has not returned |
| `streamOpen[a]` | the SLIMRPC stream (external) still pulls that generator |
| `fanOut`, `reader[a]` | the tasks: running, cancelled but not yet woken up, done |
| `output`, `yielded`, `doneCount`, `session` | `output_queue`, what the caller got, `done_count`, the `while` loop |
| `FanOutRequest`, `FanOutEnds` | an iteration of `fan_out_client`; its `finally` |
| `PullItem`, `PullSentinel` | `agent_send_stream` |
| `ReadResponse`, `RelayError` | the body of `read_agent` for one response; its failure for artifact updates |
| `EndOfStream`, `StreamError`, `ReaderCancelled` | the three ways into its `finally` (`ReaderFinally`) |
| `YieldResponse`, `CountDone`, `Finish`, `Close` | the collector loop; `Finalise` is its `finally` |

A response is reduced to agent, ordinal and payload kind, an item to origin,
ordinal, kind and `message-sender`. The spec says A2A 1.1 has no
`artifact_update` in `StreamRequest`, the code uses it; the model has both
outcomes. An agent responds only after it was sent something. The sentinels that the
collector's `finally` puts (lines 274-275) are modelled, but change nothing: the fan-out
task, exhausted or cancelled, puts one on every queue too, and a generator stops at its first.

### MulticastBroadcast
One queue instead of N, and the generator `send_live_message` with its
suspension point `pending`: `ReadResponse` reads and yields, `RelayResponse`
happens when the caller comes back, `Close` when it does not. The GROUP channel
is external: `Deliver(a)` gives agent `a` the next item of the one stream, its
own included. `HeardOfOthers` leaves out an agent's own items, and with that
this module implements `GroupChat` too. It is the last value of a recursive function,
`OthersUpTo(a)`, and not a filter of a library, since the refinement is proved. It
goes by the true origin of an item; whether an agent can tell its own items by the name they
bear is another question, which the run `multicast_echo` answers.

### CollabRelay
One step is one operation on a channel, a stream or a shared variable; every
goroutine is at a named place (`reader`, `sender`, `caster`). `CastStamp` and
`RelayStamp` build a request with the task ID visible at that moment, `CastPut`
and `RelayPut` put it when there is room. The unsynchronised task ID is modelled
as what Go permits: while a reader stores the string, others may see its new
length with the old pointer (`Torn`), and marshalling that panics. Sends on the
closed `output` channel panic too (`PrintLine`). After a panic nothing moves.

### FanIn
`call[c]` is where one `SendMessage` is: before the look-up, sending on the
inbox it found (`found[c]`), delegating to the server, done. `phase[e]` is where
execution `e` of the task is. The A2A server is external: it starts an execution
for a delegated message when none is under way (`StartExecution`), or refuses.
The LLM is a choice between a tool call, none, and an error.

### IncidentSession
The executors and the client above the N-streams transport. That module shows one
order for all agents and the caller, no gap and no echo; so the session here is one log,
`chat`, and each agent a position in it, `heard[a]`. An executor passes over most
of what it hears with `continue`; such a message changes nothing, so `Hear(a, i)` goes
straight to the next message that `a` reacts to (`ReactsTo`).

| Model | Code |
|---|---|
| `chat`, `by`, `from` | the items of the session; `by` is the stream an item came in on (echo suppression), `from` the `message-sender` the executors look at |
| `closedAt`, `Audible` | the sentinel: agents hear what precedes it |
| `heard[a]`, `HasTask(a)` | what `a`'s executor took from its input queue; the first message creates its task |
| `outbox[a]`, `stream[a]` | events enqueued by the executor, not yet read from the response stream; that stream |
| `logsSent`, `confidence`, `diagnosisSent`, `remediationSent`, `awaitingApproval` | the local variables of the four `execute` methods |
| `MonitoringHandles`, `LogHandles`, `DiagnosticsHandles`, `RemediationHandles` | the bodies of their loops, for one message |
| `ShutDown` | `QueueShutDown`, the `finally` that completes the task, and the end of the response stream |
| `OutOfBandMessage` | a message to the agent's task by a client that is not in the session |
| `Relay`, `StreamFails`, `YieldRequest`, `RequestsEnd` | the transport, one step each |
| `sendQueue`, `approved`, `seen`, `ClientReads` | `send_queue`, `approved`, the response loop of `client.py` |

Texts are reduced to the word that someone looks for, and `n`: the number of a log
line, or the confidence a diagnosis prints, in tenths. The weights of the log lines
are those the keywords in `SIMULATED_LOGS` give (`0.30, 0.30, 0.25, 0.15, 0.10`),
the metrics weigh `0.3 + 0.2`; confidences are hundredths. `Printed` is what
`:.1f` leaves of them. The sum with which the threshold is passed is 0.80, 0.85 or
1.0; only 0.85 lies between two printed values, and the float it is there prints
as 0.8, hence `c \div 10`. Whichever
way it went, the printed value stays above the remediation agent's threshold.
Task events and the completion update carry no words, nobody reacts to them, and
they stay out of `chat`; the completion is recorded in `completed`.

The client outside the session is external: the server lets it send to a task and reports its
message on the task's stream, before the executor gets it. It shows two things.
The remediation agent takes APPROVED from anybody, though the comment
above the test (`remediation_agent.py:114`) says that it comes from the client; `CausalChain`
therefore asks an approval of some sender before an execution, and asks that the *client's*
approval follows a plan. And the monitoring agent answers every trigger,
it has no flag as the log agent has; `SaidOnce` exempts its metrics. Two messages
count as a repetition when they announce the same (`Alike`): two diagnoses do, whatever confidence
they print, two log lines if they are the same line.

## 3. Runs

Passing runs:

| Run | Instance | Shows |
|---|---|---|
| `nstreams_group` | 3 agents, 2 requests, 1 response each | one order, no gap, no request lost, isolation, refinement of `GroupChat` (600 000 states) |
| `nstreams_payloads` | 2 agents, 2 requests, 4 kinds of response | types, no echo, the caller's order, no response lost, quiet after the end; delivery despite failed peers, termination, clean-up |
| `multicast_session` | 2 agents, 2 requests, 3 kinds | all of this for the multicast transport |
| `relay_safety` | 2 agents, channels of 2, 1 line, 2 events each | order per speaker, no echo, own task, opening first |
| `relay_live` | 2 agents, channels of 1, 1 line, 1 event each | channels drain, an interrupt ends all readers |
| `fanin_session` | 2 calls, inbox of 1, 3 executions | one place per message, registry, LLM input, calls end, inbox is read |
| `incident_session` | all 4 agents and the client, 3 log lines, 1 broken stream, 1 message from outside | the causal chain, evidence behind the diagnosis, nothing twice, thresholds agree, the incident is resolved (300 000 states) |

Runs that refute what a comment or the specification says (`findings`):

| Run | Statement | What the code does |
|---|---|---|
| `nstreams_artifact` | every delivered item has a `message-sender` (`spec/v1/a2a-collaborative-task.md:174`) | artifact updates are relayed without |
| `multicast_echo` | agents filter echoes by their own name (`multicast_transport.py:94`) | the echo of a message update bears the external client's name |
| `relay_stamp` | IDs "are already set correctly at enqueue time" (`main.go:117`) | what is enqueued before the task is known goes out without ID |
| `relay_isolation` | a failed stream must not affect other agents (`a2a-collaborative-task.md:236`) | a dead agent's full channel blocks the broadcaster |
| `fanin_immediate` | the task state "is returned immediately" (`fanin.go:30`) | a send on a full inbox waits, for ever if the execution has ended |

**Bounds.** `MaxRequests`, `MaxResponses`, `MaxTexts`, `MaxEvents`, `MaxExecs`
bound what the environment does; the code's own capacities (`QueueCap`,
`InboxCap`) are 1 (2 in `relay_safety`) instead of 100 and 64 so that the full channel is reached. Two
agents give every pair of speaker and hearer, a third adds two peers that race for
one queue; two contributions of a speaker are enough to swap; two calls fill an
inbox of one slot and block on it; three executions let a look-up be one or two
executions old. In `incident_session` three log lines reach 0.85, so the threshold
is passed by the log alone and with the metrics after any first line (the fourth and the
fifth could only add to a sum that is past it); one stream breaks at any moment,
whoever's it is, and one outside message is a second trigger or a second
approval, addressed to the remediation agent, the only one that reacts to both
(its own reaction to a trigger is none, but its stream brings the trigger to the three others).
Symmetry is used in `nstreams_group` only, which has no liveness property (no
operator names an agent).

What the bounds leave out: in `relay_live` an agent is passed two requests, the opening
and one that the channel holds, so that a third one is passed on after a *failed call* is
not shown (a second line of the user takes TLC beyond five minutes). `OwnTask` admits a torn task ID, since
the code produces it; that a speaker does not fall back to one is all it says of the race.

Deadlock is not checked: sessions, processes and executions really end.

**Fairness.** N-streams and multicast: the event loop runs what is ready, the
transport pulls its generator, the caller keeps iterating, SLIM delivers, and
an agent whose send side was closed closes its response stream (which the
docstring of `send_live_message` states, lines 130-133, and the agents' `finally` blocks do).
Nobody has to send, exhaust, fail or close. Go: goroutines run; one that waits on a
full channel is served in turn, since the runtime queues blocked senders first
in first out, hence strong fairness for steps that put; calls return (gRPC calls end or
fail). The user need not type or interrupt, agents need not speak. The interrupt: `main`
returns right after `cancel`, so the process may be gone before the readers
are; `InterruptEndsReaders` is about `Run` while the process lives. Incident session: weak
fairness of each process, that is of the client and of each agent with its
response stream; the event loop and the transport's own liveness, checked in
its modules, justify it. Nobody outside has to speak and no stream has to break.
`Resolved` names the one excuse the code leaves: the diagnostics or the
remediation agent is gone, or the log agent before the evidence was enough, and
the client, which closes on the confirmation only and has no timeout, waits for ever.

## 4. Proofs

Every safety property of a passing run is a theorem, for all values of the constants
that the assumptions of its module allow. Few of the properties are inductive: they
speak of what has been delivered or said, and what makes them true is what is still on
its way. Each section names what had to be added, and why. All the inductive invariants
were checked by TLC on the instances of section 3 before they were proved. A proof first
reduces the actions of its module to the few things a step can do to the state in
question (`Posted`, `LineStep`, `SpeakerStep`, `Handles`), and then shows, one lemma per
part of the invariant, that these preserve it.

**Assumptions.** Both Python transports: agents' names differ from the caller's and the
outside client's and, for N streams, are finitely many and at least one; payload kinds
are those of the code; bounds are naturals; the done signal is not a response.
`CollabRelay`: at least one agent, capacities positive. `FanIn`: finitely many calls,
none of them the opening message, a positive capacity. `IncidentSession`: up to five log
lines (the code has five), any number of broken streams and of messages from outside, to
any agents.

### N-streams transport (`NStreamsBroadcastProofs`, `NStreamsCallerProofs`)

| Theorem | Property | Rests on |
|---|---|---|
| `Typing` | `TypeOK` | itself |
| `AgentsAgreeOnOrder` | `TotalOrder` | `DeliveryInv` |
| `NothingSkipped` | `GapFree` | `DeliveryInv` |
| `EchoSuppressed` | `NoEcho` | `DeliveryInv` |
| `TransportImplementsGroupChat` | `ImplementsGroupChat` | `DeliveryInv` |
| `RequestsPrecedeClose` | `NoRequestLost` | `DeliveryInv`, `CloseInv` |
| `FailuresStayIsolated` | `PeersDoNotCloseStreams` | `CloseInv` |
| `NothingAfterTheEnd` | `QuietAfterEnd` | `OverInv` |
| `CallerHearsInOrder` | `CallerOrder` | `LineInv` |
| `EveryResponseYielded` | `NoResponseLost` | `LineInv`, `EndInv` |

* `DeliveryInv`: queued items are in order of creation and younger than what was sent
  (`QueueOrder`), every item is on the queue or in the stream of every agent but its own
  (`Complete`, `Foreign`), and no item bears the name of an agent it did not come from
  (`Attribution`). `CloseInv`: no sentinel exists while the fan-out runs, and none of
  the caller's requests lies behind one. `OverInv`: once the session is over no task is
  running. The refinement maps an item that joins the queues of all others (`Posted`) to
  `Say` and `PullItem` to `Hear`; `SentIsPrefix` provides the guard of `Hear`.
* `LineInv` is about the *line*, `yielded \o output`: what the caller was given and what
  it will be given. The properties only see its first part, and a reader adds to the end
  of the second. Every response read is in the line (`Found`), in the order of the items
  built from them (`Ordered`), and no number in it or among the items is ahead of the
  count of responses (`Counted`), without which a new response could equal an old one.
* `EndInv` is why counting `None`s is enough: the done signals counted and those still
  on the queue are as many as the readers that are done, and the last thing on the queue
  is a done signal when all readers are. So when `done_count` reaches the number of
  agents, the queue is empty, whatever order the readers ended in.

### Multicast transport (`MulticastBroadcastProofs`)

| Theorem | Property | Rests on |
|---|---|---|
| `Typing` | `TypeOK` | itself |
| `RequestsGoOut` | `NoRequestLost` | `StreamInv`, `CloseInv` |
| `OneStory` | `SameStory` | `StreamInv`, `StoryInv` |
| `QuietAfterwards` | `QuietAfterEnd` | `OverInv` |
| `MulticastImplementsGroupChat` | `ImplementsGroupChat` | `StreamInv`, `LastInv` |

* `StreamInv`: with one queue, an item's number is its place: what was sent is `1, 2,
  ...`, what an agent heard a prefix of it, and the queue holds the rest in order, among
  sentinels. `CloseInv`: a sentinel, queued or taken, comes after the fan-out's last
  request; there may be two, and the relay may put items between and behind them.
* `StoryInv`: `SameStory` compares the items put on the queue with the responses yielded, but
  between the `yield` and the relay there is a response without an item. Every item of
  an agent was built from a response (`Told`, of which the property keeps the first half),
  in the same order (`ToldInOrder`), and every response has its item, except the last
  while the generator is suspended at its `yield` (`Relay`, `AtLast`, `Numbered`). What
  an agent *hears* is a prefix of the items (`StreamInv`): those behind the sentinel are
  put on the queue and never heard.
* The refinement needs the value of a recursive function, `HeardOfOthers`;
  `OthersEquation` derives its defining equation (see *Recursion* below), `OthersGrow`
  says what one more delivery adds, and `LastInv` where the last item of others is.

### Go relay (`CollabRelayProofs`)

| Theorem | Property | Rests on |
|---|---|---|
| `Typing` | `TypeOK` | `PlaceInv` |
| `StreamOpensFirst` | `OpeningFirst` | `PlaceInv` |
| `EchoesAreSkipped` | `NoEcho` | `PlaceInv`, `OrderInv` |
| `SpeakersKeepOrder` | `SpeakerOrder` | `PlaceInv`, `OrderInv` |
| `TasksStayOwn` | `OwnTask` | `PlaceInv`, `OrderInv`, `StampInv` |

* `PlaceInv` (`TypeOK`, `LoopInv`, `TaskInv`, `OpenInv`) says what a goroutine knows at
  its place in the code: whom its loop has reached, what the request it holds says, that
  a sender past `<-taskReady` finds the task there.
* `OrderInv` counts, for a speaker `s` and an agent `a`, how far the loop of `s` has
  come with `a` (`Passed(s, a)`; one less than what was said while the loop has not
  reached `a`). The line of `a`, handed over or queued, holds exactly the contributions
  `1..Passed(s, a)` in order (`Increasing`, `Bounded`, `Gapless`), where only an
  interrupt excuses a gap. `SpeakerOrder` speaks of what was handed to `a`;
  `EarlierOnes` gets it from the line, since the channel comes after.
* `StampInv`: that the stamps of one speaker never fall back to none is not visible in
  the line alone: between the stamp and the put other goroutines move. The invariant
  covers the request held in between (`Stamped`), and that a stamped ID is one that is
  stored, which stays.

### Fan-in and LLM loop (`FanInProofs`)

| Theorem | Property | Rests on |
|---|---|---|
| `Typing` | `TypeOK` | `IInv` |
| `RegistryNamesTheRunning` | `InboxOfTheRunning` | `IInv` |
| `LLMHasInput` | `InputBeforeLLM` | `IInv` |
| `NothingReadTwice` | `MessageInOnePlace` | `IInv`, `Placed` |

* `IInv` adds what the properties silently rely on. There is one execution at a time
  (`OneActive`, which the server's side, `StartExecution`, establishes): otherwise the
  deregistration of one execution would delete the inbox of another. The registry names
  an execution from its registration to its deregistration (`RegistryHeld`,
  `RegistryLive`). And input is waiting in every phase that leads to a call of the LLM,
  not in the call's own phase alone (`InputWaits`).
* `Placed` determines, from the place of a call, where its message is (`Whereabouts`):
  nowhere before the send, in the execution whose inbox was looked up after it, and at
  the start of the conversation it created if the server got it; and nowhere twice. It
  also takes that an execution not yet started has read nothing (`NothingYet`).

### Incident session (`IncidentSessionProofs`, `IncidentEvidenceProofs`)

| Theorem | Property | Rests on |
|---|---|---|
| `Typing` | `TypeOK` | `TypeInv` |
| `DiagnosesAreActedOn` | `ThresholdsAgree` | `TypeInv` |
| `IncidentInOrder` | `CausalChain` | `TypeInv`, `ChainInv` |
| `NothingSaidTwice` | `SaidOnce` | `TypeInv`, `OnceInv` |
| `DiagnosesAreGrounded` | `Grounded` | `TypeInv`, `GroundInv` |

* `TypeInv` says of every message, in the log and on its way to it, that a log line has
  a weight and that a diagnosis prints enough (`SoundMessage`); the second is the
  arithmetic of the two thresholds. `ChainInv` traces a plan in an outbox, an approval
  or a close in the client's queue, a flag that is set, each to a cause that *is* in the
  log (`Caused`), and adds that what was acted on lies within what has been said
  (`Heard`).
* `OnceInv`: a message is new in the log because it was new in the outbox or queue it
  comes from, and it was new there because of a flag (`logs_sent`, `diagnosis_sent`,
  `remediation_sent`, `awaiting_approval`, `approved`). `Recorded` is what the flags
  admit to have been made; all that was said or waits is on record, so that what is not
  on record is nowhere.
* `GroundInv`: the diagnostics agent's confidence is at most the evidence among what it
  has heard, not, as the property may suggest, among all that was said; the evidence
  never decreases along the log (`EvidenceMonotone`), so a diagnosis waiting in the
  outbox stays grounded.

### Recursion (`RecursionLemmas`)

Two properties rest on values of recursive functions, `Evidence` and `OthersUpTo`. TLA+
defines such a function as *some* function that satisfies its equation, so that without
a proof that there is one nothing is known of it. The library's theorems on induction
take an operator as parameter, which the available provers cannot instantiate.
`RecursionLemmas` states induction of *sets* of numbers instead (`LeastElement`,
`Induction`, from the well-foundedness of `<`), and recursion of a *sequence of step
functions* (`Follows(f, v, step, n)`); `RecursionExists` and `RecursionUnique` say that
it defines one function. `EvidenceEquation` and `OthersEquation` instantiate them.

### Only model-checked

The liveness properties: `Delivery`, `ExhaustedEnds`, `CleanedUp` (N streams, the last
two for multicast also), `ChannelDrains`, `InterruptEndsReaders`, `RoutedCallsEnd`,
`InboxIsRead`, `Resolved`. They hold under fairness, and fairness is about `ENABLED`,
which the prover cannot expand. The five findings are counterexamples, which TLC gives.

## 5. Not modelled

* Message texts, parts, envelopes, logging, cards, flags, process set-up
  (`base.py` and the `main` functions of the agents); the agents' `cancel`, which is
  empty.
* Of `client.py`, the choice between transports and the `native-broadcast`
  transport, which is a few lines around `slima2a`, code that is not in this
  repository; `run.sh` starts the processes.
* The incident session over the multicast transport: there an agent hears
  its own items too, and `MulticastBroadcast` shows that without them it is the
  same group chat; the executors' guards by name are what leaves them out,
  with the exception `multicast_echo` shows.
* The composition of `CollabRelay` and `FanIn`. Their buffers form a circle
  (relay channel, unary call, inbox, event stream), but it closes only when about
  200 messages are on their way; with capacities of one, an instance would show a deadlock
  that no document excludes, of a system nobody runs.
* In `CollabRelay`: a second Task event (it would close a closed channel), the
  context ID, which is written and read together with the task ID.
* In `FanIn`: more than one task, as the registry's entries are independent; clients that retry.
* Rewriting of session IDs (specification, 5.3): the Go relay stamps its own,
  the Python transports leave it to SLIM.

## 6. Plan

What is left is on the way to liveness, as far as safety goes: for the waits in the
code, that no reachable state leaves a process waiting for something that nobody is
there to do.

1. N streams: a session that is being read has, for each reader that is done, a done
   signal counted or queued (`EndInv` has this); an agent whose sentinel was put finds
   it in its queue.
2. `FanIn`: a call that waits on a full inbox of an execution under way waits for a
   phase that reads, unless the execution ends.
3. `CollabRelay`: who waits at a full channel has a sender goroutine that has not
   returned, or an interrupt.
