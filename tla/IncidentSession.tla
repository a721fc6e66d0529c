-------------------------- MODULE IncidentSession --------------------------
(***************************************************************************)
(* The incident-response session                                           *)
(* (examples/collaborative/incident-response): the client (client.py) and  *)
(* the executors of the four agents (agents/), which speak through a       *)
(* broadcast transport.                                                    *)
(*                                                                         *)
(* The transport is N-streams as NStreamsBroadcast shows it to be: one     *)
(* order, no gap, no echo, and the client reads the responses in that      *)
(* order, too.  So the session is one log, chat, in which everyone has a   *)
(* position.  What an executor passes over leaves no trace: it goes        *)
(* straight to the next message that it reacts to.                         *)
(*                                                                         *)
(* An operator named Op_Variant is Op with a mistake one could have made;  *)
(* the specification does not use it.                                      *)
(***************************************************************************)
EXTENDS Naturals, Sequences

CONSTANTS
    LogLines,       \* bound: how many of its lines the log agent has
    MaxFailures,    \* bound: streams that break
    MaxOutOfBand,   \* bound: messages of a client outside this session
    OutOfBandTo,    \* bound: the agents such a client addresses
    OutOfBandSays   \* bound: what it says

Client      == "client"
OutOfBand   == "out-of-band"
Monitoring  == "monitoring-agent"
Log         == "log-agent"
Diagnostics == "diagnostics-agent"
Remediation == "remediation-agent"
Agents      == {Monitoring, Log, Diagnostics, Remediation}

ASSUME BoundsAssumption == LogLines \in 0..5 /\ MaxFailures \in Nat /\ MaxOutOfBand \in Nat
ASSUME OutOfBandAssumption ==
    /\ OutOfBandTo \subseteq Agents
    /\ OutOfBandSays \subseteq {"ANOMALY", "APPROVED"}

\* What the words of a message announce.  Nobody reacts to the events without
\* words: a task that is created, a task that is completed.
Texts == {"ANOMALY", "METRICS", "LOG", "DIAGNOSIS", "PLAN", "APPROVED", "EXECUTED"}

\* by is the stream that brings a message, from its message-sender, n the
\* number of a log line or the confidence a diagnosis shows, in tenths.
Message == [by : Agents \cup {Client}, from : Agents \cup {Client, OutOfBand},
            says : Texts, n : 0..10]

Said(by, from, says, n) == [by |-> by, from |-> from, says |-> says, n |-> n]

\* A client request and the end of the client's requests.
Requests == {"ANOMALY", "APPROVED"}
Close    == "close"

\* Confidences are in hundredths: the weights of the lines of SIMULATED_LOGS by
\* the keywords they contain, and of the metrics (0.3 and 0.2).
LogWeights    == <<30, 30, 25, 15, 10>>
MetricsWeight == 50

Threshold_Low      == 60
Threshold          == 70    \* CONFIDENCE_THRESHOLD
MinConfidence_High == 9
MinConfidence      == 7     \* MIN_CONFIDENCE, in tenths

VARIABLES
    chat,       \* the messages of the session, in its one order
    closedAt,   \* how many of them precede the end of the requests; 0: still open
    heard,      \* heard[a]: the position of the last message a's executor reacted to
    outbox,     \* outbox[a]: events a's executor enqueued, not yet read from its stream
    stream,     \* stream[a]: the response stream of a
    completed,  \* the agents whose task was reported completed
    logsSent,           \* log agent: logs_sent
    confidence,         \* diagnostics agent: confidence
    diagnosisSent,      \* diagnostics agent: diagnosis_sent
    remediationSent,    \* remediation agent: remediation_sent
    awaitingApproval,   \* remediation agent: awaiting_approval
    sendQueue,  \* client: what its request generator will yield
    approved,   \* client: approved
    seen,       \* client: the position of the last response it reacted to
    failures,   \* number of streams that broke
    outOfBand   \* number of messages from outside this session

agentVars   == <<logsSent, confidence, diagnosisSent, remediationSent, awaitingApproval>>
clientVars  == <<sendQueue, approved, seen>>
sessionVars == <<chat, closedAt, completed>>
boundVars   == <<failures, outOfBand>>
vars == <<sessionVars, heard, outbox, stream, agentVars, clientVars, boundVars>>

TypeOK ==
    /\ chat \in Seq(Message)
    /\ closedAt \in 0..Len(chat)
    /\ heard \in [Agents -> 0..Len(chat)]
    /\ outbox \in [Agents -> Seq(Message)]
    /\ stream \in [Agents -> {"open", "ended", "failed"}]
    /\ completed \subseteq Agents
    /\ confidence \in 0..100
    /\ logsSent \in BOOLEAN /\ diagnosisSent \in BOOLEAN
    /\ remediationSent \in BOOLEAN /\ awaitingApproval \in BOOLEAN
    /\ sendQueue \in Seq(Requests \cup {Close})
    /\ approved \in BOOLEAN
    /\ seen \in 0..Len(chat)
    /\ failures \in 0..MaxFailures /\ outOfBand \in 0..MaxOutOfBand

\* The trigger is the first thing the client's generator yields.
Init ==
    /\ chat = <<>> /\ closedAt = 0
    /\ heard = [a \in Agents |-> 0]
    /\ outbox = [a \in Agents |-> <<>>]
    /\ stream = [a \in Agents |-> "open"]
    /\ completed = {}
    /\ confidence = 0
    /\ logsSent = FALSE /\ diagnosisSent = FALSE
    /\ remediationSent = FALSE /\ awaitingApproval = FALSE
    /\ sendQueue = <<"ANOMALY">> /\ approved = FALSE /\ seen = 0
    /\ failures = 0 /\ outOfBand = 0

-----------------------------------------------------------------------------
(* What the executors react to                                             *)

Anomaly(a, m) == m.says = "ANOMALY" /\ m.from # a

Streams_EveryTime(m) == Anomaly(Log, m)

Streams(m) == ~logsSent /\ Anomaly(Log, m)

IsEvidence(m) ==
    \/ m.from = Log /\ m.says = "LOG"
    \/ m.from = Monitoring /\ m.says = "METRICS"

Weight(m) == IF m.says = "LOG" THEN LogWeights[m.n] ELSE MetricsWeight

Confidence_Uncapped(m) == confidence + Weight(m)

\* min(1.0, confidence + weight)
Confidence(m) == IF confidence + Weight(m) > 100 THEN 100 ELSE confidence + Weight(m)

Diagnoses_AtOnce(m) == IsEvidence(m)
Diagnoses_Repeatedly(m) == IsEvidence(m) /\ Confidence(m) >= Threshold

Diagnoses(m) == ~diagnosisSent /\ IsEvidence(m) /\ Confidence(m) >= Threshold

\* The format :.1f.  The sums that the weights make are multiples of 0.05, and
\* of those above the threshold only 0.85 is a tie; as a binary fraction it
\* lies below and is printed 0.8.
Printed(c) == c \div 10

Proposes(m) ==
    /\ ~remediationSent
    /\ m.says = "DIAGNOSIS" /\ m.from = Diagnostics /\ m.n >= MinConfidence

Executes_OnAnyMessage(m) == remediationSent /\ awaitingApproval

Executes(m) == remediationSent /\ awaitingApproval /\ m.says = "APPROVED"

\* The first message that a hears creates its task.
HasTask(a) == heard[a] # 0

\* An executor reacts to the message that creates its task; of the others, to
\* those that it does not pass over with continue.  (After its one diagnosis the
\* diagnostics agent adds up; it goes on to what it would diagnose again.)
ReactsTo(a, m) ==
    \/ ~HasTask(a)
    \/ a = Monitoring /\ Anomaly(a, m)
    \/ a = Log /\ Streams(m)
    \/ a = Diagnostics /\ IsEvidence(m) /\ (~diagnosisSent \/ Diagnoses(m))
    \/ a = Remediation /\ (Proposes(m) \/ Executes(m))

-----------------------------------------------------------------------------
(* The body of each executor's loop for message m.  first is what the      *)
(* server emitted before it handed m over.                                 *)

Emits(a, first, messages) ==
    outbox' = [outbox EXCEPT ![a] = @ \o first \o messages]

MonitoringHandles(m, first) ==
    /\ Emits(Monitoring, first, IF Anomaly(Monitoring, m)
                                THEN <<Said(Monitoring, Monitoring, "METRICS", 0)>> ELSE <<>>)
    /\ UNCHANGED agentVars

\* All lines are enqueued before the next message is taken.
LogHandles(m, first) ==
    /\ Emits(Log, first, IF Streams(m)
                         THEN [n \in 1..LogLines |-> Said(Log, Log, "LOG", n)] ELSE <<>>)
    /\ logsSent' = (logsSent \/ Streams(m))
    /\ UNCHANGED <<confidence, diagnosisSent, remediationSent, awaitingApproval>>

DiagnosticsHandles(m, first) ==
    /\ Emits(Diagnostics, first,
             IF Diagnoses(m)
             THEN <<Said(Diagnostics, Diagnostics, "DIAGNOSIS", Printed(Confidence(m)))>>
             ELSE <<>>)
    /\ confidence' = IF IsEvidence(m) THEN Confidence(m) ELSE confidence
    /\ diagnosisSent' = (diagnosisSent \/ Diagnoses(m))
    /\ UNCHANGED <<logsSent, remediationSent, awaitingApproval>>

RemediationHandles(m, first) ==
    /\ Emits(Remediation, first,
             CASE Proposes(m) -> <<Said(Remediation, Remediation, "PLAN", 0)>>
               [] Executes(m) -> <<Said(Remediation, Remediation, "EXECUTED", 0)>>
               [] OTHER       -> <<>>)
    /\ remediationSent' = (remediationSent \/ Proposes(m))
    /\ awaitingApproval' = (Proposes(m) \/ (awaitingApproval /\ ~Executes(m)))
    /\ UNCHANGED <<logsSent, confidence, diagnosisSent>>

Handles(a, m, first) ==
    \/ a = Monitoring  /\ MonitoringHandles(m, first)
    \/ a = Log         /\ LogHandles(m, first)
    \/ a = Diagnostics /\ DiagnosticsHandles(m, first)
    \/ a = Remediation /\ RemediationHandles(m, first)

-----------------------------------------------------------------------------
(* execute(): the input queue                                              *)

\* What the transport delivers to the agents: nothing from behind the end.
Audible == IF closedAt = 0 THEN DOMAIN chat ELSE 1..closedAt

\* The messages that a has before it and reacts to.
Awaiting(a) ==
    {i \in Audible : i > heard[a] /\ chat[i].by # a /\ ReactsTo(a, chat[i])}

Hear(a, i) ==
    /\ stream[a] = "open"
    /\ \A j \in Awaiting(a) : i <= j
    /\ heard' = [heard EXCEPT ![a] = i]
    /\ Handles(a, chat[i], <<>>)
    /\ UNCHANGED <<sessionVars, stream, clientVars, boundVars>>

\* An executor that has a task completes it, however its loop ends.
Finally(a) == IF HasTask(a) THEN {a} ELSE {}

\* QueueShutDown: the input is exhausted and the executor returns.  Its stream
\* ends when all it enqueued was read.
ShutDown(a) ==
    /\ stream[a] = "open" /\ outbox[a] = <<>>
    /\ closedAt # 0 /\ Awaiting(a) = {}
    /\ completed' = completed \cup Finally(a)
    /\ stream' = [stream EXCEPT ![a] = "ended"]
    /\ UNCHANGED <<chat, closedAt, heard, outbox, agentVars, clientVars, boundVars>>

\* A client outside this session sends a message to a's task.  The server also
\* reports it on a's stream, as a message update.
OutOfBandMessage(a, says) ==
    /\ outOfBand < MaxOutOfBand
    /\ stream[a] = "open" /\ HasTask(a)
    /\ outOfBand' = outOfBand + 1
    /\ Handles(a, Said(a, OutOfBand, says, 0), <<Said(a, OutOfBand, says, 0)>>)
    /\ UNCHANGED <<sessionVars, heard, stream, clientVars, failures>>

-----------------------------------------------------------------------------
(* The transport                                                           *)

\* A response joins the session.
Relay(a) ==
    /\ stream[a] = "open" /\ outbox[a] # <<>>
    /\ chat' = Append(chat, Head(outbox[a]))
    /\ outbox' = [outbox EXCEPT ![a] = Tail(@)]
    /\ UNCHANGED <<closedAt, completed, heard, stream, agentVars, clientVars, boundVars>>

\* A stream breaks and what was on its way is lost.
StreamFails(a) ==
    /\ stream[a] = "open" /\ failures < MaxFailures
    /\ failures' = failures + 1
    /\ stream' = [stream EXCEPT ![a] = "failed"]
    /\ outbox' = [outbox EXCEPT ![a] = <<>>]
    /\ UNCHANGED <<sessionVars, heard, agentVars, clientVars, outOfBand>>

\* The client's generator yields its next request, or returns.
YieldRequest ==
    /\ sendQueue # <<>> /\ Head(sendQueue) # Close /\ closedAt = 0
    /\ chat' = Append(chat, Said(Client, Client, Head(sendQueue), 0))
    /\ sendQueue' = Tail(sendQueue)
    /\ UNCHANGED <<closedAt, completed, heard, outbox, stream, agentVars,
                   approved, seen, boundVars>>

RequestsEnd ==
    /\ sendQueue # <<>> /\ Head(sendQueue) = Close /\ closedAt = 0
    /\ closedAt' = Len(chat)
    /\ sendQueue' = Tail(sendQueue)
    /\ UNCHANGED <<chat, completed, heard, outbox, stream, agentVars,
                   approved, seen, boundVars>>

-----------------------------------------------------------------------------
(* The client's response loop                                              *)

\* The status updates of the remediation agent that the client looks for.
Unseen ==
    {i \in DOMAIN chat : i > seen /\ chat[i].from = Remediation
                          /\ chat[i].says \in {"PLAN", "EXECUTED"}}

Approves(m) == m.says = "PLAN" /\ ~approved

ClientReads(i) ==
    /\ \A j \in Unseen : i <= j
    /\ seen' = i
    /\ approved' = (approved \/ Approves(chat[i]))
    /\ sendQueue' = sendQueue \o
          (IF Approves(chat[i]) THEN <<"APPROVED">> ELSE <<>>) \o
          (IF chat[i].says = "EXECUTED" THEN <<Close>> ELSE <<>>)
    /\ UNCHANGED <<sessionVars, heard, outbox, stream, agentVars, boundVars>>

-----------------------------------------------------------------------------

ClientRuns ==
    \/ YieldRequest
    \/ RequestsEnd
    \/ \E i \in Unseen : ClientReads(i)

AgentRuns(a) ==
    \/ \E i \in Awaiting(a) : Hear(a, i)
    \/ ShutDown(a)
    \/ Relay(a)

Next ==
    \/ ClientRuns
    \/ \E a \in Agents : AgentRuns(a) \/ StreamFails(a)
    \/ \E a \in OutOfBandTo, says \in OutOfBandSays : OutOfBandMessage(a, says)

Spec == Init /\ [][Next]_vars

\* The transport delivers (its liveness is checked in its own modules), the
\* executors and the client run.  Nobody outside has to speak or to fail.
Fairness == WF_vars(ClientRuns) /\ \A a \in Agents : WF_vars(AgentRuns(a))

FairSpec == Spec /\ Fairness

-----------------------------------------------------------------------------
(* Safety                                                                  *)

SaidBefore(i, says) == \E j \in 1..(i - 1) : chat[j].says = says

\* The incident is handled in order, although five parties act on what each
\* happens to have heard: no plan without a diagnosis, no approval without a
\* plan, no execution without an approval, and the session is not closed
\* before the execution.  The approval may come from outside the session, too:
\* the agent asks for the word only.  (client.py:179-199,
\* remediation_agent.py:77-131)
CausalChain ==
    /\ \A i \in DOMAIN chat :
          /\ chat[i].says = "PLAN"     => SaidBefore(i, "DIAGNOSIS")
          /\ chat[i].says = "APPROVED" /\ chat[i].from = Client => SaidBefore(i, "PLAN")
          /\ chat[i].says = "EXECUTED" => SaidBefore(i, "APPROVED")
    /\ closedAt # 0 => SaidBefore(closedAt + 1, "EXECUTED")

\* The weight of the evidence among the first i messages.
Evidence[i \in 0..Len(chat)] ==
    IF i = 0 THEN 0
    ELSE Evidence[i - 1] + (IF IsEvidence(chat[i]) THEN Weight(chat[i]) ELSE 0)

\* A diagnosis rests on evidence that everybody was given before it: the
\* diagnostics agent counts nothing twice that was said once, however log lines
\* and metrics interleave.  (diagnostics_agent.py:92-110)
Grounded ==
    \A i \in DOMAIN chat : chat[i].says = "DIAGNOSIS" => Evidence[i - 1] >= Threshold

\* Both announce the same: of log lines the same line, of diagnoses any.
Alike(m, other) ==
    /\ m.by = other.by /\ m.from = other.from /\ m.says = other.says
    /\ m.says = "LOG" => m.n = other.n

\* However often the trigger or an approval is heard, there is one diagnosis,
\* one plan, one approval by the client and one execution, and no log line comes
\* twice.  (Only the monitoring agent answers every trigger.)  (log_agent.py:79,
\* diagnostics_agent.py:110, remediation_agent.py:78, 119, client.py:180)
SaidOnce ==
    \A i \in DOMAIN chat : \A j \in 1..(i - 1) :
        Alike(chat[j], chat[i]) => chat[i].says = "METRICS" \/ chat[i].from = OutOfBand

\* The two thresholds are in different files, and the confidence that one agent
\* compares and the other reads back has lost digits in between: a diagnosis
\* that is sent, once only, is one that the remediation agent acts on.
\* (diagnostics_agent.py:60, 110, 114; remediation_agent.py:47, 85-93)
ThresholdsAgree ==
    \A i \in DOMAIN chat : chat[i].says = "DIAGNOSIS" => chat[i].n >= MinConfidence

-----------------------------------------------------------------------------
(* Liveness                                                                *)

Over == Unseen = {} /\ \A a \in Agents : stream[a] # "open"

\* Every task that was created and whose stream did not break is reported
\* completed.
TasksCompleted ==
    \A a \in Agents : stream[a] # "failed" => a \in completed

\* Nobody can stand in for diagnostics, remediation, or the log agent before it
\* gave enough evidence.  Without the monitoring agent the log lines suffice.
VitalAgentFailed ==
    \/ stream[Diagnostics] = "failed" \/ stream[Remediation] = "failed"
    \/ stream[Log] = "failed" /\ Evidence[Len(chat)] < Threshold

\* The incident is resolved and the session ends, whoever fails once the client
\* closed it and whatever is still on its way.  It stays open for ever only if a
\* vital agent failed before: nothing but the confirmation of the execution ends
\* it.  (client.py:191-199)
Resolved ==
    \/ <>(Over /\ TasksCompleted)
    \/ <>[](closedAt = 0 /\ VitalAgentFailed)
=============================================================================
