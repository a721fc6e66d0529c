----------------------- MODULE IncidentSessionProofs -----------------------
(***************************************************************************)
(* What holds of the incident-response session for any number of log       *)
(* lines, broken streams and messages from outside.                        *)
(***************************************************************************)
EXTENDS IncidentSession, TLAPS

\* The messages that executors and the client make: a log line has a weight, a
\* diagnosis is confident enough for the remediation agent.
SoundMessage ==
    {m \in Message : /\ m.says = "LOG" => m.n \in 1..5
                     /\ m.says = "DIAGNOSIS" => m.n >= MinConfidence}

TypeInv ==
    /\ TypeOK
    /\ chat \in Seq(SoundMessage)
    /\ outbox \in [Agents -> Seq(SoundMessage)]

-----------------------------------------------------------------------------
(* Types                                                                   *)

\* The weight of a message is a number, and the capped sum stays in its range.
LEMMA ConfidenceType ==
    ASSUME NEW m \in SoundMessage, confidence \in 0..100
    PROVE  Confidence(m) \in 0..100
<1>1. Weight(m) \in Nat
  <2>1. CASE m.says = "LOG"
    <3>1. m.n \in 1..5
      BY <2>1 DEF SoundMessage
    <3>2. m.n = 1 \/ m.n = 2 \/ m.n = 3 \/ m.n = 4 \/ m.n = 5
      BY <3>1
    <3> QED
      BY <2>1, <3>2 DEF Weight, LogWeights
  <2>2. CASE m.says # "LOG"
    BY <2>2 DEF Weight, MetricsWeight
  <2> QED
    BY <2>1, <2>2
<1> QED
  BY <1>1 DEF Confidence

\* A diagnosis is made at the threshold or above it, and what is printed of its
\* confidence is enough for the other agent.
LEMMA PrintedConfidence ==
    ASSUME NEW c \in 0..100
    PROVE  /\ Printed(c) \in 0..10
           /\ c >= Threshold => Printed(c) >= MinConfidence
BY DEF Printed, Threshold, MinConfidence

\* An executor keeps the types, whatever message it is handed.
LEMMA HandlesTypes ==
    ASSUME TypeInv, NEW a \in Agents, NEW m \in SoundMessage,
           NEW first \in Seq(SoundMessage), Handles(a, m, first)
    PROVE  /\ outbox' \in [Agents -> Seq(SoundMessage)]
           /\ confidence' \in 0..100
           /\ logsSent' \in BOOLEAN /\ diagnosisSent' \in BOOLEAN
           /\ remediationSent' \in BOOLEAN /\ awaitingApproval' \in BOOLEAN
<1> DEFINE Emitted(new) == new \in Seq(SoundMessage) /\ Emits(a, first, new)
<1>1. ASSUME NEW new, Emitted(new)
      PROVE  outbox' \in [Agents -> Seq(SoundMessage)]
  <2>1. (outbox[a] \o first) \o new \in Seq(SoundMessage)
    BY <1>1 DEF TypeInv
  <2> QED
    BY <1>1, <2>1 DEF TypeInv, Emits
<1>2. ASSUME NEW says \in {"METRICS", "PLAN", "EXECUTED"}
      PROVE  <<Said(a, a, says, 0)>> \in Seq(SoundMessage)
  <2>1. Said(a, a, says, 0) \in SoundMessage
    BY DEF Said, SoundMessage, Message, Texts
  <2> QED
    BY <2>1
<1>3. <<>> \in Seq(SoundMessage)
  OBVIOUS
<1>4. CASE a = Monitoring /\ MonitoringHandles(m, first)
  <2>1. \E new : Emitted(new)
    BY <1>2, <1>3, <1>4 DEF MonitoringHandles
  <2> QED
    BY <1>1, <1>4, <2>1 DEF MonitoringHandles, agentVars, TypeInv, TypeOK
<1>5. CASE a = Log /\ LogHandles(m, first)
  <2>1. [n \in 1..LogLines |-> Said(Log, Log, "LOG", n)] \in Seq(SoundMessage)
    <3>1. LogLines \in 0..5
      BY BoundsAssumption
    <3>2. \A n \in 1..LogLines : Said(Log, Log, "LOG", n) \in SoundMessage
      BY <3>1 DEF Said, SoundMessage, Message, Texts, Agents
    <3> QED
      BY <3>1, <3>2
  <2>2. \E new : Emitted(new)
    BY <1>3, <1>5, <2>1 DEF LogHandles
  <2> QED
    BY <1>1, <1>5, <2>2 DEF LogHandles, TypeInv, TypeOK
<1>6. CASE a = Diagnostics /\ DiagnosticsHandles(m, first)
  <2>1. Confidence(m) \in 0..100
    BY ConfidenceType DEF TypeInv, TypeOK
  <2>2. Diagnoses(m) =>
            <<Said(Diagnostics, Diagnostics, "DIAGNOSIS", Printed(Confidence(m)))>>
                \in Seq(SoundMessage)
    <3>1. SUFFICES ASSUME Diagnoses(m)
                   PROVE  Said(Diagnostics, Diagnostics, "DIAGNOSIS", Printed(Confidence(m)))
                              \in SoundMessage
      OBVIOUS
    <3>2. Printed(Confidence(m)) \in 0..10 /\ Printed(Confidence(m)) >= MinConfidence
      BY <2>1, <3>1, PrintedConfidence DEF Diagnoses
    <3> QED
      BY <3>2 DEF Said, SoundMessage, Message, Texts, Agents
  <2>3. \E new : Emitted(new)
    BY <1>3, <1>6, <2>2 DEF DiagnosticsHandles
  <2> QED
    BY <1>1, <1>6, <2>1, <2>3 DEF DiagnosticsHandles, TypeInv, TypeOK
<1>7. CASE a = Remediation /\ RemediationHandles(m, first)
  <2>1. \E new : Emitted(new)
    BY <1>2, <1>3, <1>7 DEF RemediationHandles
  <2> QED
    BY <1>1, <1>7, <2>1 DEF RemediationHandles, TypeInv, TypeOK
<1> QED
  BY <1>4, <1>5, <1>6, <1>7 DEF Handles

\* The initial state has the types.
LEMMA TypesHoldInitially == Init => TypeInv
<1> SUFFICES ASSUME Init
             PROVE  TypeInv
  OBVIOUS
<1>1. <<"ANOMALY">> \in Seq(Requests \cup {Close})
  BY DEF Requests
<1>2. Len(chat) = 0
  BY DEF Init
<1>3. failures \in 0..MaxFailures /\ outOfBand \in 0..MaxOutOfBand
  BY BoundsAssumption DEF Init
<1>4. chat \in Seq(SoundMessage) /\ chat \in Seq(Message)
  BY DEF Init
<1>5. outbox \in [Agents -> Seq(SoundMessage)] /\ outbox \in [Agents -> Seq(Message)]
  BY DEF Init
<1>6. heard \in [Agents -> 0..Len(chat)] /\ stream \in [Agents -> {"open", "ended", "failed"}]
  BY <1>2 DEF Init
<1>7. closedAt \in 0..Len(chat) /\ seen \in 0..Len(chat)
  BY <1>2 DEF Init
<1>8. completed \subseteq Agents /\ confidence \in 0..100
  BY DEF Init
<1>9. /\ logsSent \in BOOLEAN /\ diagnosisSent \in BOOLEAN
      /\ remediationSent \in BOOLEAN /\ awaitingApproval \in BOOLEAN /\ approved \in BOOLEAN
  BY Zenon DEF Init
<1>10. sendQueue \in Seq(Requests \cup {Close})
  BY <1>1 DEF Init
<1> QED
  BY <1>3, <1>4, <1>5, <1>6, <1>7, <1>8, <1>9, <1>10 DEF TypeInv, TypeOK

\* Every step keeps the types.
LEMMA TypesPreserved == TypeInv /\ [Next]_vars => TypeInv'
<1> SUFFICES ASSUME TypeInv, [Next]_vars
             PROVE  TypeInv'
  OBVIOUS
<1> USE DEF TypeInv
<1>1. CASE YieldRequest
  <2>1. Head(sendQueue) \in Requests
    BY <1>1 DEF YieldRequest, TypeOK
  <2>2. Said(Client, Client, Head(sendQueue), 0) \in SoundMessage
    BY <2>1 DEF Said, SoundMessage, Message, Texts, Requests
  <2>3. chat' \in Seq(SoundMessage) /\ chat' \in Seq(Message) /\ Len(chat') = Len(chat) + 1
    BY <1>1, <2>2 DEF YieldRequest, SoundMessage
  <2>4. sendQueue' \in Seq(Requests \cup {Close})
    BY <1>1 DEF YieldRequest, TypeOK
  <2> QED
    BY <1>1, <2>3, <2>4 DEF YieldRequest, TypeOK, agentVars, boundVars
<1>2. CASE RequestsEnd
  <2>1. sendQueue' \in Seq(Requests \cup {Close})
    BY <1>2 DEF RequestsEnd, TypeOK
  <2> QED
    BY <1>2, <2>1 DEF RequestsEnd, TypeOK, agentVars, boundVars
<1>3. ASSUME NEW i \in Unseen, ClientReads(i)
      PROVE  TypeInv'
  <2>1. i \in 0..Len(chat)
    BY DEF Unseen
  <2>2. sendQueue' \in Seq(Requests \cup {Close})
    <3> DEFINE Items == Requests \cup {Close}
               approval == IF Approves(chat[i]) THEN <<"APPROVED">> ELSE <<>>
               closing == IF chat[i].says = "EXECUTED" THEN <<Close>> ELSE <<>>
    <3>1. "APPROVED" \in Items /\ Close \in Items
      BY DEF Requests
    <3> HIDE DEF Items
    <3>2. approval \in Seq(Items) /\ closing \in Seq(Items)
      BY <3>1
    <3>3. sendQueue \in Seq(Items)
      BY DEF TypeOK, Items
    <3> HIDE DEF approval, closing
    <3>4. sendQueue \o approval \o closing \in Seq(Items)
      BY <3>2, <3>3
    <3> QED
      BY <1>3, <3>4 DEF ClientReads, Items, approval, closing
  <2>3. approved' \in BOOLEAN
    BY <1>3 DEF ClientReads, TypeOK
  <2> QED
    BY <1>3, <2>1, <2>2, <2>3 DEF ClientReads, TypeOK, agentVars, boundVars, sessionVars
<1>4. ASSUME NEW a \in Agents, NEW i \in Awaiting(a), Hear(a, i)
      PROVE  TypeInv'
  <2>1. i \in DOMAIN chat /\ i \in 0..Len(chat)
    BY DEF Awaiting, Audible, TypeOK
  <2>2. chat[i] \in SoundMessage /\ <<>> \in Seq(SoundMessage)
    BY <2>1
  <2>3. Handles(a, chat[i], <<>>)
    BY <1>4 DEF Hear
  <2>4. /\ outbox' \in [Agents -> Seq(SoundMessage)]
        /\ confidence' \in 0..100
        /\ logsSent' \in BOOLEAN /\ diagnosisSent' \in BOOLEAN
        /\ remediationSent' \in BOOLEAN /\ awaitingApproval' \in BOOLEAN
    BY <2>2, <2>3, HandlesTypes
  <2>5. outbox' \in [Agents -> Seq(Message)]
    BY <2>4 DEF SoundMessage
  <2> QED
    BY <1>4, <2>1, <2>4, <2>5 DEF Hear, TypeOK, sessionVars, clientVars, boundVars
<1>5. ASSUME NEW a \in Agents, ShutDown(a)
      PROVE  TypeInv'
  BY <1>5 DEF ShutDown, Finally, TypeOK, agentVars, clientVars, boundVars
<1>6. ASSUME NEW a \in Agents, Relay(a)
      PROVE  TypeInv'
  <2>1. Head(outbox[a]) \in SoundMessage /\ Tail(outbox[a]) \in Seq(SoundMessage)
    BY <1>6 DEF Relay
  <2>2. chat' \in Seq(SoundMessage) /\ Len(chat') = Len(chat) + 1
    BY <1>6, <2>1 DEF Relay
  <2>3. outbox' \in [Agents -> Seq(SoundMessage)]
    BY <1>6, <2>1 DEF Relay
  <2>4. chat' \in Seq(Message) /\ outbox' \in [Agents -> Seq(Message)]
    BY <2>2, <2>3 DEF SoundMessage
  <2> QED
    BY <1>6, <2>2, <2>3, <2>4 DEF Relay, TypeOK, agentVars, clientVars, boundVars
<1>7. ASSUME NEW a \in Agents, StreamFails(a)
      PROVE  TypeInv'
  <2>1. outbox' \in [Agents -> Seq(SoundMessage)] /\ outbox' \in [Agents -> Seq(Message)]
    BY <1>7 DEF StreamFails, TypeOK
  <2>2. failures' \in 0..MaxFailures
    BY <1>7, BoundsAssumption DEF StreamFails, TypeOK
  <2> QED
    BY <1>7, <2>1, <2>2 DEF StreamFails, TypeOK, sessionVars, agentVars, clientVars
<1>8. ASSUME NEW a \in OutOfBandTo, NEW says \in OutOfBandSays, OutOfBandMessage(a, says)
      PROVE  TypeInv'
  <2> DEFINE m == Said(a, OutOfBand, says, 0)
  <2>1. a \in Agents
    BY OutOfBandAssumption
  <2>2. m \in SoundMessage
    BY <2>1, OutOfBandAssumption DEF Said, SoundMessage, Message, Texts
  <2>3. <<m>> \in Seq(SoundMessage)
    BY <2>2
  <2>4. Handles(a, m, <<m>>)
    BY <1>8 DEF OutOfBandMessage
  <2>5. /\ outbox' \in [Agents -> Seq(SoundMessage)]
        /\ confidence' \in 0..100
        /\ logsSent' \in BOOLEAN /\ diagnosisSent' \in BOOLEAN
        /\ remediationSent' \in BOOLEAN /\ awaitingApproval' \in BOOLEAN
    BY <2>1, <2>2, <2>3, <2>4, HandlesTypes
  <2>6. outbox' \in [Agents -> Seq(Message)]
    BY <2>5 DEF SoundMessage
  <2>7. outOfBand' \in 0..MaxOutOfBand
    BY <1>8, BoundsAssumption DEF OutOfBandMessage, TypeOK
  <2> QED
    BY <1>8, <2>5, <2>6, <2>7 DEF OutOfBandMessage, TypeOK, sessionVars, clientVars
<1>9. CASE UNCHANGED vars
  BY <1>9 DEF TypeOK, vars, sessionVars, agentVars, clientVars, boundVars
<1> QED
  BY <1>1, <1>2, <1>3, <1>4, <1>5, <1>6, <1>7, <1>8, <1>9
  DEF Next, ClientRuns, AgentRuns

\* So every reachable state has them.
LEMMA TypesInvariant == Spec => []TypeInv
BY TypesHoldInitially, TypesPreserved, PTL DEF Spec

\* The state keeps its types, the confidence its range, and every position
\* points into the session.
THEOREM Typing == Spec => []TypeOK
<1>1. TypeInv => TypeOK
  BY DEF TypeInv
<1> QED
  BY <1>1, TypesInvariant, PTL

\* Every diagnosis that joins the session is one the remediation agent acts on,
\* whatever the evidence was.
THEOREM DiagnosesAreActedOn == Spec => []ThresholdsAgree
<1>1. TypeInv => ThresholdsAgree
  BY DEF TypeInv, ThresholdsAgree, SoundMessage
<1> QED
  BY <1>1, TypesInvariant, PTL
-----------------------------------------------------------------------------
(* The order of the incident                                               *)

Heard(says) == \E j \in DOMAIN chat : chat[j].says = says

\* What an agent has enqueued and nobody has read yet: who causes it was heard,
\* or lies in front of it.
Caused(a, k) ==
    /\ outbox[a][k].from # Client
    /\ outbox[a][k].says = "PLAN" => Heard("DIAGNOSIS")
    /\ outbox[a][k].says = "EXECUTED" =>
          \/ Heard("APPROVED")
          \/ \E l \in 1..(k - 1) : outbox[a][l].says = "APPROVED"

\* CausalChain, and what makes its next links true: the causes of everything that
\* is enqueued or will be yielded.
ChainInv ==
    /\ CausalChain
    /\ \A a \in Agents : \A k \in DOMAIN outbox[a] : Caused(a, k)
    /\ \A k \in DOMAIN sendQueue :
          /\ sendQueue[k] = "APPROVED" => Heard("PLAN")
          /\ sendQueue[k] = Close => Heard("EXECUTED")

\* Nothing was said at first, so nothing lacks a cause.
LEMMA ChainHoldsInitially == Init => ChainInv
<1> SUFFICES ASSUME Init
             PROVE  ChainInv
  OBVIOUS
<1>1. CausalChain
  BY DEF Init, CausalChain
<1>2. \A a \in Agents : DOMAIN outbox[a] = {}
  BY DEF Init
<1>3. \A k \in DOMAIN sendQueue : sendQueue[k] = "ANOMALY"
  BY DEF Init
<1> QED
  BY <1>1, <1>2, <1>3 DEF ChainInv, Close

\* A contribution that joins the session takes no cause away.
LEMMA ChatGrows ==
    ASSUME TypeInv, NEW m, chat' = Append(chat, m)
    PROVE  /\ \A says : Heard(says) => Heard(says)'
           /\ Heard(m.says)'
           /\ \A i \in DOMAIN chat : \A says : SaidBefore(i, says) => SaidBefore(i, says)'
<1>1. /\ DOMAIN chat = 1..Len(chat) /\ Len(chat) \in Nat
      /\ DOMAIN chat' = 1..(Len(chat) + 1)
      /\ \A j \in 1..Len(chat) : chat'[j] = chat[j]
      /\ chat'[Len(chat) + 1] = m
  BY DEF TypeInv
<1> HIDE DEF TypeInv
<1> QED
  BY <1>1 DEF Heard, SaidBefore

\* The chain goes on when the new contribution has its cause before it.
LEMMA ChainGrows ==
    ASSUME TypeInv, CausalChain, NEW m, chat' = Append(chat, m), closedAt' = closedAt,
           m.says = "PLAN" => Heard("DIAGNOSIS"),
           m.says = "APPROVED" /\ m.from = Client => Heard("PLAN"),
           m.says = "EXECUTED" => Heard("APPROVED")
    PROVE  CausalChain'
<1>1. /\ DOMAIN chat = 1..Len(chat) /\ Len(chat) \in Nat
      /\ DOMAIN chat' = 1..(Len(chat) + 1)
      /\ \A j \in 1..Len(chat) : chat'[j] = chat[j]
      /\ chat'[Len(chat) + 1] = m
  BY DEF TypeInv
<1>2. \A i : i = Len(chat) + 1 => \A says : Heard(says) => SaidBefore(i, says)'
  BY <1>1 DEF Heard, SaidBefore
<1>3. \A i \in 1..Len(chat) : \A says : SaidBefore(i, says) => SaidBefore(i, says)'
  BY <1>1 DEF SaidBefore
<1>4. ASSUME NEW i \in DOMAIN chat'
      PROVE  /\ chat'[i].says = "PLAN"     => SaidBefore(i, "DIAGNOSIS")'
             /\ chat'[i].says = "APPROVED" /\ chat'[i].from = Client => SaidBefore(i, "PLAN")'
             /\ chat'[i].says = "EXECUTED" => SaidBefore(i, "APPROVED")'
  <2>1. CASE i = Len(chat) + 1
    BY <1>1, <1>2, <2>1
  <2>2. CASE i \in 1..Len(chat)
    BY <1>1, <1>3, <2>2 DEF CausalChain
  <2> QED
    BY <1>1, <2>1, <2>2
<1>5. closedAt' # 0 => SaidBefore(closedAt + 1, "EXECUTED")'
  <2>1. closedAt \in 0..Len(chat)
    BY DEF TypeInv, TypeOK
  <2> QED
    BY <1>1, <2>1 DEF CausalChain, SaidBefore
<1> QED
  BY <1>4, <1>5 DEF CausalChain

\* Whatever an executor enqueues in answer to a message, the message was heard in
\* the session, or lies in front of the answer in its own stream.
LEMMA HandlesCaused ==
    ASSUME TypeInv, ChainInv, NEW a \in Agents, NEW m \in SoundMessage,
           NEW first \in Seq(SoundMessage), Handles(a, m, first), UNCHANGED chat,
           \/ first = <<>> /\ Heard(m.says)
           \/ first = <<m>> /\ m.from = OutOfBand /\ m.says \in {"ANOMALY", "APPROVED"}
    PROVE  \A b \in Agents : \A k \in DOMAIN outbox'[b] : Caused(b, k)'
<1>1. \A says : Heard(says)' <=> Heard(says)
  BY DEF Heard
<1>2. PICK new \in Seq(SoundMessage) :
         /\ Emits(a, first, new)
         /\ \A k \in DOMAIN new :
               /\ new[k].from = a
               /\ new[k].says = "PLAN" => m.says = "DIAGNOSIS"
               /\ new[k].says = "EXECUTED" => m.says = "APPROVED"
  <2> DEFINE Fits(new) ==
                /\ new \in Seq(SoundMessage)
                /\ Emits(a, first, new)
                /\ \A k \in DOMAIN new :
                      /\ new[k].from = a
                      /\ new[k].says = "PLAN" => m.says = "DIAGNOSIS"
                      /\ new[k].says = "EXECUTED" => m.says = "APPROVED"
  <2> SUFFICES \E new : Fits(new)
    OBVIOUS
  <2>1. ASSUME Emits(a, first, <<>>)
        PROVE  Fits(<<>>)
    BY <2>1
  <2>2. ASSUME NEW says \in Texts, NEW n \in 0..10, Emits(a, first, <<Said(a, a, says, n)>>),
               Said(a, a, says, n) \in SoundMessage,
               says = "PLAN" => m.says = "DIAGNOSIS",
               says = "EXECUTED" => m.says = "APPROVED"
        PROVE  Fits(<<Said(a, a, says, n)>>)
    BY <2>2 DEF Said
  <2>3. CASE a = Monitoring /\ MonitoringHandles(m, first)
    <3>1. Said(a, a, "METRICS", 0) \in SoundMessage
      BY DEF Said, SoundMessage, Message, Texts
    <3>2. Emits(a, first, <<>>) \/ Emits(a, first, <<Said(a, a, "METRICS", 0)>>)
      BY <2>3 DEF MonitoringHandles
    <3> HIDE DEF Fits
    <3> QED
      BY <2>1, <2>2, <3>1, <3>2 DEF Texts
  <2>4. CASE a = Log /\ LogHandles(m, first)
    <3> DEFINE lines == [n \in 1..LogLines |-> Said(Log, Log, "LOG", n)]
    <3>1. LogLines \in 0..5
      BY BoundsAssumption
    <3>2. \A n \in 1..LogLines : Said(Log, Log, "LOG", n) \in SoundMessage
      BY <3>1 DEF Said, SoundMessage, Message, Texts, Agents
    <3>3. lines \in Seq(SoundMessage)
      BY <3>1, <3>2
    <3>4. \A k \in DOMAIN lines : lines[k].from = a /\ lines[k].says = "LOG"
      BY <2>4 DEF Said
    <3>5. ASSUME Emits(a, first, lines)
          PROVE  Fits(lines)
      BY <3>3, <3>4, <3>5
    <3>6. Emits(a, first, <<>>) \/ Emits(a, first, lines)
      BY <2>4 DEF LogHandles
    <3> HIDE DEF Fits
    <3> QED
      BY <2>1, <3>5, <3>6
  <2>5. CASE a = Diagnostics /\ DiagnosticsHandles(m, first)
    <3>1. CASE Diagnoses(m)
      <4>1. Confidence(m) \in 0..100
        BY ConfidenceType DEF TypeInv, TypeOK
      <4>2. PICK n : n = Printed(Confidence(m))
        OBVIOUS
      <4>3. n \in 0..10 /\ n >= MinConfidence
        BY <3>1, <4>1, <4>2, PrintedConfidence DEF Diagnoses
      <4>4. Said(a, a, "DIAGNOSIS", n) \in SoundMessage
        BY <4>3 DEF Said, SoundMessage, Message, Texts
      <4>5. Emits(a, first, <<Said(a, a, "DIAGNOSIS", n)>>)
        BY <2>5, <3>1, <4>2 DEF DiagnosticsHandles
      <4> HIDE DEF Fits
      <4> QED
        BY <2>2, <4>3, <4>4, <4>5 DEF Texts
    <3>2. CASE ~Diagnoses(m)
      <4>1. Emits(a, first, <<>>)
        BY <2>5, <3>2 DEF DiagnosticsHandles
      <4> HIDE DEF Fits
      <4> QED
        BY <2>1, <4>1
    <3> QED
      BY <3>1, <3>2
  <2>6. CASE a = Remediation /\ RemediationHandles(m, first)
    <3>1. \A says \in {"PLAN", "EXECUTED"} : Said(a, a, says, 0) \in SoundMessage
      BY DEF Said, SoundMessage, Message, Texts
    <3>2. \/ Emits(a, first, <<>>)
          \/ Proposes(m) /\ Emits(a, first, <<Said(a, a, "PLAN", 0)>>)
          \/ Executes(m) /\ Emits(a, first, <<Said(a, a, "EXECUTED", 0)>>)
      BY <2>6, Zenon DEF RemediationHandles
    <3>3. /\ Proposes(m) => m.says = "DIAGNOSIS"
          /\ Executes(m) => m.says = "APPROVED"
      BY DEF Proposes, Executes
    <3> HIDE DEF Fits
    <3> QED
      BY <2>1, <2>2, <3>1, <3>2, <3>3 DEF Texts
  <2> QED
    BY <2>3, <2>4, <2>5, <2>6 DEF Handles
<1>3. /\ outbox[a] \in Seq(SoundMessage)
      /\ outbox' = [outbox EXCEPT ![a] = (outbox[a] \o first) \o new]
  BY <1>2 DEF TypeInv, Emits
<1>4. ASSUME NEW k \in DOMAIN outbox'[a]
      PROVE  Caused(a, k)'
  <2> DEFINE o == outbox[a]
             o2 == outbox'[a]
  <2>1. /\ o2 = (o \o first) \o new
        /\ Len(o) \in Nat /\ Len(first) \in Nat /\ Len(new) \in Nat
    BY <1>3 DEF TypeInv
  <2>2. /\ DOMAIN o = 1..Len(o)
        /\ DOMAIN o2 = 1..(Len(o) + Len(first) + Len(new))
        /\ \A i \in 1..Len(o) : o2[i] = o[i]
        /\ \A i \in 1..Len(first) : o2[Len(o) + i] = first[i]
        /\ \A i \in 1..Len(new) : o2[Len(o) + Len(first) + i] = new[i]
    BY <1>3, <2>1
  <2>3. CASE k \in 1..Len(o)
    <3>1. Caused(a, k) /\ o2[k] = o[k]
      BY <2>2, <2>3 DEF ChainInv
    <3>2. \A l \in 1..(k - 1) : o2[l] = o[l]
      BY <2>1, <2>2, <2>3
    <3> QED
      BY <1>1, <3>1, <3>2 DEF Caused
  <2>4. CASE \E i \in 1..Len(first) : k = Len(o) + i
    <3>1. o2[k] = m /\ m.from = OutOfBand /\ m.says \in {"ANOMALY", "APPROVED"}
      BY <2>2, <2>4
    <3> QED
      BY <3>1 DEF Caused, OutOfBand, Client
  <2>5. CASE \E i \in 1..Len(new) : k = Len(o) + Len(first) + i
    <3>1. /\ o2[k].from = a
          /\ o2[k].says = "PLAN" => m.says = "DIAGNOSIS"
          /\ o2[k].says = "EXECUTED" => m.says = "APPROVED"
      BY <1>2, <2>2, <2>5
    <3>2. a # Client
      BY DEF Agents, Monitoring, Log, Diagnostics, Remediation, Client
    <3>3. CASE first = <<>> /\ Heard(m.says)
      BY <1>1, <3>1, <3>2, <3>3 DEF Caused
    <3>4. CASE first = <<m>> /\ m.from = OutOfBand /\ m.says \in {"ANOMALY", "APPROVED"}
      <4>1. Len(first) = 1 /\ first[1] = m
        BY <3>4
      <4>2. Len(o) + 1 \in 1..(k - 1) /\ o2[Len(o) + 1] = m
        BY <2>1, <2>2, <2>5, <4>1
      <4> QED
        BY <3>1, <3>2, <3>4, <4>2 DEF Caused
    <3> QED
      BY <3>3, <3>4
  <2>6. \/ k \in 1..Len(o)
        \/ \E i \in 1..Len(first) : k = Len(o) + i
        \/ \E i \in 1..Len(new) : k = Len(o) + Len(first) + i
    <3> HIDE DEF o, o2
    <3>1. k \in 1..(Len(o) + Len(first) + Len(new))
      BY <2>2 DEF o2
    <3>2. CASE k > Len(o) /\ k <= Len(o) + Len(first)
      <4>1. k - Len(o) \in 1..Len(first) /\ k = Len(o) + (k - Len(o))
        BY <2>1, <3>1, <3>2
      <4> QED
        BY <4>1
    <3>3. CASE k > Len(o) + Len(first)
      <4>1. /\ k - (Len(o) + Len(first)) \in 1..Len(new)
            /\ k = Len(o) + Len(first) + (k - (Len(o) + Len(first)))
        BY <2>1, <3>1, <3>3
      <4> QED
        BY <4>1
    <3> QED
      BY <2>1, <3>1, <3>2, <3>3
  <2> QED
    BY <2>3, <2>4, <2>5, <2>6
<1>5. ASSUME NEW b \in Agents, b # a, NEW k \in DOMAIN outbox'[b]
      PROVE  Caused(b, k)'
  <2>1. outbox'[b] = outbox[b]
    BY <1>3, <1>5 DEF TypeInv
  <2> QED
    BY <1>1, <1>5, <2>1 DEF ChainInv, Caused
<1> QED
  BY <1>4, <1>5

\* A step that leaves the session and the client's queue alone, and whose streams
\* hold what has a cause, keeps the chain.
LEMMA ChainKept ==
    ASSUME ChainInv, UNCHANGED <<chat, closedAt, sendQueue>>,
           \A b \in Agents : \A k \in DOMAIN outbox'[b] : Caused(b, k)'
    PROVE  ChainInv'
<1>1. \A says : Heard(says)' <=> Heard(says)
  BY DEF Heard
<1>2. CausalChain'
  BY DEF ChainInv, CausalChain, SaidBefore
<1> QED
  BY <1>1, <1>2 DEF ChainInv

\* Every step keeps the chain.
LEMMA ChainPreserved == TypeInv /\ ChainInv /\ [Next]_vars => ChainInv'
<1> SUFFICES ASSUME TypeInv, ChainInv, [Next]_vars
             PROVE  ChainInv'
  OBVIOUS
<1>1. CASE YieldRequest
  <2>1. PICK m : m = Said(Client, Client, Head(sendQueue), 0)
    OBVIOUS
  <2>2. /\ sendQueue # <<>> /\ sendQueue \in Seq(Requests \cup {Close})
        /\ chat' = Append(chat, m) /\ closedAt' = closedAt
        /\ sendQueue' = Tail(sendQueue) /\ outbox' = outbox
    BY <1>1, <2>1 DEF YieldRequest, TypeInv, TypeOK
  <2>3. m.says = sendQueue[1] /\ m.says \in Requests /\ 1 \in DOMAIN sendQueue
    BY <1>1, <2>1, <2>2 DEF YieldRequest, Said
  <2>4. m.says = "APPROVED" => Heard("PLAN")
    BY <2>2, <2>3 DEF ChainInv
  <2>5. CausalChain'
    BY <2>2, <2>3, <2>4, ChainGrows DEF ChainInv, Requests
  <2>6. \A says : Heard(says) => Heard(says)'
    BY <2>2, ChatGrows
  <2>7. \A k \in DOMAIN sendQueue' : k + 1 \in DOMAIN sendQueue /\ sendQueue'[k] = sendQueue[k + 1]
    BY <2>2
  <2> QED
    BY <2>2, <2>5, <2>6, <2>7 DEF ChainInv, Caused
<1>2. CASE RequestsEnd
  <2>1. /\ sendQueue # <<>> /\ sendQueue \in Seq(Requests \cup {Close})
        /\ sendQueue[1] = Close
        /\ UNCHANGED <<chat, outbox>> /\ closedAt' = Len(chat)
        /\ sendQueue' = Tail(sendQueue)
    BY <1>2 DEF RequestsEnd, TypeInv, TypeOK
  <2>2. \A says : Heard(says)' <=> Heard(says)
    BY <2>1 DEF Heard
  <2>3. Heard("EXECUTED")
    BY <2>1 DEF ChainInv
  <2>4. CausalChain'
    <3>1. Len(chat) \in Nat /\ DOMAIN chat = 1..Len(chat)
      BY DEF TypeInv
    <3>2. SaidBefore(closedAt + 1, "EXECUTED")'
      BY <2>1, <2>3, <3>1 DEF Heard, SaidBefore
    <3> QED
      BY <2>1, <3>2 DEF ChainInv, CausalChain, SaidBefore
  <2>5. \A k \in DOMAIN sendQueue' : k + 1 \in DOMAIN sendQueue /\ sendQueue'[k] = sendQueue[k + 1]
    BY <2>1
  <2> QED
    BY <2>1, <2>2, <2>4, <2>5 DEF ChainInv, Caused
<1>3. ASSUME NEW i \in Unseen, ClientReads(i)
      PROVE  ChainInv'
  <2> DEFINE approval == IF Approves(chat[i]) THEN <<"APPROVED">> ELSE <<>>
             closing == IF chat[i].says = "EXECUTED" THEN <<Close>> ELSE <<>>
  <2>1. /\ UNCHANGED <<chat, closedAt, outbox>>
        /\ sendQueue' = sendQueue \o approval \o closing
    BY <1>3 DEF ClientReads, sessionVars
  <2>2. \A says : Heard(says)' <=> Heard(says)
    BY <2>1 DEF Heard
  <2>3. \A k \in DOMAIN approval : approval[k] = "APPROVED" /\ Heard("PLAN")
    BY DEF Approves, Heard, Unseen
  <2>4. \A k \in DOMAIN closing : closing[k] = Close /\ Heard("EXECUTED")
    BY DEF Heard, Unseen
  <2>5. \A k \in DOMAIN sendQueue' :
           \/ k \in DOMAIN sendQueue /\ sendQueue'[k] = sendQueue[k]
           \/ \E l \in DOMAIN approval : sendQueue'[k] = approval[l]
           \/ \E l \in DOMAIN closing : sendQueue'[k] = closing[l]
    <3> DEFINE Items == Requests \cup {Close}
    <3>1. "APPROVED" \in Items /\ Close \in Items
      BY DEF Requests
    <3>2. sendQueue \in Seq(Items)
      BY DEF TypeInv, TypeOK
    <3> HIDE DEF Items
    <3>3. approval \in Seq(Items) /\ closing \in Seq(Items)
      BY <3>1
    <3> HIDE DEF approval, closing
    <3> QED
      BY <2>1, <3>2, <3>3
  <2>6. "APPROVED" # Close
    BY DEF Close
  <2>7. \A k \in DOMAIN sendQueue' :
           /\ sendQueue'[k] = "APPROVED" => Heard("PLAN")
           /\ sendQueue'[k] = Close => Heard("EXECUTED")
    <3> HIDE DEF approval, closing
    <3> QED
      BY <2>3, <2>4, <2>5, <2>6 DEF ChainInv
  <2>8. CausalChain'
    BY <2>1 DEF ChainInv, CausalChain, SaidBefore
  <2> QED
    BY <2>1, <2>2, <2>7, <2>8 DEF ChainInv, Caused
<1>4. ASSUME NEW a \in Agents, NEW i \in Awaiting(a), Hear(a, i)
      PROVE  ChainInv'
  <2>1. PICK m : m = chat[i]
    OBVIOUS
  <2>2. i \in DOMAIN chat
    BY DEF Awaiting, Audible, TypeInv, TypeOK
  <2>3. m \in SoundMessage /\ Heard(m.says)
    BY <2>1, <2>2 DEF TypeInv, Heard
  <2>4. Handles(a, m, <<>>) /\ UNCHANGED <<chat, closedAt, sendQueue>>
    BY <1>4, <2>1 DEF Hear, sessionVars, clientVars
  <2>5. <<>> \in Seq(SoundMessage)
    OBVIOUS
  <2> QED
    BY <2>3, <2>4, <2>5, HandlesCaused, ChainKept
<1>5. ASSUME NEW a \in Agents, ShutDown(a)
      PROVE  ChainInv'
  BY <1>5, ChainKept DEF ShutDown, clientVars, ChainInv, Caused, Heard
<1>6. ASSUME NEW a \in Agents, Relay(a)
      PROVE  ChainInv'
  <2>1. PICK m : m = Head(outbox[a])
    OBVIOUS
  <2>2. /\ outbox[a] \in Seq(SoundMessage) /\ outbox[a] # <<>>
        /\ chat' = Append(chat, m) /\ closedAt' = closedAt /\ sendQueue' = sendQueue
        /\ outbox' = [outbox EXCEPT ![a] = Tail(outbox[a])]
    BY <1>6, <2>1 DEF Relay, TypeInv, clientVars
  <2>3. m = outbox[a][1] /\ 1 \in DOMAIN outbox[a]
    BY <2>1, <2>2
  <2>4. /\ m.from # Client
        /\ m.says = "PLAN" => Heard("DIAGNOSIS")
        /\ m.says = "EXECUTED" => Heard("APPROVED")
    BY <2>3 DEF ChainInv, Caused
  <2>5. CausalChain'
    BY <2>2, <2>4, ChainGrows DEF ChainInv
  <2>6. /\ \A says : Heard(says) => Heard(says)'
        /\ Heard(m.says)'
    BY <2>2, ChatGrows
  <2>7. ASSUME NEW k \in DOMAIN outbox'[a]
        PROVE  Caused(a, k)'
    <3>1. /\ outbox'[a] = Tail(outbox[a])
          /\ k \in Nat /\ k >= 1 /\ k + 1 \in DOMAIN outbox[a]
          /\ \A l \in 1..k : outbox'[a][l] = outbox[a][l + 1]
      BY <2>2 DEF TypeInv
    <3>2. Caused(a, k + 1) /\ outbox'[a][k] = outbox[a][k + 1]
      BY <3>1 DEF ChainInv
    <3>3. ASSUME NEW l \in 1..k, outbox[a][l].says = "APPROVED"
          PROVE  Heard("APPROVED")' \/ \E j \in 1..(k - 1) : outbox'[a][j].says = "APPROVED"
      <4>1. CASE l = 1
        BY <2>3, <2>6, <3>3, <4>1
      <4>2. CASE l # 1
        <5>1. l - 1 \in 1..(k - 1) /\ outbox'[a][l - 1] = outbox[a][l]
          BY <3>1, <4>2
        <5> QED
          BY <3>3, <5>1
      <4> QED
        BY <4>1, <4>2
    <3>4. (k + 1) - 1 = k
      BY <3>1
    <3> QED
      BY <2>6, <3>2, <3>3, <3>4 DEF Caused
  <2>8. ASSUME NEW b \in Agents, b # a, NEW k \in DOMAIN outbox'[b]
        PROVE  Caused(b, k)'
    <3>1. outbox'[b] = outbox[b]
      BY <2>2, <2>8 DEF TypeInv
    <3> QED
      BY <2>6, <2>8, <3>1 DEF ChainInv, Caused
  <2> QED
    BY <2>2, <2>5, <2>6, <2>7, <2>8 DEF ChainInv
<1>7. ASSUME NEW a \in Agents, StreamFails(a)
      PROVE  ChainInv'
  <2>1. UNCHANGED <<chat, closedAt, sendQueue>> /\ outbox' = [outbox EXCEPT ![a] = <<>>]
    BY <1>7 DEF StreamFails, sessionVars, clientVars
  <2>2. ASSUME NEW b \in Agents, NEW k \in DOMAIN outbox'[b]
        PROVE  Caused(b, k)'
    <3>1. outbox'[b] = outbox[b]
      BY <2>1, <2>2 DEF TypeInv
    <3> QED
      BY <2>1, <2>2, <3>1 DEF ChainInv, Caused, Heard
  <2> QED
    BY <2>1, <2>2, ChainKept
<1>8. ASSUME NEW a \in OutOfBandTo, NEW says \in OutOfBandSays, OutOfBandMessage(a, says)
      PROVE  ChainInv'
  <2> DEFINE m == Said(a, OutOfBand, says, 0)
  <2>1. a \in Agents /\ says \in {"ANOMALY", "APPROVED"}
    BY OutOfBandAssumption
  <2>2. m \in SoundMessage /\ m.from = OutOfBand /\ m.says \in {"ANOMALY", "APPROVED"}
    BY <2>1 DEF Said, SoundMessage, Message, Texts
  <2>3. <<m>> \in Seq(SoundMessage)
    BY <2>2
  <2>4. Handles(a, m, <<m>>) /\ UNCHANGED <<chat, closedAt, sendQueue>>
    BY <1>8 DEF OutOfBandMessage, sessionVars, clientVars
  <2> HIDE DEF m
  <2> QED
    BY <2>1, <2>2, <2>3, <2>4, HandlesCaused, ChainKept
<1>9. CASE UNCHANGED vars
  BY <1>9, ChainKept DEF vars, sessionVars, clientVars, ChainInv, Caused, Heard
<1> QED
  BY <1>1, <1>2, <1>3, <1>4, <1>5, <1>6, <1>7, <1>8, <1>9
  DEF Next, ClientRuns, AgentRuns

\* Diagnosis, plan, approval, execution and close follow each other in this order,
\* whoever fails and whatever is said from outside.
THEOREM IncidentInOrder == Spec => []CausalChain
<1>1. ChainInv => CausalChain
  BY DEF ChainInv
<1> QED
  BY <1>1, TypesInvariant, ChainHoldsInitially, ChainPreserved, PTL DEF Spec
=============================================================================
