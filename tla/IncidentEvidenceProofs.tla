----------------------- MODULE IncidentEvidenceProofs -----------------------
(***************************************************************************)
(* What the executors of the incident-response session count and repeat,   *)
(* for any number of log lines, broken streams and messages from outside:  *)
(* a diagnosis rests on evidence that was given before it, and nothing but *)
(* metrics is said twice.                                                  *)
(***************************************************************************)
EXTENDS IncidentSessionProofs, RecursionLemmas

\* The messages that may have been made: the flag that their maker sets when it
\* makes them is set.
Recorded ==
    {x \in SoundMessage :
        /\ x.says = "LOG" => logsSent
        /\ x.says = "DIAGNOSIS" => diagnosisSent
        /\ x.says = "PLAN" => remediationSent
        /\ x.says = "EXECUTED" => remediationSent /\ ~awaitingApproval
        /\ x.by = Client /\ x.says = "APPROVED" => approved}

\* Message x is what a may answer to m: what was not done before, unless it is
\* metrics, and is done now.
Answers(a, m, x) ==
    /\ x.by = a
    /\ x.says = "DIAGNOSIS" => a = Diagnostics /\ Diagnoses(m)
    /\ x.says # "METRICS" => x \notin Recorded
    /\ x \in Recorded'

\* The elements of t are those of o, f and n, one sequence after the other.
Parts(t, o, f, n) ==
    \A k \in DOMAIN t :
        \/ k \in DOMAIN o /\ t[k] = o[k]
        \/ \E i \in DOMAIN f : k = Len(o) + i /\ t[k] = f[i]
        \/ \E i \in DOMAIN n : k = Len(o) + Len(f) + i /\ t[k] = n[i]

\* A sequence that was joined of three has their parts.
LEMMA JoinedThree ==
    ASSUME NEW S, NEW o \in Seq(S), NEW f \in Seq(S), NEW n \in Seq(S)
    PROVE  Parts((o \o f) \o n, o, f, n)
<1> DEFINE t == (o \o f) \o n
<1> SUFFICES ASSUME NEW k \in DOMAIN t
             PROVE  \/ k \in DOMAIN o /\ t[k] = o[k]
                    \/ \E i \in DOMAIN f : k = Len(o) + i /\ t[k] = f[i]
                    \/ \E i \in DOMAIN n : k = Len(o) + Len(f) + i /\ t[k] = n[i]
  BY DEF Parts
<1>1. /\ DOMAIN o = 1..Len(o) /\ DOMAIN f = 1..Len(f) /\ DOMAIN n = 1..Len(n)
      /\ Len(o) \in Nat /\ Len(f) \in Nat /\ Len(n) \in Nat
  OBVIOUS
<1>2. /\ DOMAIN t = 1..(Len(o) + Len(f) + Len(n))
      /\ \A i \in 1..Len(o) : t[i] = o[i]
      /\ \A i \in 1..Len(f) : t[Len(o) + i] = f[i]
      /\ \A i \in 1..Len(n) : t[Len(o) + Len(f) + i] = n[i]
  OBVIOUS
<1>3. k \in 1..(Len(o) + Len(f) + Len(n))
  BY <1>2
<1>4. CASE k <= Len(o)
  BY <1>1, <1>2, <1>3, <1>4
<1>5. CASE k > Len(o) /\ k <= Len(o) + Len(f)
  <2>1. k - Len(o) \in 1..Len(f) /\ k = Len(o) + (k - Len(o))
    BY <1>1, <1>3, <1>5
  <2> QED BY <1>1, <1>2, <2>1
<1>6. CASE k > Len(o) + Len(f)
  <2>1. k - (Len(o) + Len(f)) \in 1..Len(n) /\ k = Len(o) + Len(f) + (k - (Len(o) + Len(f)))
    BY <1>1, <1>3, <1>6
  <2> QED BY <1>1, <1>2, <2>1
<1> QED BY <1>1, <1>3, <1>4, <1>5, <1>6

\* An executor answers a message with what it has not said, says no two things
\* that are alike, and takes nothing back.
LEMMA HandlesAnswers ==
    ASSUME TypeInv, NEW a \in Agents, NEW m \in SoundMessage,
           NEW first \in Seq(SoundMessage), Handles(a, m, first), approved' = approved
    PROVE  /\ Recorded \subseteq Recorded'
           /\ \E new \in Seq(SoundMessage) :
                 /\ outbox' = [outbox EXCEPT ![a] = (outbox[a] \o first) \o new]
                 /\ \A k \in DOMAIN new : Answers(a, m, new[k])
                 /\ \A k, l \in DOMAIN new : Alike(new[k], new[l]) => k = l
<1> DEFINE Fits(new) == /\ new \in Seq(SoundMessage)
                        /\ Emits(a, first, new)
                        /\ \A k \in DOMAIN new : Answers(a, m, new[k])
                        /\ \A k, l \in DOMAIN new : Alike(new[k], new[l]) => k = l
           Kept == Recorded \subseteq Recorded'
<1>1. ASSUME Emits(a, first, <<>>) PROVE Fits(<<>>)
  BY <1>1
<1>2. ASSUME NEW x \in SoundMessage, Answers(a, m, x), Emits(a, first, <<x>>) PROVE Fits(<<x>>)
  BY <1>2
<1>3. CASE a = Monitoring /\ MonitoringHandles(m, first)
  <2> DEFINE x == Said(Monitoring, Monitoring, "METRICS", 0)
  <2>1. x \in SoundMessage
    BY DEF Said, SoundMessage, Message, Texts, Agents
  <2>2. Answers(a, m, x)
    <3>1. x.by = a /\ x.says = "METRICS" /\ a # Client
      BY <1>3 DEF Said, Monitoring, Client
    <3> HIDE DEF x
    <3> QED BY <2>1, <3>1 DEF Answers, Recorded
  <2>3. Emits(a, first, <<>>) \/ Emits(a, first, <<x>>)
    BY <1>3 DEF MonitoringHandles
  <2>4. Kept
    BY <1>3 DEF MonitoringHandles, agentVars, Recorded
  <2> HIDE DEF Fits, Kept, x
  <2> QED BY <1>1, <1>2, <2>1, <2>2, <2>3, <2>4 DEF Fits, Kept, Emits
<1>4. CASE a = Log /\ LogHandles(m, first)
  <2> DEFINE lines == [n \in 1..LogLines |-> Said(Log, Log, "LOG", n)]
  <2>1. LogLines \in 0..5
    BY BoundsAssumption
  <2>2. \A n \in 1..LogLines : Said(Log, Log, "LOG", n) \in SoundMessage
    BY <2>1 DEF Said, SoundMessage, Message, Texts, Agents
  <2>3. lines \in Seq(SoundMessage) /\ DOMAIN lines = 1..LogLines
    BY <2>1, <2>2
  <2>4. Kept
    BY <1>4 DEF LogHandles, Recorded, TypeInv, TypeOK
  <2>5. ASSUME Streams(m) PROVE Fits(lines)
    <3>1. ~logsSent /\ logsSent' /\ Emits(a, first, lines)
      BY <1>4, <2>5 DEF LogHandles, Streams
    <3>2. \A k \in DOMAIN lines : lines[k].by = a /\ lines[k].says = "LOG" /\ lines[k].n = k
      BY <1>4 DEF Said
    <3>3. \A k \in DOMAIN lines : Answers(a, m, lines[k])
      <4> SUFFICES ASSUME NEW k \in DOMAIN lines PROVE Answers(a, m, lines[k])
        OBVIOUS
      <4>1. PICK x : x = lines[k]
        OBVIOUS
      <4>2. x \in SoundMessage /\ x.by = a /\ x.says = "LOG" /\ a # Client
        BY <1>4, <2>2, <2>3, <3>2, <4>1 DEF Log, Client
      <4> QED BY <3>1, <4>1, <4>2 DEF Answers, Recorded
    <3>4. \A k, l \in DOMAIN lines : Alike(lines[k], lines[l]) => k = l
      BY <3>2 DEF Alike
    <3> QED BY <2>3, <3>1, <3>3, <3>4
  <2>6. Emits(a, first, <<>>) \/ Streams(m)
    BY <1>4 DEF LogHandles
  <2>7. \E new : Fits(new)
    <3> HIDE DEF Fits
    <3> QED BY <1>1, <2>5, <2>6
  <2> QED BY <2>4, <2>7 DEF Emits
<1>5. CASE a = Diagnostics /\ DiagnosticsHandles(m, first)
  <2> DEFINE x == Said(Diagnostics, Diagnostics, "DIAGNOSIS", Printed(Confidence(m)))
  <2>1. Kept
    BY <1>5 DEF DiagnosticsHandles, Recorded, TypeInv, TypeOK
  <2>2. ASSUME Diagnoses(m) PROVE Fits(<<x>>)
    <3>1. Confidence(m) \in 0..100
      BY ConfidenceType DEF TypeInv, TypeOK
    <3>2. PICK n : n = Printed(Confidence(m))
      OBVIOUS
    <3>3. n \in 0..10 /\ n >= MinConfidence
      BY <2>2, <3>1, <3>2, PrintedConfidence DEF Diagnoses
    <3>4. x = Said(Diagnostics, Diagnostics, "DIAGNOSIS", n)
      BY <3>2
    <3>5. x \in SoundMessage
      BY <3>3, <3>4 DEF Said, SoundMessage, Message, Texts, Agents
    <3>6. x.by = a /\ x.says = "DIAGNOSIS" /\ a # Client
      BY <1>5 DEF Said, Diagnostics, Client
    <3>7. ~diagnosisSent /\ diagnosisSent' /\ Emits(a, first, <<x>>)
      BY <1>5, <2>2 DEF DiagnosticsHandles, Diagnoses
    <3> HIDE DEF x
    <3>8. Answers(a, m, x)
      BY <1>5, <2>2, <3>5, <3>6, <3>7 DEF Answers, Recorded
    <3> HIDE DEF Fits
    <3> QED BY <1>2, <3>5, <3>7, <3>8
  <2>3. Emits(a, first, <<>>) \/ Diagnoses(m)
    BY <1>5 DEF DiagnosticsHandles
  <2>4. \E new : Fits(new)
    <3> HIDE DEF Fits
    <3> QED BY <1>1, <2>2, <2>3
  <2> QED BY <2>1, <2>4 DEF Emits
<1>6. CASE a = Remediation /\ RemediationHandles(m, first)
  <2>1. /\ remediationSent' = (remediationSent \/ Proposes(m))
        /\ awaitingApproval' = (Proposes(m) \/ (awaitingApproval /\ ~Executes(m)))
        /\ UNCHANGED <<logsSent, diagnosisSent>>
    BY <1>6 DEF RemediationHandles
  <2>2. /\ Proposes(m) => ~remediationSent
        /\ Executes(m) => remediationSent /\ awaitingApproval
    BY DEF Proposes, Executes
  <2>3. Kept
    BY <2>1, <2>2, Zenon DEF Recorded
  <2>4. \/ Emits(a, first, <<>>)
        \/ Proposes(m) /\ Emits(a, first, <<Said(a, a, "PLAN", 0)>>)
        \/ Executes(m) /\ Emits(a, first, <<Said(a, a, "EXECUTED", 0)>>)
    BY <1>6, Zenon DEF RemediationHandles
  <2>5. \A says \in {"PLAN", "EXECUTED"} :
            /\ Said(a, a, says, 0) \in SoundMessage
            /\ Said(a, a, says, 0).by = a /\ Said(a, a, says, 0).says = says
    BY DEF Said, SoundMessage, Message, Texts
  <2>6. Proposes(m) => Answers(a, m, Said(a, a, "PLAN", 0))
    <3>1. PICK x : x = Said(a, a, "PLAN", 0)
      OBVIOUS
    <3>2. x \in SoundMessage /\ x.by = a /\ x.says = "PLAN" /\ a # Client
      BY <2>5, <3>1 DEF Agents, Client, Monitoring, Log, Diagnostics, Remediation
    <3>3. Proposes(m) => remediationSent' /\ ~remediationSent
      BY <2>1, <2>2, Zenon
    <3> QED BY <3>1, <3>2, <3>3 DEF Answers, Recorded
  <2>7. Executes(m) => Answers(a, m, Said(a, a, "EXECUTED", 0))
    <3>1. PICK x : x = Said(a, a, "EXECUTED", 0)
      OBVIOUS
    <3>2. x \in SoundMessage /\ x.by = a /\ x.says = "EXECUTED" /\ a # Client
      BY <2>5, <3>1 DEF Agents, Client, Monitoring, Log, Diagnostics, Remediation
    <3>3. Executes(m) => remediationSent' /\ ~awaitingApproval' /\ awaitingApproval
      BY <2>1, <2>2, Zenon
    <3> QED BY <3>1, <3>2, <3>3 DEF Answers, Recorded
  <2>8. \E new : Fits(new)
    <3> HIDE DEF Fits
    <3> QED BY <1>1, <1>2, <2>4, <2>5, <2>6, <2>7
  <2> QED BY <2>3, <2>8 DEF Emits
<1> QED BY <1>3, <1>4, <1>5, <1>6 DEF Handles

-----------------------------------------------------------------------------
(* Nothing is said twice                                                   *)

Special(x) == x.says # "METRICS" /\ x.from # OutOfBand

\* What is in a stream is the agent's own, and neither said yet nor said
\* earlier in the stream, whatever else it shows.
Unsaid(a, k) ==
    /\ outbox[a][k].by = a /\ outbox[a][k] \in Recorded
    /\ Special(outbox[a][k]) =>
          /\ \A i \in DOMAIN chat : ~Alike(chat[i], outbox[a][k])
          /\ \A l \in 1..(k - 1) : ~Alike(outbox[a][l], outbox[a][k])

\* What the client will yield it has not said, will yield once, and has
\* approved if it is the approval.
Unyielded(k) ==
    sendQueue[k] \in Requests =>
        /\ \A i \in DOMAIN chat : chat[i].by = Client => chat[i].says # sendQueue[k]
        /\ \A l \in 1..(k - 1) : sendQueue[l] # sendQueue[k]
        /\ sendQueue[k] = "APPROVED" => approved

(***************************************************************************)
(* SaidOnce is not inductive by itself.  A message is new in the session   *)
(* because it was new in the stream or queue that it comes from, and it    *)
(* was new there because of the flag that its maker sets: all that was     *)
(* made is on record, so what is not on record is nowhere.                 *)
(***************************************************************************)
OnceInv ==
    /\ SaidOnce
    /\ \A i \in DOMAIN chat : chat[i] \in Recorded
    /\ \A a \in Agents : \A k \in DOMAIN outbox[a] : Unsaid(a, k)
    /\ \A k \in DOMAIN sendQueue : Unyielded(k)

\* What announces the same as a message on record is on record.
LEMMA RecordedAlike ==
    ASSUME NEW x \in Recorded, NEW y \in SoundMessage, Alike(x, y)
    PROVE  y \in Recorded
BY DEF Recorded, Alike

\* A message that is new joins the session.
LEMMA OnceGrows ==
    ASSUME TypeInv, OnceInv, NEW m, chat' = Append(chat, m), m \in Recorded,
           UNCHANGED agentVars, approved' = approved,
           Special(m) => \A i \in DOMAIN chat : ~Alike(chat[i], m)
    PROVE  SaidOnce' /\ \A i \in DOMAIN chat' : chat'[i] \in Recorded'
<1>1. /\ DOMAIN chat = 1..Len(chat) /\ Len(chat) \in Nat
      /\ DOMAIN chat' = 1..(Len(chat) + 1)
      /\ \A j \in 1..Len(chat) : chat'[j] = chat[j]
      /\ chat'[Len(chat) + 1] = m
  BY DEF TypeInv
<1>2. Recorded' = Recorded
  BY DEF Recorded, agentVars
<1>3. \A i \in DOMAIN chat' : chat'[i] \in Recorded
  BY <1>1 DEF OnceInv
<1>4. ASSUME NEW i \in DOMAIN chat', NEW j \in 1..(i - 1), Alike(chat'[j], chat'[i])
      PROVE  chat'[i].says = "METRICS" \/ chat'[i].from = OutOfBand
  <2>1. j \in 1..Len(chat) /\ chat'[j] = chat[j]
    BY <1>1
  <2>2. CASE i = Len(chat) + 1
    BY <1>1, <1>4, <2>1, <2>2 DEF Special
  <2>3. CASE i \in 1..Len(chat)
    BY <1>1, <1>4, <2>1, <2>3 DEF OnceInv, SaidOnce
  <2> QED BY <1>1, <2>2, <2>3
<1> QED BY <1>2, <1>3, <1>4 DEF SaidOnce, Alike

\* The session and the client stay; what is in the streams is unsaid; nothing
\* is off the record.
LEMMA OnceKept ==
    ASSUME OnceInv, UNCHANGED <<chat, sendQueue>>, approved => approved',
           Recorded \subseteq Recorded',
           \A b \in Agents : \A k \in DOMAIN outbox'[b] : Unsaid(b, k)'
    PROVE  OnceInv'
<1>1. SaidOnce'
  BY DEF OnceInv, SaidOnce, Alike
<1>2. \A i \in DOMAIN chat' : chat'[i] \in Recorded'
  BY DEF OnceInv
<1>3. \A k \in DOMAIN sendQueue' : Unyielded(k)'
  BY DEF OnceInv, Unyielded
<1> QED BY <1>1, <1>2, <1>3 DEF OnceInv

\* Streams that stay the same hold what is unsaid, as long as no new message
\* of the agent joins the session.
LEMMA UnsaidKept ==
    ASSUME OnceInv, Recorded \subseteq Recorded', NEW b \in Agents, outbox'[b] = outbox[b],
           \A i \in DOMAIN chat' : \/ i \in DOMAIN chat /\ chat'[i] = chat[i]
                                   \/ chat'[i].by # b
    PROVE  \A k \in DOMAIN outbox'[b] : Unsaid(b, k)'
<1> SUFFICES ASSUME NEW k \in DOMAIN outbox[b] PROVE Unsaid(b, k)'
  OBVIOUS
<1>1. PICK x : x = outbox[b][k]
  OBVIOUS
<1>2. Unsaid(b, k)
  BY DEF OnceInv
<1>3. x \in Recorded' /\ x.by = b
  BY <1>1, <1>2 DEF Unsaid
<1>4. Special(x) => \A i \in DOMAIN chat' : ~Alike(chat'[i], x)
  BY <1>1, <1>2, <1>3 DEF Unsaid, Alike
<1> QED BY <1>1, <1>2, <1>3, <1>4 DEF Unsaid, Special, Alike

\* What an executor answers is new to the session and to its own stream.
LEMMA AnswersUnsaid ==
    ASSUME TypeInv, OnceInv, NEW a \in Agents, NEW m \in SoundMessage,
           NEW first \in Seq(SoundMessage), Handles(a, m, first), UNCHANGED <<chat, approved>>,
           \A k \in DOMAIN first : first[k].by = a /\ first[k].from = OutOfBand
                                   /\ first[k].says \in {"ANOMALY", "APPROVED"}
    PROVE  /\ Recorded \subseteq Recorded'
           /\ \A b \in Agents : \A k \in DOMAIN outbox'[b] : Unsaid(b, k)'
<1>1. Recorded \subseteq Recorded'
  BY HandlesAnswers
<1>2. PICK new \in Seq(SoundMessage) :
         /\ outbox' = [outbox EXCEPT ![a] = (outbox[a] \o first) \o new]
         /\ \A k \in DOMAIN new : Answers(a, m, new[k])
         /\ \A k, l \in DOMAIN new : Alike(new[k], new[l]) => k = l
  BY HandlesAnswers
<1> DEFINE o == outbox[a]
           t == (o \o first) \o new
<1>3. o \in Seq(SoundMessage) /\ outbox'[a] = t /\ \A b \in Agents : b # a => outbox'[b] = outbox[b]
  BY <1>2 DEF TypeInv
<1>4. \A k \in DOMAIN t :
         \/ k \in DOMAIN o /\ t[k] = o[k]
         \/ \E i \in DOMAIN first : k = Len(o) + i /\ t[k] = first[i]
         \/ \E i \in DOMAIN new : k = Len(o) + Len(first) + i /\ t[k] = new[i]
  <2>1. first \in Seq(SoundMessage) /\ new \in Seq(SoundMessage)
    OBVIOUS
  <2>2. Parts(t, o, first, new)
    BY <1>3, <2>1, JoinedThree, Zenon DEF t
  <2> QED BY <2>2, Zenon DEF Parts
<1>5. /\ DOMAIN o = 1..Len(o) /\ DOMAIN first = 1..Len(first) /\ DOMAIN new = 1..Len(new)
      /\ Len(o) \in Nat /\ Len(first) \in Nat /\ Len(new) \in Nat
      /\ DOMAIN t = 1..(Len(o) + Len(first) + Len(new))
  BY <1>3
<1>6. \A k \in DOMAIN o : /\ o[k].by = a /\ o[k] \in Recorded
                          /\ Special(o[k]) => /\ \A i \in DOMAIN chat : ~Alike(chat[i], o[k])
                                              /\ \A l \in 1..(k - 1) : ~Alike(o[l], o[k])
  BY DEF OnceInv, Unsaid
<1>7. \A k \in DOMAIN first : first[k].by = a /\ ~Special(first[k]) /\ first[k] \in Recorded
  BY DEF Special, Recorded, Agents, Client, Monitoring, Log, Diagnostics, Remediation
<1> HIDE DEF o, t
<1>8. ASSUME NEW k \in DOMAIN t
      PROVE  /\ t[k].by = a /\ t[k] \in Recorded'
             /\ Special(t[k]) => /\ \A i \in DOMAIN chat : ~Alike(chat[i], t[k])
                                 /\ \A l \in 1..(k - 1) : ~Alike(t[l], t[k])
  <2>1. CASE k \in DOMAIN o /\ t[k] = o[k]
    <3>2. o[k] \in Recorded'
      BY <1>1, <1>6, <2>1
    <3>3. \A l \in 1..(k - 1) : t[l] = o[l]
      <4> SUFFICES ASSUME NEW l \in 1..(k - 1) PROVE t[l] = o[l]
        OBVIOUS
      <4>1. l \in DOMAIN t /\ l \in DOMAIN o /\ l <= Len(o)
        BY <1>5, <2>1
      <4>2. ~(\E i \in DOMAIN first : l = Len(o) + i)
        BY <1>5, <4>1
      <4>3. ~(\E i \in DOMAIN new : l = Len(o) + Len(first) + i)
        BY <1>5, <4>1
      <4> QED BY <1>4, <4>1, <4>2, <4>3, Zenon
    <3> QED BY <1>6, <2>1, <3>2, <3>3
  <2>2. CASE \E i \in DOMAIN first : t[k] = first[i]
    <3>1. t[k].by = a /\ ~Special(t[k]) /\ t[k] \in Recorded
      BY <1>7, <2>2
    <3> QED BY <1>1, <3>1
  <2>3. CASE \E i \in DOMAIN new : k = Len(o) + Len(first) + i /\ t[k] = new[i]
    <3>1. PICK i \in DOMAIN new : k = Len(o) + Len(first) + i /\ t[k] = new[i]
      BY <2>3
    <3>2. PICK x : x = new[i]
      OBVIOUS
    <3>3. Answers(a, m, x)
      BY <1>2, <3>2
    <3>4. x.by = a /\ x \in Recorded' /\ (Special(x) => \A y \in Recorded : ~Alike(y, x))
      <4>1. x \in SoundMessage
        BY <1>2, <3>2
      <4> QED BY <3>3, <4>1, RecordedAlike DEF Answers, Special
    <3>5. Special(x) => \A j \in DOMAIN chat : ~Alike(chat[j], x)
      BY <3>4 DEF OnceInv
    <3>6. ASSUME Special(x), NEW l \in 1..(k - 1)
          PROVE  ~Alike(t[l], x)
      <4>1. l \in DOMAIN t /\ l # k
        BY <1>5
      <4>2. CASE l \in DOMAIN o /\ t[l] = o[l]
        BY <1>6, <3>4, <3>6, <4>2
      <4>3. CASE \E j \in DOMAIN first : t[l] = first[j]
        BY <1>7, <3>6, <4>3 DEF Special, Alike
      <4>4. CASE \E j \in DOMAIN new : l = Len(o) + Len(first) + j /\ t[l] = new[j]
        <5>1. PICK j \in DOMAIN new : l = Len(o) + Len(first) + j /\ t[l] = new[j]
          BY <4>4
        <5>2. j # i
          BY <3>1, <4>1, <5>1
        <5> QED BY <1>2, <3>2, <5>1, <5>2
      <4> QED BY <1>4, <4>1, <4>2, <4>3, <4>4
    <3> QED BY <3>1, <3>2, <3>4, <3>5, <3>6
  <2> QED BY <1>4, <2>1, <2>2, <2>3
<1>9. \A k \in DOMAIN outbox'[a] : Unsaid(a, k)'
  BY <1>3, <1>8 DEF Unsaid, Special, Alike
<1>10. \A b \in Agents : b # a => \A k \in DOMAIN outbox'[b] : Unsaid(b, k)'
  BY <1>1, <1>3, UnsaidKept
<1> QED BY <1>1, <1>9, <1>10

\* Every step keeps it.
LEMMA OncePreserved == TypeInv /\ OnceInv /\ [Next]_vars => OnceInv'
<1> SUFFICES ASSUME TypeInv, OnceInv, [Next]_vars
             PROVE  OnceInv'
  OBVIOUS
<1>1. CASE YieldRequest
  <2>1. PICK m : m = Said(Client, Client, Head(sendQueue), 0)
    OBVIOUS
  <2>2. /\ sendQueue # <<>> /\ sendQueue \in Seq(Requests \cup {Close})
        /\ chat' = Append(chat, m) /\ UNCHANGED <<outbox, approved, agentVars>>
        /\ sendQueue' = Tail(sendQueue)
    BY <1>1, <2>1 DEF YieldRequest, TypeInv, TypeOK
  <2>3. /\ m.by = Client /\ m.says = sendQueue[1] /\ m.says \in Requests
        /\ 1 \in DOMAIN sendQueue
    BY <1>1, <2>1, <2>2 DEF YieldRequest, Said
  <2>4. /\ \A i \in DOMAIN chat : chat[i].by = Client => chat[i].says # m.says
        /\ m.says = "APPROVED" => approved
    BY <2>3 DEF OnceInv, Unyielded
  <2>11. m \in SoundMessage
    BY <1>1, <2>1, <2>2 DEF YieldRequest, Said, SoundMessage, Message, Texts, Requests
  <2>5. m \in Recorded /\ \A i \in DOMAIN chat : ~Alike(chat[i], m)
    BY <2>3, <2>4, <2>11 DEF Recorded, Requests, Alike
  <2>6. SaidOnce' /\ \A i \in DOMAIN chat' : chat'[i] \in Recorded'
    BY <2>2, <2>5, OnceGrows
  <2>7. \A i \in DOMAIN chat' : \/ i \in DOMAIN chat /\ chat'[i] = chat[i]
                                \/ chat'[i] = m
    BY <2>2 DEF TypeInv
  <2>8. \A b \in Agents : \A k \in DOMAIN outbox'[b] : Unsaid(b, k)'
    <3>1. \A b \in Agents : m.by # b
      BY <2>3 DEF Agents, Client, Monitoring, Log, Diagnostics, Remediation
    <3>2. Recorded \subseteq Recorded'
      BY <2>2 DEF Recorded, agentVars
    <3> QED BY <2>2, <2>7, <3>1, <3>2, UnsaidKept
  <2>9. ASSUME NEW k \in DOMAIN sendQueue'
        PROVE  Unyielded(k)'
    <3>1. /\ k + 1 \in DOMAIN sendQueue /\ sendQueue'[k] = sendQueue[k + 1]
          /\ \A l \in 1..(k - 1) : sendQueue'[l] = sendQueue[l + 1] /\ l + 1 \in 1..((k + 1) - 1)
          /\ 1 \in 1..((k + 1) - 1)
      BY <2>2
    <3>2. Unyielded(k + 1)
      BY <3>1 DEF OnceInv
    <3>3. sendQueue'[k] \in Requests => m.says # sendQueue'[k]
      BY <2>3, <3>1, <3>2 DEF Unyielded
    <3>4. sendQueue'[k] \in Requests =>
              \A i \in DOMAIN chat' : chat'[i].by = Client => chat'[i].says # sendQueue'[k]
      BY <2>7, <3>1, <3>2, <3>3 DEF Unyielded
    <3> QED BY <2>2, <3>1, <3>2, <3>4 DEF Unyielded
  <2> QED BY <2>6, <2>8, <2>9 DEF OnceInv
<1>2. CASE RequestsEnd
  <2>1. /\ sendQueue # <<>> /\ sendQueue \in Seq(Requests \cup {Close})
        /\ UNCHANGED <<chat, outbox, approved, agentVars>> /\ sendQueue' = Tail(sendQueue)
    BY <1>2 DEF RequestsEnd, TypeInv, TypeOK
  <2>2. SaidOnce' /\ \A i \in DOMAIN chat' : chat'[i] \in Recorded'
    BY <2>1 DEF OnceInv, SaidOnce, Alike, Recorded, agentVars
  <2>3. \A b \in Agents : \A k \in DOMAIN outbox'[b] : Unsaid(b, k)'
    BY <2>1 DEF OnceInv, Unsaid, Special, Alike, Recorded, agentVars
  <2>4. ASSUME NEW k \in DOMAIN sendQueue'
        PROVE  Unyielded(k)'
    <3>1. /\ k + 1 \in DOMAIN sendQueue /\ sendQueue'[k] = sendQueue[k + 1]
          /\ \A l \in 1..(k - 1) : sendQueue'[l] = sendQueue[l + 1] /\ l + 1 \in 1..((k + 1) - 1)
      BY <2>1
    <3>2. Unyielded(k + 1)
      BY <3>1 DEF OnceInv
    <3> QED BY <2>1, <3>1, <3>2 DEF Unyielded
  <2> QED BY <2>2, <2>3, <2>4 DEF OnceInv
<1>3. ASSUME NEW i \in Unseen, ClientReads(i)
      PROVE  OnceInv'
  <2> DEFINE approval == IF Approves(chat[i]) THEN <<"APPROVED">> ELSE <<>>
             closing == IF chat[i].says = "EXECUTED" THEN <<Close>> ELSE <<>>
             Items == Requests \cup {Close}
  <2>1. /\ UNCHANGED <<chat, outbox, agentVars>>
        /\ approved' = (approved \/ Approves(chat[i]))
        /\ sendQueue' = (sendQueue \o approval) \o closing
    BY <1>3 DEF ClientReads, sessionVars
  <2>2. Recorded \subseteq Recorded'
    BY <2>1, Zenon DEF Recorded, agentVars
  <2>3. SaidOnce'
    BY <2>1 DEF OnceInv, SaidOnce, Alike
  <2>4. \A j \in DOMAIN chat' : chat'[j] \in Recorded'
    BY <2>1, <2>2 DEF OnceInv
  <2>5. \A b \in Agents : \A k \in DOMAIN outbox'[b] : Unsaid(b, k)'
    BY <2>1, <2>2, UnsaidKept
  <2>6. "APPROVED" \in Items /\ Close \in Items /\ Close \notin Requests
    BY DEF Requests, Close
  <2>7. sendQueue \in Seq(Items)
    BY DEF TypeInv, TypeOK
  <2> HIDE DEF Items
  <2>8. approval \in Seq(Items) /\ closing \in Seq(Items)
    BY <2>6
  <2>9. /\ \A k \in DOMAIN approval : k = 1 /\ approval[k] = "APPROVED" /\ ~approved /\ approved'
        /\ \A k \in DOMAIN closing : closing[k] = Close
    <3>1. approved' = (approved \/ Approves(chat[i])) /\ (Approves(chat[i]) => ~approved)
      BY <2>1 DEF Approves
    <3>2. Approves(chat[i]) => ~approved /\ approved'
      BY <3>1, Zenon
    <3> QED BY <3>2
  <2> HIDE DEF approval, closing
  <2>10. ASSUME NEW k \in DOMAIN sendQueue'
         PROVE  Unyielded(k)'
    <3>1. \A l \in DOMAIN sendQueue' :
             \/ l \in DOMAIN sendQueue /\ sendQueue'[l] = sendQueue[l]
             \/ \E j \in DOMAIN approval : l = Len(sendQueue) + j /\ sendQueue'[l] = approval[j]
             \/ \E j \in DOMAIN closing : l = Len(sendQueue) + Len(approval) + j
                                          /\ sendQueue'[l] = closing[j]
      <4>1. Parts((sendQueue \o approval) \o closing, sendQueue, approval, closing)
        BY <2>7, <2>8, JoinedThree, Zenon
      <4>2. Parts(sendQueue', sendQueue, approval, closing)
        BY <2>1, <4>1, Zenon
      <4> QED BY <4>2, Zenon DEF Parts
    <3>2. /\ DOMAIN sendQueue = 1..Len(sendQueue) /\ Len(sendQueue) \in Nat
          /\ DOMAIN approval = 1..Len(approval) /\ Len(approval) \in Nat
          /\ DOMAIN closing = 1..Len(closing) /\ Len(closing) \in Nat
          /\ DOMAIN sendQueue' = 1..(Len(sendQueue) + Len(approval) + Len(closing))
      BY <2>1, <2>7, <2>8
    <3>3. \A l \in 1..Len(sendQueue) : sendQueue'[l] = sendQueue[l]
      BY <2>1, <2>7, <2>8
    <3>4. CASE k \in DOMAIN sendQueue
      <4>1. Unyielded(k) /\ sendQueue'[k] = sendQueue[k]
        BY <3>2, <3>3, <3>4 DEF OnceInv
      <4>2. \A l \in 1..(k - 1) : sendQueue'[l] = sendQueue[l]
        BY <3>2, <3>3, <3>4
      <4> QED BY <2>1, <4>1, <4>2, Zenon DEF Unyielded
    <3>5. CASE \E j \in DOMAIN approval : k = Len(sendQueue) + j /\ sendQueue'[k] = approval[j]
      <4>1. sendQueue'[k] = "APPROVED" /\ ~approved /\ approved' /\ k = Len(sendQueue) + 1
        BY <2>9, <3>5
      <4>2. \A j \in DOMAIN chat' : chat'[j].by = Client => chat'[j].says # "APPROVED"
        BY <2>1, <4>1 DEF OnceInv, Recorded
      <4>3. \A l \in 1..(k - 1) : sendQueue'[l] # "APPROVED"
        <5> SUFFICES ASSUME NEW l \in 1..(k - 1) PROVE sendQueue'[l] # "APPROVED"
          OBVIOUS
        <5>1. l \in DOMAIN sendQueue /\ sendQueue'[l] = sendQueue[l]
          BY <3>2, <3>3, <4>1
        <5> QED BY <4>1, <5>1 DEF OnceInv, Unyielded, Requests
      <4> QED BY <4>1, <4>2, <4>3 DEF Unyielded
    <3>6. CASE \E j \in DOMAIN closing : sendQueue'[k] = closing[j]
      BY <2>6, <2>9, <3>6 DEF Unyielded
    <3> QED BY <3>1, <3>4, <3>5, <3>6
  <2> QED BY <2>3, <2>4, <2>5, <2>10 DEF OnceInv
<1>4. ASSUME NEW a \in Agents, NEW i \in Awaiting(a), Hear(a, i)
      PROVE  OnceInv'
  <2>1. PICK m : m = chat[i]
    OBVIOUS
  <2>2. i \in DOMAIN chat
    BY DEF Awaiting, Audible, TypeInv, TypeOK
  <2>3. m \in SoundMessage
    BY <2>1, <2>2 DEF TypeInv
  <2>4. Handles(a, m, <<>>) /\ UNCHANGED <<chat, sendQueue, approved>>
    BY <1>4, <2>1 DEF Hear, sessionVars, clientVars
  <2>5. <<>> \in Seq(SoundMessage) /\ DOMAIN <<>> = {}
    OBVIOUS
  <2>6. /\ Recorded \subseteq Recorded'
        /\ \A b \in Agents : \A k \in DOMAIN outbox'[b] : Unsaid(b, k)'
    BY <2>3, <2>4, <2>5, AnswersUnsaid
  <2> QED BY <2>4, <2>6, OnceKept
<1>5. ASSUME NEW a \in Agents, ShutDown(a)
      PROVE  OnceInv'
  <2>1. UNCHANGED <<chat, sendQueue, approved, agentVars, outbox>>
    BY <1>5 DEF ShutDown, clientVars
  <2> QED BY <2>1, OnceKept DEF OnceInv, Unsaid, Special, Alike, Recorded, agentVars
<1>6. ASSUME NEW a \in Agents, Relay(a)
      PROVE  OnceInv'
  <2>1. PICK m : m = Head(outbox[a])
    OBVIOUS
  <2>2. /\ outbox[a] \in Seq(SoundMessage) /\ outbox[a] # <<>>
        /\ chat' = Append(chat, m) /\ UNCHANGED <<sendQueue, approved, agentVars>>
        /\ outbox'[a] = Tail(outbox[a]) /\ \A b \in Agents : b # a => outbox'[b] = outbox[b]
    BY <1>6, <2>1 DEF Relay, TypeInv, clientVars
  <2>3. m = outbox[a][1] /\ 1 \in DOMAIN outbox[a]
    BY <2>1, <2>2
  <2>4. m.by = a /\ m \in Recorded /\ (Special(m) => \A i \in DOMAIN chat : ~Alike(chat[i], m))
    BY <2>3 DEF OnceInv, Unsaid
  <2>5. SaidOnce' /\ \A i \in DOMAIN chat' : chat'[i] \in Recorded'
    BY <2>2, <2>4, OnceGrows
  <2>6. \A i \in DOMAIN chat' : \/ i \in DOMAIN chat /\ chat'[i] = chat[i]
                                \/ chat'[i] = m
    BY <2>2 DEF TypeInv
  <2>7. Recorded \subseteq Recorded'
    BY <2>2 DEF Recorded, agentVars
  <2>8. \A b \in Agents : b # a => \A k \in DOMAIN outbox'[b] : Unsaid(b, k)'
    BY <2>2, <2>4, <2>6, <2>7, UnsaidKept
  <2>9. ASSUME NEW k \in DOMAIN outbox'[a]
        PROVE  Unsaid(a, k)'
    <3>1. /\ k + 1 \in DOMAIN outbox[a] /\ outbox'[a][k] = outbox[a][k + 1]
          /\ \A l \in 1..(k - 1) : outbox'[a][l] = outbox[a][l + 1] /\ l + 1 \in 1..((k + 1) - 1)
          /\ 1 \in 1..((k + 1) - 1)
      BY <2>2
    <3>2. Unsaid(a, k + 1)
      BY <3>1 DEF OnceInv
    <3>3. PICK x : x = outbox[a][k + 1]
      OBVIOUS
    <3>4. x.by = a /\ x \in Recorded'
      BY <2>7, <3>2, <3>3 DEF Unsaid
    <3>5. Special(x) => /\ \A i \in DOMAIN chat' : ~Alike(chat'[i], x)
                        /\ \A l \in 1..(k - 1) : ~Alike(outbox'[a][l], x)
      BY <2>3, <2>6, <3>1, <3>2, <3>3 DEF Unsaid
    <3>6. outbox'[a][k] = x
      BY <3>1, <3>3
    <3> QED BY <3>4, <3>5, <3>6 DEF Unsaid, Special, Alike
  <2>10. \A k \in DOMAIN sendQueue' : Unyielded(k)'
    <3>1. m.by # Client
      BY <2>4 DEF Agents, Client, Monitoring, Log, Diagnostics, Remediation
    <3> QED BY <2>2, <2>6, <3>1 DEF OnceInv, Unyielded
  <2> QED BY <2>5, <2>8, <2>9, <2>10 DEF OnceInv
<1>7. ASSUME NEW a \in Agents, StreamFails(a)
      PROVE  OnceInv'
  <2>1. UNCHANGED <<chat, sendQueue, approved, agentVars>> /\ outbox' = [outbox EXCEPT ![a] = <<>>]
    BY <1>7 DEF StreamFails, sessionVars, clientVars
  <2>2. Recorded \subseteq Recorded'
    BY <2>1 DEF Recorded, agentVars
  <2>3. ASSUME NEW b \in Agents, NEW k \in DOMAIN outbox'[b]
        PROVE  Unsaid(b, k)'
    <3>1. outbox'[b] = outbox[b]
      BY <2>1, <2>3 DEF TypeInv
    <3> QED BY <2>1, <2>2, <2>3, <3>1, UnsaidKept
  <2> QED BY <2>1, <2>2, <2>3, OnceKept
<1>8. ASSUME NEW a \in OutOfBandTo, NEW says \in OutOfBandSays, OutOfBandMessage(a, says)
      PROVE  OnceInv'
  <2> DEFINE m == Said(a, OutOfBand, says, 0)
  <2>1. a \in Agents /\ says \in {"ANOMALY", "APPROVED"}
    BY OutOfBandAssumption
  <2>2. m \in SoundMessage /\ m.by = a /\ m.from = OutOfBand /\ m.says \in {"ANOMALY", "APPROVED"}
    BY <2>1 DEF Said, SoundMessage, Message, Texts
  <2>3. Handles(a, m, <<m>>) /\ UNCHANGED <<chat, sendQueue, approved>>
    BY <1>8 DEF OutOfBandMessage, sessionVars, clientVars
  <2> HIDE DEF m
  <2>4. <<m>> \in Seq(SoundMessage) /\ \A k \in DOMAIN <<m>> : <<m>>[k] = m
    BY <2>2
  <2>5. /\ Recorded \subseteq Recorded'
        /\ \A b \in Agents : \A k \in DOMAIN outbox'[b] : Unsaid(b, k)'
    BY <2>1, <2>2, <2>3, <2>4, AnswersUnsaid
  <2> QED BY <2>3, <2>5, OnceKept
<1>9. CASE UNCHANGED vars
  <2>1. UNCHANGED <<chat, sendQueue, approved, agentVars, outbox>>
    BY <1>9 DEF vars, sessionVars, clientVars
  <2> QED BY <2>1, OnceKept DEF OnceInv, Unsaid, Special, Alike, Recorded, agentVars
<1> QED
  BY <1>1, <1>2, <1>3, <1>4, <1>5, <1>6, <1>7, <1>8, <1>9
  DEF Next, ClientRuns, AgentRuns

\* The session starts with the trigger in the client's queue, and nothing said.
LEMMA OnceInitially == Init => OnceInv
<1> SUFFICES ASSUME Init PROVE OnceInv
  OBVIOUS
<1>1. DOMAIN chat = {} /\ \A a \in Agents : DOMAIN outbox[a] = {}
  BY DEF Init
<1>2. \A k \in DOMAIN sendQueue : sendQueue[k] = "ANOMALY" /\ k = 1
  BY DEF Init
<1>3. \A k \in DOMAIN sendQueue : Unyielded(k)
  BY <1>1, <1>2 DEF Unyielded
<1> QED BY <1>1, <1>3 DEF OnceInv, SaidOnce

\* Nobody but the monitoring agent repeats itself, and nobody outside stands in
\* for a party of the session: one trigger, one diagnosis, one plan, one
\* approval and one execution, and no log line twice.
THEOREM NothingSaidTwice == Spec => []SaidOnce
<1>1. OnceInv => SaidOnce
  BY DEF OnceInv
<1> QED BY <1>1, TypesInvariant, OnceInitially, OncePreserved, PTL DEF Spec

-----------------------------------------------------------------------------
(* A diagnosis rests on evidence                                           *)

\* What message m adds to the evidence.
Worth(m) == IF IsEvidence(m) THEN Weight(m) ELSE 0

EvidenceStep == [k \in 1..Len(chat) |-> [w \in Nat |-> w + Worth(chat[k])]]

\* The recursive definition of Evidence defines a function.
EvidenceDefined ==
    /\ Evidence \in [0..Len(chat) -> Nat]
    /\ Follows(Evidence, 0, EvidenceStep, Len(chat))

\* A message is worth a natural number.
LEMMA WorthType == \A m \in SoundMessage : Worth(m) \in Nat
<1> SUFFICES ASSUME NEW m \in SoundMessage PROVE Weight(m) \in Nat
  BY DEF Worth
<1>1. CASE m.says = "LOG"
  <2>1. m.n \in 1..5
    BY <1>1 DEF SoundMessage
  <2>2. m.n = 1 \/ m.n = 2 \/ m.n = 3 \/ m.n = 4 \/ m.n = 5
    BY <2>1
  <2> QED BY <1>1, <2>2 DEF Weight, LogWeights
<1>2. CASE m.says # "LOG"
  BY <1>2 DEF Weight, MetricsWeight
<1> QED BY <1>1, <1>2

\* Evidence is the sum of what the messages so far are worth.
LEMMA EvidenceEquation == TypeInv => EvidenceDefined
<1> SUFFICES ASSUME TypeInv PROVE EvidenceDefined
  OBVIOUS
<1> DEFINE n == Len(chat)
           Step(w, k) == w + Worth(chat[k])
           g == Evidence
<1>1. n \in Nat /\ \A k \in 1..n : chat[k] \in SoundMessage
  BY DEF TypeInv
<1>2. \A k \in 1..n : Worth(chat[k]) \in Nat
  BY <1>1, WorthType
<1>3. EvidenceStep \in [1..n -> [Nat -> Nat]]
  BY <1>2 DEF EvidenceStep
<1>4. PICK f \in [0..n -> Nat] : Follows(f, 0, EvidenceStep, n)
  <2>1. 0 \in Nat
    OBVIOUS
  <2> QED BY <1>1, <1>3, <2>1, RecursionExists, Zenon
<1>5. f[0] = 0 /\ \A k \in 1..n : f[k] = Step(f[k - 1], k)
  <2>1. \A k \in 1..n : f[k - 1] \in Nat
    BY <1>1, <1>4
  <2> QED BY <1>4, <2>1 DEF Follows, EvidenceStep
<1>6. f = [k \in 0..n |-> IF k = 0 THEN 0 ELSE Step(f[k - 1], k)]
  <2> HIDE DEF Step
  <2>1. \A k \in 0..n : k # 0 => k \in 1..n
    BY <1>1
  <2> QED BY <1>4, <1>5, <2>1
<1>7. g = [k \in 0..n |-> IF k = 0 THEN 0 ELSE Step(g[k - 1], k)]
  BY <1>6, Zenon DEF Evidence, Worth
<1> HIDE DEF g, Step
<1>8. \A k \in 0..n : g[k] = f[k]
  <2> DEFINE S == {k \in Nat : k <= n => g[k] = f[k]}
  <2>1. 0 \in S
    BY <1>1, <1>5, <1>7
  <2>2. ASSUME NEW k \in Nat, k \in S
        PROVE  k + 1 \in S
    <3> SUFFICES ASSUME k + 1 <= n
                 PROVE  g[k + 1] = f[k + 1]
      OBVIOUS
    <3>1. g[k] = f[k] /\ k + 1 \in 1..n /\ k + 1 # 0 /\ (k + 1) - 1 = k
      BY <1>1, <2>2
    <3>2. g[k + 1] = Step(g[k], k + 1)
      BY <1>1, <1>7, <3>1
    <3> QED BY <1>5, <3>1, <3>2
  <2> HIDE DEF S
  <2>3. Nat \subseteq S
    BY <2>1, <2>2, Induction
  <2> QED BY <1>1, <2>3 DEF S
<1>9. g = f
  BY <1>4, <1>7, <1>8
<1> QED BY <1>4, <1>9 DEF g, EvidenceDefined

\* It does so in the next state as well.
LEMMA EvidenceEquationNext == TypeInv' => EvidenceDefined'
BY EvidenceEquation, PTL

\* The evidence of the messages before does not change when others follow.
LEMMA EvidenceStays ==
    ASSUME TypeInv, TypeInv', Len(chat) <= Len(chat'),
           \A k \in 1..Len(chat) : chat'[k] = chat[k]
    PROVE  \A k \in 0..Len(chat) : Evidence'[k] = Evidence[k]
<1> DEFINE n == Len(chat)
<1>1. n \in Nat /\ Len(chat') \in Nat /\ n <= Len(chat')
  BY DEF TypeInv
<1>2. Follows(Evidence, 0, EvidenceStep, n)
  BY EvidenceEquation DEF EvidenceDefined
<1>3. Follows(Evidence', 0, EvidenceStep', n)
  BY <1>1, EvidenceEquationNext DEF EvidenceDefined, Follows
<1>4. \A k \in 1..n : EvidenceStep'[k] = EvidenceStep[k]
  <2> SUFFICES ASSUME NEW k \in 1..n
               PROVE  EvidenceStep'[k] = EvidenceStep[k]
    OBVIOUS
  <2>1. k \in 1..Len(chat') /\ chat'[k] = chat[k]
    BY <1>1
  <2> QED BY <2>1 DEF EvidenceStep
<1> HIDE DEF n
<1>5. \A k \in 0..n : Evidence[k] = Evidence'[k]
  BY <1>1, <1>2, <1>3, <1>4, RecursionUnique
<1> QED BY <1>5 DEF n

\* The evidence only grows along the session, by what each message is worth.
EvidenceMonotone ==
    /\ \A k \in 0..Len(chat) : Evidence[k] \in Nat
    /\ \A k \in 1..Len(chat) : Evidence[k] = Evidence[k - 1] + Worth(chat[k])
    /\ \A k, l \in 0..Len(chat) : k <= l => Evidence[k] <= Evidence[l]

\* A longer session holds no less evidence.
LEMMA EvidenceGrows == TypeInv => EvidenceMonotone
<1> SUFFICES ASSUME TypeInv PROVE EvidenceMonotone
  OBVIOUS
<1> DEFINE n == Len(chat)
<1>1. /\ n \in Nat /\ Evidence \in [0..n -> Nat]
      /\ Follows(Evidence, 0, EvidenceStep, n)
  BY EvidenceEquation DEF EvidenceDefined, TypeInv
<1>2. \A k \in 1..n : Worth(chat[k]) \in Nat
  BY WorthType DEF TypeInv
<1>3. \A k \in 0..n : Evidence[k] \in Nat
  BY <1>1
<1>4. \A k \in 1..n : Evidence[k] = Evidence[k - 1] + Worth(chat[k])
  <2>1. \A k \in 1..n : Evidence[k - 1] \in Nat
    BY <1>1
  <2> QED BY <1>1, <2>1 DEF Follows, EvidenceStep
<1>5. ASSUME NEW k \in 0..n, NEW l \in 0..n, k <= l
      PROVE  Evidence[k] <= Evidence[l]
  <2> DEFINE S == {j \in Nat : k <= j /\ j <= n => Evidence[k] <= Evidence[j]}
  <2> HIDE DEF n
  <2>1. 0 \in S
    BY <1>1, <1>3
  <2>2. ASSUME NEW j \in Nat, j \in S PROVE j + 1 \in S
    <3> SUFFICES ASSUME k <= j + 1, j + 1 <= n PROVE Evidence[k] <= Evidence[j + 1]
      OBVIOUS
    <3>1. CASE k = j + 1
      BY <1>3, <3>1
    <3>2. CASE k # j + 1
      <4>1. k <= j /\ j <= n /\ j \in 0..n /\ j + 1 \in 1..n /\ (j + 1) - 1 = j
        BY <1>1, <3>2
      <4>2. Evidence[j + 1] = Evidence[j] + Worth(chat[j + 1]) /\ Worth(chat[j + 1]) \in Nat
        BY <1>2, <1>4, <4>1
      <4>3. Evidence[k] <= Evidence[j]
        BY <2>2, <4>1
      <4> QED BY <1>3, <4>1, <4>2, <4>3
    <3> QED BY <3>1, <3>2
  <2> HIDE DEF S
  <2>3. Nat \subseteq S
    BY <2>1, <2>2, Induction
  <2>4. l \in S
    BY <1>1, <2>3
  <2> QED BY <1>5, <2>4 DEF S
<1> QED BY <1>3, <1>4, <1>5 DEF EvidenceMonotone

\* So it does in the next state.
LEMMA EvidenceGrowsNext == TypeInv' => EvidenceMonotone'
BY EvidenceGrows, PTL

(***************************************************************************)
(* Grounded is made inductive by what the diagnostics agent knows: its     *)
(* confidence is at most the evidence among what it has heard, and a       *)
(* diagnosis on its way rests on evidence in the session.                  *)
(***************************************************************************)
GroundInv ==
    /\ Grounded
    /\ confidence <= Evidence[heard[Diagnostics]]
    /\ \A a \in Agents : \A k \in DOMAIN outbox[a] :
          outbox[a][k].says = "DIAGNOSIS" => Evidence[Len(chat)] >= Threshold

\* What an executor makes of a message: a diagnosis only at the threshold, and
\* its confidence grows by evidence only.
LEMMA HandlesEvidence ==
    ASSUME TypeInv, NEW a \in Agents, NEW m \in SoundMessage, NEW first \in Seq(SoundMessage),
           Handles(a, m, first), approved' = approved
    PROVE  /\ confidence' # confidence => a = Diagnostics
           /\ confidence' <= confidence + Worth(m)
           /\ \A b \in Agents : \A k \in DOMAIN outbox'[b] :
                 outbox'[b][k].says = "DIAGNOSIS" =>
                     \/ \E l \in DOMAIN outbox[b] : outbox[b][l].says = "DIAGNOSIS"
                     \/ \E l \in DOMAIN first : first[l].says = "DIAGNOSIS"
                     \/ confidence + Worth(m) >= Threshold /\ a = Diagnostics
<1>1. confidence \in Nat /\ Worth(m) \in Nat
  BY WorthType DEF TypeInv, TypeOK
<1>2. IsEvidence(m) => Confidence(m) <= confidence + Worth(m)
  BY <1>1 DEF Confidence, Worth
<1>3. (confidence' # confidence => a = Diagnostics) /\ confidence' <= confidence + Worth(m)
  <2>1. CASE a = Diagnostics /\ DiagnosticsHandles(m, first)
    BY <1>1, <1>2, <2>1 DEF DiagnosticsHandles
  <2>2. CASE UNCHANGED confidence
    BY <1>1, <2>2
  <2> QED BY <2>1, <2>2 DEF Handles, MonitoringHandles, LogHandles, RemediationHandles, agentVars
<1>4. PICK new \in Seq(SoundMessage) :
         /\ outbox' = [outbox EXCEPT ![a] = (outbox[a] \o first) \o new]
         /\ \A k \in DOMAIN new : Answers(a, m, new[k])
  BY HandlesAnswers
<1>5. Diagnoses(m) => confidence + Worth(m) >= Threshold
  <2>1. Diagnoses(m) => IsEvidence(m) /\ Confidence(m) >= Threshold
    BY DEF Diagnoses
  <2>2. Confidence(m) \in 0..100
    BY ConfidenceType DEF TypeInv, TypeOK
  <2>3. IsEvidence(m) /\ Confidence(m) >= Threshold => confidence + Worth(m) >= Threshold
    <3> SUFFICES ASSUME IsEvidence(m), Confidence(m) >= Threshold
                 PROVE  confidence + Worth(m) >= Threshold
      OBVIOUS
    <3>1. Confidence(m) <= confidence + Worth(m)
      BY <1>2
    <3>2. \A x, y, z \in Nat : x >= Threshold /\ x <= y + z => y + z >= Threshold
      BY DEF Threshold
    <3>3. Confidence(m) \in Nat
      <4>1. \A x \in 0..100 : x \in Nat
        OBVIOUS
      <4> QED BY <2>2, <4>1, Zenon
    <3> QED BY <1>1, <3>1, <3>2, <3>3, Zenon
  <2> QED BY <2>1, <2>3, Zenon
<1>6. ASSUME NEW b \in Agents, NEW k \in DOMAIN outbox'[b], outbox'[b][k].says = "DIAGNOSIS"
      PROVE  \/ \E l \in DOMAIN outbox[b] : outbox[b][l].says = "DIAGNOSIS"
             \/ \E l \in DOMAIN first : first[l].says = "DIAGNOSIS"
             \/ confidence + Worth(m) >= Threshold /\ a = Diagnostics
  <2>1. CASE b # a
    <3>1. outbox'[b] = outbox[b]
      BY <1>4, <2>1 DEF TypeInv
    <3> QED BY <1>6, <3>1
  <2>2. CASE b = a
    <3>1. outbox[a] \in Seq(SoundMessage) /\ outbox'[a] = (outbox[a] \o first) \o new
      BY <1>4 DEF TypeInv
    <3>2. Parts((outbox[a] \o first) \o new, outbox[a], first, new)
      BY <3>1, JoinedThree, Zenon
    <3>3. Parts(outbox'[a], outbox[a], first, new)
      BY <3>1, <3>2, Zenon
    <3>4. ASSUME NEW i \in DOMAIN new, outbox'[a][k] = new[i]
          PROVE  confidence + Worth(m) >= Threshold /\ a = Diagnostics
      BY <1>4, <1>5, <1>6, <2>2, <3>4 DEF Answers
    <3> QED BY <1>6, <2>2, <3>3, <3>4 DEF Parts
  <2> QED BY <2>1, <2>2
<1> QED BY <1>3, <1>6

\* Steps at which the session stays, or gets messages that say no diagnosis, or
\* a diagnosis that rests on evidence.
LEMMA GroundedGrows ==
    ASSUME TypeInv, TypeInv', GroundInv, Len(chat) <= Len(chat'),
           \A k \in 1..Len(chat) : chat'[k] = chat[k],
           \A k \in DOMAIN chat' : k \notin DOMAIN chat =>
               k = Len(chat) + 1 /\ (chat'[k].says = "DIAGNOSIS" => Evidence[Len(chat)] >= Threshold)
    PROVE  /\ Grounded'
           /\ \A k \in 0..Len(chat) : Evidence'[k] = Evidence[k]
           /\ Evidence[Len(chat)] <= Evidence'[Len(chat')]
<1>1. /\ Len(chat) \in Nat /\ DOMAIN chat = 1..Len(chat)
      /\ Len(chat') \in Nat /\ DOMAIN chat' = 1..Len(chat')
  BY DEF TypeInv
<1>2. \A k \in 0..Len(chat) : Evidence'[k] = Evidence[k]
  BY EvidenceStays
<1>3. ASSUME NEW i \in DOMAIN chat', chat'[i].says = "DIAGNOSIS"
      PROVE  Evidence'[i - 1] >= Threshold
  <2>1. CASE i \in DOMAIN chat
    <3>1. i - 1 \in 0..Len(chat) /\ chat[i].says = "DIAGNOSIS"
      BY <1>1, <1>3, <2>1
    <3> QED BY <1>2, <2>1, <3>1 DEF GroundInv, Grounded
  <2>2. CASE i \notin DOMAIN chat
    <3>1. i - 1 = Len(chat) /\ Len(chat) \in 0..Len(chat)
      BY <1>1, <2>2
    <3> QED BY <1>2, <1>3, <2>2, <3>1
  <2> QED BY <2>1, <2>2
<1>4. Evidence[Len(chat)] <= Evidence'[Len(chat')]
  <2>1. \A k, l \in 0..Len(chat') : k <= l => Evidence'[k] <= Evidence'[l]
    BY EvidenceGrowsNext DEF EvidenceMonotone
  <2> QED BY <1>1, <1>2, <2>1
<1> QED BY <1>2, <1>3, <1>4 DEF Grounded

\* Every step keeps it.
LEMMA GroundPreserved == TypeInv /\ GroundInv /\ [Next]_vars => GroundInv'
<1> SUFFICES ASSUME TypeInv, GroundInv, [Next]_vars
             PROVE  GroundInv'
  OBVIOUS
<1>t. /\ TypeInv' /\ Len(chat) \in Nat /\ DOMAIN chat = 1..Len(chat)
      /\ confidence \in Nat /\ confidence' \in Nat
      /\ Diagnostics \in Agents /\ heard[Diagnostics] \in 0..Len(chat)
      /\ EvidenceMonotone
  <2>1. TypeInv'
    BY TypesPreserved
  <2>2. Diagnostics \in Agents
    BY DEF Agents
  <2>3. /\ Len(chat) \in Nat /\ DOMAIN chat = 1..Len(chat)
        /\ confidence \in Nat /\ heard[Diagnostics] \in 0..Len(chat)
    BY <2>2 DEF TypeInv, TypeOK
  <2>4. confidence' \in Nat
    BY <2>1 DEF TypeInv, TypeOK
  <2>5. EvidenceMonotone
    BY EvidenceGrows
  <2> QED BY <2>1, <2>2, <2>3, <2>4, <2>5
<1>1. ASSUME NEW m, chat' = Append(chat, m), UNCHANGED <<heard, confidence>>,
             m.says = "DIAGNOSIS" => Evidence[Len(chat)] >= Threshold,
             \A b \in Agents : \A k \in DOMAIN outbox'[b] :
                 \E l \in DOMAIN outbox[b] : outbox'[b][k] = outbox[b][l]
      PROVE  GroundInv'
  <2>1. /\ Len(chat') = Len(chat) + 1 /\ DOMAIN chat' = 1..(Len(chat) + 1)
        /\ \A k \in 1..Len(chat) : chat'[k] = chat[k]
        /\ chat'[Len(chat) + 1] = m
    BY <1>1, <1>t DEF TypeInv
  <2>2. \A k \in DOMAIN chat' : k \notin DOMAIN chat =>
            k = Len(chat) + 1 /\ (chat'[k].says = "DIAGNOSIS" => Evidence[Len(chat)] >= Threshold)
    BY <1>1, <1>t, <2>1
  <2>3. Len(chat) <= Len(chat')
    BY <1>t, <2>1
  <2>4. /\ Grounded'
        /\ \A k \in 0..Len(chat) : Evidence'[k] = Evidence[k]
        /\ Evidence[Len(chat)] <= Evidence'[Len(chat')]
    BY <1>t, <2>1, <2>2, <2>3, GroundedGrows
  <2>5. confidence' <= Evidence'[heard'[Diagnostics]]
    BY <1>1, <1>t, <2>4 DEF GroundInv
  <2>6. ASSUME NEW a \in Agents, NEW k \in DOMAIN outbox'[a], outbox'[a][k].says = "DIAGNOSIS"
        PROVE  Evidence'[Len(chat')] >= Threshold
    <3>1. Evidence[Len(chat)] >= Threshold
      BY <1>1, <2>6 DEF GroundInv
    <3>2. Evidence[Len(chat)] \in Nat /\ Evidence'[Len(chat')] \in Nat
      <4>1. Len(chat') \in 0..Len(chat') /\ Len(chat) \in 0..Len(chat)
        BY <1>t, <2>1
      <4> QED BY <1>t, <4>1, EvidenceGrowsNext DEF EvidenceMonotone
    <3> QED BY <2>4, <3>1, <3>2 DEF Threshold
  <2> QED BY <2>4, <2>5, <2>6 DEF GroundInv
<1>2. ASSUME UNCHANGED chat,
             confidence' <= Evidence[heard'[Diagnostics]], heard'[Diagnostics] \in 0..Len(chat),
             \A b \in Agents : \A k \in DOMAIN outbox'[b] :
                 outbox'[b][k].says = "DIAGNOSIS" => Evidence[Len(chat)] >= Threshold
      PROVE  GroundInv'
  <2>1. /\ Grounded'
        /\ \A k \in 0..Len(chat) : Evidence'[k] = Evidence[k]
    BY <1>2, <1>t, GroundedGrows
  <2>2. confidence' <= Evidence'[heard'[Diagnostics]]
    BY <1>2, <2>1
  <2>3. Len(chat) \in 0..Len(chat) /\ Len(chat') = Len(chat)
    BY <1>2, <1>t
  <2>4. Evidence'[Len(chat')] = Evidence[Len(chat)]
    BY <2>1, <2>3
  <2> QED BY <1>2, <2>1, <2>2, <2>4 DEF GroundInv
<1>3. ASSUME UNCHANGED <<chat, heard, confidence>>,
             \A b \in Agents : \A k \in DOMAIN outbox'[b] : k \in DOMAIN outbox[b] /\ outbox'[b][k] = outbox[b][k]
      PROVE  GroundInv'
  BY <1>2, <1>3, <1>t DEF GroundInv
<1>4. CASE YieldRequest
  <2>1. PICK m : m = Said(Client, Client, Head(sendQueue), 0)
    OBVIOUS
  <2>2. chat' = Append(chat, m) /\ UNCHANGED <<outbox, heard, confidence>>
    BY <1>4, <2>1 DEF YieldRequest, agentVars
  <2>3. m.says # "DIAGNOSIS"
    <3>1. Head(sendQueue) \in Requests
      BY <1>4 DEF YieldRequest, TypeInv, TypeOK
    <3> QED BY <2>1, <3>1 DEF Said, Requests
  <2> QED BY <1>1, <2>2, <2>3
<1>5. CASE RequestsEnd \/ (\E i \in Unseen : ClientReads(i)) \/ (\E a \in Agents : ShutDown(a))
           \/ UNCHANGED vars
  <2>1. UNCHANGED <<chat, outbox, heard, confidence>>
    BY <1>5 DEF RequestsEnd, ClientReads, ShutDown, vars, sessionVars, agentVars
  <2> QED BY <1>3, <2>1
<1>6. ASSUME NEW a \in Agents, NEW i \in Awaiting(a), Hear(a, i)
      PROVE  GroundInv'
  <2>1. PICK m : m = chat[i]
    OBVIOUS
  <2>2. i \in DOMAIN chat /\ i > heard[a]
    BY DEF Awaiting, Audible, TypeInv, TypeOK
  <2>3. m \in SoundMessage
    BY <2>1, <2>2 DEF TypeInv
  <2>4. /\ Handles(a, m, <<>>) /\ UNCHANGED <<chat, approved>>
        /\ heard' = [heard EXCEPT ![a] = i]
    BY <1>6, <2>1 DEF Hear, sessionVars, clientVars
  <2>5. <<>> \in Seq(SoundMessage) /\ DOMAIN <<>> = {}
    OBVIOUS
  <2>6. /\ confidence' # confidence => a = Diagnostics
        /\ confidence' <= confidence + Worth(m)
        /\ \A b \in Agents : \A k \in DOMAIN outbox'[b] :
              outbox'[b][k].says = "DIAGNOSIS" =>
                  \/ \E l \in DOMAIN outbox[b] : outbox[b][l].says = "DIAGNOSIS"
                  \/ confidence + Worth(m) >= Threshold /\ a = Diagnostics
    BY <2>3, <2>4, <2>5, HandlesEvidence
  <2>7. a = Diagnostics => /\ confidence + Worth(m) <= Evidence[i]
                           /\ Evidence[i] <= Evidence[Len(chat)]
    <3> SUFFICES ASSUME a = Diagnostics
                 PROVE  /\ confidence + Worth(m) <= Evidence[i]
                        /\ Evidence[i] <= Evidence[Len(chat)]
      OBVIOUS
    <3>1. /\ i \in 1..Len(chat) /\ i \in 0..Len(chat) /\ i - 1 \in 0..Len(chat)
          /\ heard[Diagnostics] <= i - 1 /\ i <= Len(chat) /\ Len(chat) \in 0..Len(chat)
      BY <1>t, <2>2
    <3>2. Evidence[i] = Evidence[i - 1] + Worth(m)
      BY <1>t, <2>1, <3>1 DEF EvidenceMonotone
    <3>3. Evidence[heard[Diagnostics]] <= Evidence[i - 1] /\ Evidence[i] <= Evidence[Len(chat)]
      BY <1>t, <3>1 DEF EvidenceMonotone
    <3>4. /\ Evidence[heard[Diagnostics]] \in Nat /\ Evidence[i - 1] \in Nat
          /\ Worth(m) \in Nat
      BY <1>t, <2>3, <3>1, WorthType DEF EvidenceMonotone
    <3>5. confidence <= Evidence[heard[Diagnostics]]
      BY DEF GroundInv
    <3> QED BY <1>t, <3>2, <3>3, <3>4, <3>5
  <2>8. /\ heard'[Diagnostics] \in 0..Len(chat)
        /\ heard'[Diagnostics] = IF a = Diagnostics THEN i ELSE heard[Diagnostics]
    BY <1>t, <2>2, <2>4 DEF TypeInv, TypeOK
  <2>9. Worth(m) \in Nat /\ Evidence[i] \in Nat /\ Evidence[Len(chat)] \in Nat /\ confidence' \in Nat
    <3>1. i \in 0..Len(chat) /\ Len(chat) \in 0..Len(chat)
      BY <1>t, <2>2
    <3>2. confidence' \in Nat
      BY <1>t
    <3> QED BY <1>t, <2>3, <3>1, <3>2, WorthType DEF EvidenceMonotone
  <2>10. confidence' <= Evidence[heard'[Diagnostics]]
    <3>1. CASE a = Diagnostics
      BY <1>t, <2>6, <2>7, <2>8, <2>9, <3>1
    <3>2. CASE a # Diagnostics
      BY <2>6, <2>8, <3>2 DEF GroundInv
    <3> QED BY <3>1, <3>2
  <2>11. \A b \in Agents : \A k \in DOMAIN outbox'[b] :
             outbox'[b][k].says = "DIAGNOSIS" => Evidence[Len(chat)] >= Threshold
    <3>1. a = Diagnostics /\ confidence + Worth(m) >= Threshold => Evidence[Len(chat)] >= Threshold
      BY <1>t, <2>7, <2>9 DEF Threshold
    <3> QED BY <2>6, <3>1 DEF GroundInv
  <2> QED BY <1>2, <2>4, <2>8, <2>10, <2>11
<1>7. ASSUME NEW a \in Agents, Relay(a)
      PROVE  GroundInv'
  <2>1. PICK m : m = Head(outbox[a])
    OBVIOUS
  <2>2. /\ outbox[a] \in Seq(SoundMessage) /\ outbox[a] # <<>>
        /\ chat' = Append(chat, m) /\ UNCHANGED <<heard, confidence>>
        /\ outbox'[a] = Tail(outbox[a]) /\ \A b \in Agents : b # a => outbox'[b] = outbox[b]
    BY <1>7, <2>1 DEF Relay, TypeInv, agentVars
  <2>3. m = outbox[a][1] /\ 1 \in DOMAIN outbox[a]
    BY <2>1, <2>2
  <2>4. m.says = "DIAGNOSIS" => Evidence[Len(chat)] >= Threshold
    BY <2>3 DEF GroundInv
  <2>5. \A k \in DOMAIN outbox'[a] : k + 1 \in DOMAIN outbox[a] /\ outbox'[a][k] = outbox[a][k + 1]
    BY <2>2
  <2>6. \A b \in Agents : \A k \in DOMAIN outbox'[b] :
            \E l \in DOMAIN outbox[b] : outbox'[b][k] = outbox[b][l]
    BY <2>2, <2>5
  <2> QED BY <1>1, <2>2, <2>4, <2>6
<1>8. ASSUME NEW a \in Agents, StreamFails(a)
      PROVE  GroundInv'
  <2>1. UNCHANGED <<chat, heard, confidence>> /\ outbox' = [outbox EXCEPT ![a] = <<>>]
    BY <1>8 DEF StreamFails, sessionVars, agentVars
  <2>2. \A b \in Agents : \A k \in DOMAIN outbox'[b] : k \in DOMAIN outbox[b] /\ outbox'[b][k] = outbox[b][k]
    BY <2>1 DEF TypeInv
  <2> QED BY <1>3, <2>1, <2>2
<1>9. ASSUME NEW a \in OutOfBandTo, NEW says \in OutOfBandSays, OutOfBandMessage(a, says)
      PROVE  GroundInv'
  <2> DEFINE m == Said(a, OutOfBand, says, 0)
  <2>1. a \in Agents /\ says \in {"ANOMALY", "APPROVED"}
    BY OutOfBandAssumption
  <2>2. m \in SoundMessage /\ m.from = OutOfBand /\ m.says # "DIAGNOSIS"
    BY <2>1 DEF Said, SoundMessage, Message, Texts
  <2>3. Handles(a, m, <<m>>) /\ UNCHANGED <<chat, approved, heard>>
    BY <1>9 DEF OutOfBandMessage, sessionVars, clientVars
  <2> HIDE DEF m
  <2>4. <<m>> \in Seq(SoundMessage) /\ \A k \in DOMAIN <<m>> : <<m>>[k] = m
    BY <2>2
  <2>5. Worth(m) = 0
    BY <2>2 DEF Worth, IsEvidence, OutOfBand, Log, Monitoring
  <2>6. /\ confidence' <= confidence + Worth(m)
        /\ \A b \in Agents : \A k \in DOMAIN outbox'[b] :
              outbox'[b][k].says = "DIAGNOSIS" =>
                  \/ \E l \in DOMAIN outbox[b] : outbox[b][l].says = "DIAGNOSIS"
                  \/ confidence + Worth(m) >= Threshold /\ a = Diagnostics
    BY <2>1, <2>2, <2>3, <2>4, HandlesEvidence
  <2>7. /\ confidence <= Evidence[heard[Diagnostics]] /\ Evidence[heard[Diagnostics]] <= Evidence[Len(chat)]
        /\ Evidence[heard[Diagnostics]] \in Nat /\ Evidence[Len(chat)] \in Nat /\ confidence' \in Nat
    <3>1. Len(chat) \in 0..Len(chat) /\ heard[Diagnostics] <= Len(chat)
      BY <1>t
    <3>2. confidence' \in Nat
      BY <1>t
    <3> QED BY <1>t, <3>1, <3>2 DEF GroundInv, EvidenceMonotone
  <2>8. confidence' <= Evidence[heard'[Diagnostics]]
    BY <1>t, <2>3, <2>5, <2>6, <2>7
  <2>9. \A b \in Agents : \A k \in DOMAIN outbox'[b] :
            outbox'[b][k].says = "DIAGNOSIS" => Evidence[Len(chat)] >= Threshold
    <3>1. confidence + Worth(m) >= Threshold => Evidence[Len(chat)] >= Threshold
      BY <1>t, <2>5, <2>7 DEF Threshold
    <3> QED BY <2>6, <3>1 DEF GroundInv
  <2>10. heard'[Diagnostics] \in 0..Len(chat)
    BY <1>t, <2>3
  <2> QED BY <1>2, <2>3, <2>8, <2>9, <2>10
<1> QED
  BY <1>4, <1>5, <1>6, <1>7, <1>8, <1>9 DEF Next, ClientRuns, AgentRuns

\* There is no evidence at first, and no confidence.
LEMMA GroundInitially == Init => GroundInv
<1> SUFFICES ASSUME Init PROVE GroundInv
  OBVIOUS
<1>1. /\ chat = <<>> /\ Len(chat) = 0 /\ confidence = 0 /\ Diagnostics \in Agents
      /\ heard = [a \in Agents |-> 0] /\ \A a \in Agents : outbox[a] = <<>>
  BY DEF Init, Agents
<1>2. Evidence[0] = 0
  <2>1. TypeInv
    BY TypesHoldInitially
  <2> QED BY <2>1, EvidenceEquation DEF EvidenceDefined, Follows
<1>3. Grounded
  BY <1>1 DEF Grounded
<1>4. confidence <= Evidence[heard[Diagnostics]]
  BY <1>1, <1>2
<1> QED BY <1>1, <1>3, <1>4 DEF GroundInv

\* A diagnosis that joins the session was preceded by evidence above the
\* threshold, however log lines and metrics interleave and whatever is said
\* from outside.
THEOREM DiagnosesAreGrounded == Spec => []Grounded
<1>1. GroundInv => Grounded
  BY DEF GroundInv
<1> QED BY <1>1, TypesInvariant, GroundInitially, GroundPreserved, PTL DEF Spec
=============================================================================
