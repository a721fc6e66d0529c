------------------------- MODULE CollabRelayProofs -------------------------
(***************************************************************************)
(* Proofs about CollabRelay for any number of agents, any capacity of      *)
(* their channels and any number of lines and events: what the goroutines  *)
(* put on an agent's channel, however they interleave, is in the order of  *)
(* each speaker, without gaps, echoes or foreign tasks, and the opening of *)
(* the stream is not overtaken.                                            *)
(***************************************************************************)
EXTENDS CollabRelay, FunctionTheorems, FiniteSetTheorems, SequenceTheorems, TLAPS

-----------------------------------------------------------------------------
(* The inductive invariants                                                *)

\* Where a loop is, it has something to say, to somebody else, and the request
\* it is about to put says it.
LoopInv ==
    /\ \A a \in Agents :
          /\ reader[a] \in {"stamp", "put"} => target[a] # a /\ events[a] >= 1
          /\ reader[a] = "put" => held[a].origin = a /\ held[a].n = events[a]
    /\ IF caster \in {"stamp", "put"} THEN texts >= 1 ELSE castTo = 1
    /\ caster = "put" => castReq.origin = User /\ castReq.n = texts

\* An agent's task is stored once, and then known.
TaskInv ==
    \A a \in Agents :
        /\ taskID[a] = IF ready[a] THEN a ELSE NoTask
        /\ reader[a] = "store" => ~ready[a]

\* The sender goroutine starts with the stream and waits for the task.
OpenInv ==
    \A a \in Agents :
        /\ reader[a] = "first" => handed[a] = <<>> /\ sender[a] = "absent"
        /\ sender[a] \in {"idle", "calling", "done"} => ready[a]
        /\ Len(handed[a]) > 1 => ready[a]

\* How many contributions of speaker s its loop has put on a's channel, or
\* given up.
Passed(s, a) ==
    IF s = User
    THEN IF caster \in {"stamp", "put"} /\ castTo <= a THEN texts - 1 ELSE texts
    ELSE IF reader[s] \in {"stamp", "put"} /\ target[s] <= a THEN events[s] - 1 ELSE events[s]

Others(a) == {User} \cup (Agents \ {a})

\* The contributions of a speaker are in a's line in their order; they are the
\* ones its loop has put there; and none of these is missing, unless an
\* interrupt made the loop give up.
Increasing ==
    \A a \in Agents : \A i, j \in DOMAIN Line(a) :
        i < j /\ Line(a)[i].origin = Line(a)[j].origin => Line(a)[i].n < Line(a)[j].n

Bounded ==
    \A a \in Agents : \A j \in DOMAIN Line(a) :
        Line(a)[j].n <= Passed(Line(a)[j].origin, a)

Gapless ==
    ~cancelled =>
        \A a \in Agents : \A s \in Others(a) : \A m \in 1..Passed(s, a) :
            \E j \in DOMAIN Line(a) : Line(a)[j].origin = s /\ Line(a)[j].n = m

OrderInv == NoEcho /\ Increasing /\ Bounded /\ Gapless

\* Request req of speaker s may follow what is in a's line: it names no other
\* task, names a's only when it is known, and names it if s did so before.
Stamped(req, s, a) ==
    /\ req.taskID \in {a, NoTask, Torn}
    /\ req.taskID = a => ready[a]
    /\ \A i \in DOMAIN Line(a) :
          Line(a)[i].origin = s /\ Line(a)[i].taskID = a => req.taskID = a

StampInv ==
    /\ OwnTask
    /\ \A a \in Agents : \A j \in DOMAIN Line(a) : Line(a)[j].taskID = a => ready[a]
    /\ \A b \in Agents : reader[b] = "put" => Stamped(held[b], b, target[b])
    /\ caster = "put" => Stamped(castReq, User, castTo)

PlaceInv == TypeOK /\ LoopInv /\ TaskInv /\ OpenInv

-----------------------------------------------------------------------------
(* Types, places and tasks                                                 *)

\* A request of another speaker with a task or none.
LEMMA RequestType ==
    ASSUME NEW s \in Agents \cup {User}, NEW m \in Nat \ {0}, NEW id \in TaskIDs \cup {Torn}
    PROVE  [origin |-> s, n |-> m, taskID |-> id] \in Request
BY DEF Request

\* What a loop holds when it is about to put nothing.
LEMMA NoRequestType == NoRequest \in Request
BY DEF NoRequest, Request, TaskIDs

\* What is seen of an agent's task is its task, none, or half of it.
LEMMA SeenType ==
    ASSUME TypeOK, NEW b \in Agents, NEW id \in TaskIDSeen(b)
    PROVE  id \in TaskIDs \cup {Torn}
BY DEF TypeOK, TaskIDSeen

\* A loop goes on to an agent that it does not skip, or ends.
LEMMA LoopGoesOn ==
    ASSUME TypeOK, NEW a \in Agents, NEW b \in Agents \cup {0}, RelayTo(a, After(a, b))
    PROVE  /\ reader' \in [Agents -> {"first", "stream", "store", "stamp", "put", "done"}]
           /\ target' \in [Agents -> Agents]
           /\ \A c \in Agents : c # a => reader'[c] = reader[c] /\ target'[c] = target[c]
           /\ \/ /\ reader'[a] = "stamp" /\ target'[a] = After(a, b) /\ target'[a] # a
                 /\ target'[a] \in Agents
              \/ reader'[a] = "stream" /\ After(a, b) \notin Agents
<1>1. 1 \in Agents /\ b \in Nat /\ a \in Nat
  BY RelayAssumption DEF Agents
<1>2. After(a, b) # a
  BY <1>1 DEF After
<1> QED BY <1>1, <1>2 DEF RelayTo, TypeOK

\* Putting a request on a channel and taking one from it keep the channels'
\* types and bounds.
LEMMA PutType ==
    ASSUME TypeOK, NEW b \in Agents, NEW req \in Request, Put(b, req), HasRoom(b)
    PROVE  /\ queue' \in [Agents -> Seq(Request)]
           /\ \A a \in Agents : Len(queue'[a]) <= QueueCap
<1>1. queue[b] \in Seq(Request) /\ Len(queue[b]) < QueueCap /\ QueueCap \in Nat
  BY RelayAssumption DEF TypeOK, HasRoom
<1>2. Append(queue[b], req) \in Seq(Request) /\ Len(Append(queue[b], req)) <= QueueCap
  BY <1>1
<1> QED BY <1>2 DEF TypeOK, Put

\* Passing a request on keeps the types of channel and client.
LEMMA HandType ==
    ASSUME TypeOK, NEW b \in Agents, Hand(b), queue[b] # <<>>
    PROVE  /\ queue' \in [Agents -> Seq(Request)] /\ handed' \in [Agents -> Seq(Request)]
           /\ \A a \in Agents : Len(queue'[a]) <= QueueCap
           /\ panicked' \in BOOLEAN
<1>1. /\ queue[b] \in Seq(Request) /\ Len(queue[b]) <= QueueCap /\ QueueCap \in Nat
      /\ handed[b] \in Seq(Request)
  BY RelayAssumption DEF TypeOK
<1>2. /\ Tail(queue[b]) \in Seq(Request) /\ Len(Tail(queue[b])) <= QueueCap
      /\ Head(queue[b]) \in Request
  BY <1>1
<1>3. Append(handed[b], Head(queue[b])) \in Seq(Request)
  BY <1>1, <1>2
<1> QED BY <1>2, <1>3 DEF TypeOK, Hand

\* The broadcaster keeps its place.
LEMMA CasterPlace ==
    ASSUME PlaceInv, Broadcaster
    PROVE  PlaceInv'
<1> USE DEF PlaceInv
<1>1. /\ UNCHANGED <<taskID, ready, handed, reader, target, held, events, sender, cancelled,
                     closed, panicked>>
  BY DEF Broadcaster, ScanLine, CastStamp, CastPut, CastAbort, ScanEnds, shared, rvars, ending
<1>2. /\ queue' \in [Agents -> Seq(Request)]
      /\ \A a \in Agents : Len(queue'[a]) <= QueueCap
  <2>1. CASE CastPut
    BY <2>1, PutType DEF CastPut, TypeOK
  <2>2. CASE ~CastPut
    BY <2>2 DEF Broadcaster, ScanLine, CastStamp, CastAbort, ScanEnds, shared, TypeOK
  <2> QED BY <2>1, <2>2
<1>3. /\ caster' \in {"scan", "stamp", "put", "done"} /\ castTo' \in Agents
      /\ castReq' \in Request /\ texts' \in 0..MaxTexts
      /\ IF caster' \in {"stamp", "put"} THEN texts' >= 1 ELSE castTo' = 1
      /\ caster' = "put" => castReq'.origin = User /\ castReq'.n = texts'
  <2>0. 1 \in Agents
    BY RelayAssumption DEF Agents
  <2>1. CASE ScanLine
    BY <2>1, RelayAssumption DEF ScanLine, TypeOK, LoopInv
  <2>2. CASE CastStamp
    <3>1. PICK id \in TaskIDSeen(castTo) :
              castReq' = [origin |-> User, n |-> texts, taskID |-> id]
      BY <2>2 DEF CastStamp
    <3>2. texts \in Nat \ {0} /\ castTo \in Agents
      BY <2>2, RelayAssumption DEF CastStamp, LoopInv, TypeOK
    <3>3. castReq' \in Request
      BY <3>1, <3>2, SeenType, RequestType
    <3> QED BY <2>2, <3>1, <3>3 DEF CastStamp, TypeOK, LoopInv
  <2>3. CASE CastPut
    <3>1. castTo # N => castTo + 1 \in Agents
      BY RelayAssumption DEF Agents, TypeOK
    <3> QED BY <2>0, <2>3, <3>1, NoRequestType DEF CastPut, TypeOK, LoopInv
  <2>4. CASE CastAbort
    BY <2>0, <2>4, NoRequestType DEF CastAbort, TypeOK, LoopInv
  <2>5. CASE ScanEnds
    BY <2>5 DEF ScanEnds, TypeOK, LoopInv
  <2> QED BY <2>1, <2>2, <2>3, <2>4, <2>5 DEF Broadcaster
<1> QED BY <1>1, <1>2, <1>3 DEF TypeOK, LoopInv, TaskInv, OpenInv

\* So does a reader.
LEMMA ReaderPlace ==
    ASSUME PlaceInv, NEW a \in Agents, Reader(a)
    PROVE  PlaceInv'
<1> USE DEF PlaceInv, shared, bvars, ending
<1>1. CASE ReadFirst(a)
  <2>1. /\ queue' \in [Agents -> Seq(Request)] /\ handed' \in [Agents -> Seq(Request)]
        /\ \A b \in Agents : Len(queue'[b]) <= QueueCap
        /\ panicked' \in BOOLEAN
    BY <1>1, HandType DEF ReadFirst
  <2>2. TypeOK'
    BY <1>1, <2>1 DEF ReadFirst, TypeOK
  <2>3. \A b \in Agents : b # a => handed'[b] = handed[b] /\ sender'[b] = sender[b]
                                   /\ reader'[b] = reader[b]
    BY <1>1 DEF ReadFirst, Hand, TypeOK
  <2>4. Len(handed'[a]) = 1 /\ reader'[a] = "stream" /\ sender'[a] = "waiting"
    <3>1. handed[a] = <<>>
      BY <1>1 DEF ReadFirst, OpenInv
    <3> QED BY <1>1, <3>1 DEF ReadFirst, Hand, TypeOK
  <2>5. OpenInv'
    <3> SUFFICES ASSUME NEW b \in Agents
                 PROVE  /\ reader'[b] = "first" => handed'[b] = <<>> /\ sender'[b] = "absent"
                        /\ sender'[b] \in {"idle", "calling", "done"} => ready[b]
                        /\ Len(handed'[b]) > 1 => ready[b]
      BY <1>1 DEF ReadFirst, OpenInv
    <3>1. CASE b = a
      <4>1. Len(handed'[b]) = 1 /\ reader'[b] = "stream" /\ sender'[b] = "waiting"
        BY <2>4, <3>1
      <4> QED BY <4>1
    <3>2. CASE b # a
      <4>1. handed'[b] = handed[b] /\ sender'[b] = sender[b] /\ reader'[b] = reader[b]
        BY <2>3, <3>2
      <4> QED BY <4>1, Zenon DEF OpenInv
    <3> QED BY <3>1, <3>2
  <2> QED BY <1>1, <2>2, <2>3, <2>4, <2>5 DEF ReadFirst, LoopInv, TaskInv
<1>2. CASE FirstAbort(a) \/ ReadTask(a) \/ StreamEnds(a) \/ StreamFails(a)
  <2>1. /\ \E p \in {"store", "done"} : reader' = [reader EXCEPT ![a] = p]
        /\ reader'[a] = "store" => ~ready[a]
        /\ UNCHANGED <<shared, target, held, events, sender, bvars, ending>>
        /\ panicked' \in BOOLEAN
    BY <1>2 DEF FirstAbort, ReadTask, StreamEnds, StreamFails, PrintLine, TypeOK
  <2>2. TypeOK'
    BY <2>1 DEF TypeOK
  <2>3. /\ \A b \in Agents : b # a => reader'[b] = reader[b]
        /\ reader'[a] \in {"store", "done"}
    BY <2>1 DEF TypeOK
  <2>4. LoopInv'
    BY <2>1, <2>3 DEF LoopInv
  <2>5. TaskInv'
    BY <2>1, <2>3 DEF TaskInv
  <2>6. OpenInv'
    BY <2>1, <2>3 DEF OpenInv
  <2> QED BY <2>2, <2>4, <2>5, <2>6
<1>3. ASSUME Relay(a), reader[a] \in {"stream", "store"},
             \/ reader[a] = "store" /\ taskID' = [taskID EXCEPT ![a] = a]
                /\ ready' = [ready EXCEPT ![a] = TRUE]
             \/ reader[a] = "stream" /\ UNCHANGED <<taskID, ready>>
      PROVE  PlaceInv'
  <2>1. /\ reader' \in [Agents -> {"first", "stream", "store", "stamp", "put", "done"}]
        /\ target' \in [Agents -> Agents]
        /\ \A c \in Agents : c # a => reader'[c] = reader[c] /\ target'[c] = target[c]
        /\ \/ /\ reader'[a] = "stamp" /\ target'[a] = After(a, 0) /\ target'[a] # a
              /\ target'[a] \in Agents
           \/ reader'[a] = "stream" /\ After(a, 0) \notin Agents
    BY <1>3, LoopGoesOn DEF Relay
  <2>2. /\ events' \in [Agents -> 0..MaxEvents] /\ events'[a] >= 1
        /\ \A c \in Agents : c # a => events'[c] = events[c]
    BY <1>3, RelayAssumption DEF Relay, TypeOK
  <2>3. UNCHANGED <<queue, held, sender, bvars, handed, ending>> /\ panicked' \in BOOLEAN
    BY <1>3 DEF Relay, PrintLine, TypeOK
  <2>4. /\ taskID' \in [Agents -> TaskIDs] /\ ready' \in [Agents -> BOOLEAN]
        /\ \A c \in Agents : taskID'[c] = (IF ready'[c] THEN c ELSE NoTask)
        /\ \A c \in Agents : ready[c] => ready'[c]
        /\ \A c \in Agents : c # a => ready'[c] = ready[c]
    <3>1. CASE reader[a] = "store"
      <4>1. taskID' = [taskID EXCEPT ![a] = a] /\ ready' = [ready EXCEPT ![a] = TRUE]
        BY <1>3, <3>1
      <4>2. a \in TaskIDs
        BY DEF TaskIDs
      <4>3. taskID' \in [Agents -> TaskIDs] /\ ready' \in [Agents -> BOOLEAN]
        BY <4>1, <4>2 DEF TypeOK
      <4>4. /\ \A c \in Agents : c # a => ready'[c] = ready[c] /\ taskID'[c] = taskID[c]
            /\ ready'[a] /\ taskID'[a] = a
        BY <4>1 DEF TypeOK
      <4> QED BY <4>3, <4>4 DEF TaskInv
    <3>2. CASE reader[a] = "stream"
      BY <1>3, <3>2 DEF TypeOK, TaskInv
    <3> QED BY <1>3, <3>1, <3>2
  <2>5. TypeOK'
    BY <2>1, <2>2, <2>3, <2>4 DEF TypeOK
  <2>6. LoopInv'
    BY <2>1, <2>2, <2>3 DEF LoopInv
  <2>7. TaskInv'
    BY <2>1, <2>4 DEF TaskInv
  <2>8. OpenInv'
    BY <2>1, <2>3, <2>4 DEF OpenInv
  <2> QED BY <2>5, <2>6, <2>7, <2>8
<1>4. CASE StoreTask(a) \/ ReadUpdate(a)
  BY <1>3, <1>4 DEF StoreTask, ReadUpdate
<1>5. CASE RelayStamp(a)
  <2>1. PICK id \in TaskIDSeen(target[a]) :
            held' = [held EXCEPT ![a] = [origin |-> a, n |-> events[a], taskID |-> id]]
    BY <1>5 DEF RelayStamp, Clones
  <2>2. events[a] \in Nat \ {0} /\ target[a] \in Agents /\ target[a] # a
    BY <1>5, RelayAssumption DEF RelayStamp, LoopInv, TypeOK
  <2>3. [origin |-> a, n |-> events[a], taskID |-> id] \in Request
    BY <2>1, <2>2, SeenType, RequestType
  <2>4. /\ reader' = [reader EXCEPT ![a] = "put"]
        /\ UNCHANGED <<shared, target, events, sender, bvars, ending>> /\ panicked' \in BOOLEAN
    BY <1>5 DEF RelayStamp, PrintLine, TypeOK
  <2>5. TypeOK'
    BY <2>1, <2>3, <2>4 DEF TypeOK
  <2>6. /\ \A c \in Agents : c # a => reader'[c] = reader[c] /\ held'[c] = held[c]
        /\ reader'[a] = "put" /\ held'[a].origin = a /\ held'[a].n = events[a]
    BY <2>1, <2>4 DEF TypeOK
  <2>7. LoopInv'
    BY <2>2, <2>4, <2>6 DEF LoopInv
  <2>8. TaskInv' /\ OpenInv'
    BY <2>4, <2>6 DEF TaskInv, OpenInv
  <2> QED BY <2>5, <2>7, <2>8
<1>6. CASE RelayPut(a)
  <2>0. held[a] \in Request /\ target[a] \in Agents /\ target[a] \in Agents \cup {0}
    BY DEF TypeOK
  <2>1. /\ reader' \in [Agents -> {"first", "stream", "store", "stamp", "put", "done"}]
        /\ target' \in [Agents -> Agents]
        /\ \A c \in Agents : c # a => reader'[c] = reader[c] /\ target'[c] = target[c]
        /\ \/ /\ reader'[a] = "stamp" /\ target'[a] = After(a, target[a]) /\ target'[a] # a
              /\ target'[a] \in Agents
           \/ reader'[a] = "stream" /\ After(a, target[a]) \notin Agents
    BY <1>6, <2>0, LoopGoesOn DEF RelayPut
  <2>2. /\ queue' \in [Agents -> Seq(Request)]
        /\ \A b \in Agents : Len(queue'[b]) <= QueueCap
    BY <1>6, <2>0, PutType DEF RelayPut
  <2>3. /\ UNCHANGED <<taskID, ready, handed, events, sender, bvars, ending, panicked>>
        /\ held' = [held EXCEPT ![a] = NoRequest] /\ reader[a] = "put"
    BY <1>6 DEF RelayPut
  <2>4. TypeOK'
    BY <2>1, <2>2, <2>3, NoRequestType DEF TypeOK
  <2>5. \A c \in Agents : c # a => held'[c] = held[c]
    BY <2>3 DEF TypeOK
  <2>6. LoopInv'
    BY <2>1, <2>3, <2>5 DEF LoopInv
  <2>7. TaskInv' /\ OpenInv'
    BY <2>1, <2>3 DEF TaskInv, OpenInv
  <2> QED BY <2>4, <2>6, <2>7
<1>7. CASE RelayAbort(a)
  <2>1. 1 \in Agents
    BY RelayAssumption DEF Agents
  <2>2. TypeOK'
    BY <1>7, <2>1, NoRequestType DEF RelayAbort, TypeOK
  <2>3. /\ \A c \in Agents : c # a => reader'[c] = reader[c] /\ held'[c] = held[c]
                                      /\ target'[c] = target[c]
        /\ reader'[a] = "done" /\ UNCHANGED <<shared, events, sender, bvars, ending, panicked>>
    BY <1>7 DEF RelayAbort, TypeOK
  <2>4. LoopInv'
    BY <2>3 DEF LoopInv
  <2>5. TaskInv' /\ OpenInv'
    BY <2>3 DEF TaskInv, OpenInv
  <2> QED BY <2>2, <2>4, <2>5
<1> QED BY <1>1, <1>2, <1>4, <1>5, <1>6, <1>7 DEF Reader

\* And a sender, and the end of the session.
LEMMA SenderPlace ==
    ASSUME PlaceInv, NEW a \in Agents, Sender(a)
    PROVE  PlaceInv'
<1> USE DEF PlaceInv, shared, rvars, bvars, ending
<1>1. CASE SenderCalls(a)
  <2>1. /\ queue' \in [Agents -> Seq(Request)] /\ handed' \in [Agents -> Seq(Request)]
        /\ \A b \in Agents : Len(queue'[b]) <= QueueCap
        /\ panicked' \in BOOLEAN
    BY <1>1, HandType DEF SenderCalls
  <2>2. TypeOK'
    BY <1>1, <2>1 DEF SenderCalls, TypeOK
  <2>3. /\ \A b \in Agents : b # a => handed'[b] = handed[b] /\ sender'[b] = sender[b]
        /\ sender'[a] = "calling" /\ ready[a] /\ reader[a] # "first"
    BY <1>1 DEF SenderCalls, Hand, TypeOK, OpenInv
  <2>4. OpenInv'
    BY <1>1, <2>3 DEF SenderCalls, OpenInv
  <2> QED BY <1>1, <2>2, <2>4 DEF SenderCalls, LoopInv, TaskInv
<1>2. CASE SenderReady(a) \/ CallReturns(a) \/ CallFails(a) \/ SenderAbort(a)
  <2>1. /\ sender' = [sender EXCEPT ![a] = IF SenderAbort(a) THEN "done" ELSE "idle"]
        /\ ready[a] /\ sender[a] # "absent"
        /\ UNCHANGED <<shared, rvars, bvars, ending>> /\ panicked' \in BOOLEAN
    BY <1>2 DEF SenderReady, CallReturns, CallFails, SenderAbort, PrintLine, TypeOK, OpenInv
  <2>2. TypeOK'
    BY <2>1 DEF TypeOK
  <2>3. /\ \A b \in Agents : b # a => sender'[b] = sender[b]
        /\ sender'[a] \in {"idle", "done"}
    BY <2>1 DEF TypeOK
  <2>4. OpenInv'
    BY <2>1, <2>3 DEF OpenInv
  <2> QED BY <2>1, <2>2, <2>4 DEF LoopInv, TaskInv
<1> QED BY <1>1, <1>2 DEF Sender

\* Every step keeps the types and the places.
LEMMA PlaceKept ==
    ASSUME PlaceInv, [Next]_vars
    PROVE  PlaceInv'
<1>1. CASE Cancel \/ CloseOutput \/ UNCHANGED vars
  <2>1. /\ UNCHANGED <<queue, taskID, ready, handed, reader, target, held, events, sender,
                       caster, castTo, castReq, texts>>
        /\ cancelled' \in BOOLEAN /\ closed' \in BOOLEAN /\ panicked' \in BOOLEAN
    BY <1>1 DEF Cancel, CloseOutput, vars, shared, rvars, bvars, ending, PlaceInv, TypeOK
  <2> QED BY <2>1 DEF PlaceInv, TypeOK, LoopInv, TaskInv, OpenInv
<1> QED BY <1>1, CasterPlace, ReaderPlace, SenderPlace DEF Next

\* The places of loops, tasks and senders are invariants of the relay.
LEMMA PlaceInvariance == Spec => []PlaceInv
<1>1. Init => PlaceInv
  <2>1. 1 \in Agents
    BY RelayAssumption DEF Agents
  <2>2. NoTask \in TaskIDs /\ 0 <= QueueCap /\ 0 \in 0..MaxTexts /\ 0 \in 0..MaxEvents
    BY RelayAssumption DEF TaskIDs
  <2>3. ASSUME Init
        PROVE  TypeOK
    <3>1. /\ queue \in [Agents -> Seq(Request)] /\ handed \in [Agents -> Seq(Request)]
          /\ \A a \in Agents : Len(queue[a]) <= QueueCap
      BY <2>2, <2>3 DEF Init
    <3> QED BY <2>1, <2>2, <2>3, <3>1, NoRequestType DEF Init, TypeOK
  <2>4. Init => LoopInv /\ TaskInv /\ OpenInv
    BY DEF Init, LoopInv, TaskInv, OpenInv
  <2> QED BY <2>3, <2>4 DEF PlaceInv
<1> QED BY <1>1, PlaceKept, PTL DEF Spec

\* The channels hold requests and never more than they have room for, in
\* sessions of any size.
THEOREM Typing == Spec => []TypeOK
BY PlaceInvariance, PTL DEF PlaceInv

\* No call overtakes the opening of an agent's stream.
THEOREM StreamOpensFirst == Spec => []OpeningFirst
<1>1. PlaceInv => OpeningFirst
  BY DEF PlaceInv, OpenInv, OpeningFirst
<1> QED BY <1>1, PlaceInvariance, PTL
-----------------------------------------------------------------------------
(* What a step does to the lines of the agents                             *)

\* The lines stay as they are.
Quiet == \A a \in Agents : Line(a)' = Line(a)

\* Request req is the last in b's line.
Joins(b, req) == \A a \in Agents : Line(a)' = IF a = b THEN Append(Line(a), req) ELSE Line(a)

\* A line is a sequence of requests.
LEMMA LineType ==
    ASSUME TypeOK, NEW a \in Agents
    PROVE  /\ Line(a) \in Seq(Request) /\ Len(Line(a)) \in Nat /\ DOMAIN Line(a) = 1..Len(Line(a))
           /\ \A j \in DOMAIN Line(a) : /\ Line(a)[j].origin \in Agents \cup {User}
                                        /\ Line(a)[j].n \in Nat \ {0}
<1>1. handed[a] \in Seq(Request) /\ queue[a] \in Seq(Request)
  BY DEF TypeOK
<1>2. Line(a) \in Seq(Request)
  BY <1>1, ConcatProperties DEF Line
<1>3. \A r \in Request : r.origin \in Agents \cup {User} /\ r.n \in Nat \ {0}
  BY DEF Request
<1>4. /\ Len(Line(a)) \in Nat /\ DOMAIN Line(a) = 1..Len(Line(a))
      /\ \A j \in DOMAIN Line(a) : Line(a)[j] \in Request
  BY <1>2
<1> QED BY <1>2, <1>3, <1>4

\* What is appended to the second sequence is appended to the two joined.
LEMMA JoinAppend ==
    ASSUME NEW S, NEW s \in Seq(S), NEW t \in Seq(S), NEW e \in S
    PROVE  s \o Append(t, e) = Append(s \o t, e)
OBVIOUS

\* The first of the second sequence may as well be the last of the first.
LEMMA JoinHead ==
    ASSUME NEW S, NEW s \in Seq(S), NEW t \in Seq(S), t # <<>>
    PROVE  Append(s, Head(t)) \o Tail(t) = s \o t
OBVIOUS

\* A request put on a channel joins the line.
LEMMA PutJoins ==
    ASSUME TypeOK, NEW b \in Agents, NEW req \in Request, Put(b, req), handed' = handed
    PROVE  Joins(b, req)
<1> SUFFICES ASSUME NEW a \in Agents
             PROVE  Line(a)' = IF a = b THEN Append(Line(a), req) ELSE Line(a)
  BY DEF Joins
<1>1. handed[a] \in Seq(Request) /\ queue[a] \in Seq(Request)
  BY DEF TypeOK
<1>2. CASE a = b
  <2>1. queue'[a] = Append(queue[a], req) /\ handed'[a] = handed[a]
    BY <1>2 DEF Put, TypeOK
  <2>2. \A h, q \in Seq(Request) : h \o Append(q, req) = Append(h \o q, req)
    BY JoinAppend
  <2>3. handed[a] \o Append(queue[a], req) = Append(handed[a] \o queue[a], req)
    BY <1>1, <2>2, Zenon
  <2> QED BY <1>2, <2>1, <2>3, Zenon DEF Line
<1>3. CASE a # b
  BY <1>3 DEF Put, TypeOK, Line
<1> QED BY <1>2, <1>3

\* A request that is passed to the client keeps its place in the line.
LEMMA HandQuiet ==
    ASSUME TypeOK, NEW b \in Agents, Hand(b), queue[b] # <<>>
    PROVE  Quiet
<1> SUFFICES ASSUME NEW a \in Agents
             PROVE  Line(a)' = Line(a)
  BY DEF Quiet
<1>1. handed[a] \in Seq(Request) /\ queue[a] \in Seq(Request)
  BY DEF TypeOK
<1>2. CASE a = b
  <2>1. handed'[a] = Append(handed[a], Head(queue[a])) /\ queue'[a] = Tail(queue[a])
    BY <1>2 DEF Hand, TypeOK
  <2>2. Append(handed[a], Head(queue[a])) \o Tail(queue[a]) = handed[a] \o queue[a]
    BY <1>1, <1>2, JoinHead
  <2> QED BY <2>1, <2>2, Zenon DEF Line
<1>3. CASE a # b
  BY <1>3 DEF Hand, TypeOK, Line
<1> QED BY <1>2, <1>3

-----------------------------------------------------------------------------
(* What a step does to the speakers                                        *)

\* Nobody says anything; everybody is as far as before.
Silence ==
    /\ Quiet /\ (cancelled => cancelled')
    /\ \A a \in Agents : \A s \in Others(a) : Passed(s, a)' = Passed(s, a)

\* After an interrupt, a speaker gives up.
GivingUp ==
    /\ Quiet /\ cancelled /\ cancelled'
    /\ \A a \in Agents : \A s \in Others(a) : Passed(s, a)' >= Passed(s, a)

\* Speaker s puts its next contribution on b's channel.
Speaking(s, b, req) ==
    /\ Joins(b, req) /\ cancelled' = cancelled
    /\ req.origin = s /\ req.n = Passed(s, b) + 1
    /\ \A a \in Agents : \A t \in Others(a) :
           Passed(t, a)' = IF t = s /\ a = b THEN Passed(t, a) + 1 ELSE Passed(t, a)

SpeakerStep ==
    \/ Silence \/ GivingUp
    \/ \E b \in Agents : \E s \in Others(b) : \E req \in Request : Speaking(s, b, req)

PassedNat == \A a \in Agents : \A s \in Others(a) : Passed(s, a) \in Nat

\* What a speaker's loop has put on a channel is counted by a natural number.
LEMMA PassedType == PlaceInv => PassedNat
<1> SUFFICES ASSUME PlaceInv, NEW a \in Agents, NEW s \in Others(a)
             PROVE  Passed(s, a) \in Nat
  BY DEF PassedNat
<1>1. /\ texts \in Nat /\ (caster \in {"stamp", "put"} => texts >= 1)
  BY RelayAssumption DEF PlaceInv, TypeOK, LoopInv
<1>2. ASSUME s \in Agents
      PROVE  events[s] \in Nat /\ (reader[s] \in {"stamp", "put"} => events[s] >= 1)
  BY <1>2, RelayAssumption DEF PlaceInv, TypeOK, LoopInv
<1> QED BY <1>1, <1>2 DEF Passed, Others

\* The same of the next state.
LEMMA PassedTypeNext == PlaceInv' => PassedNat'
BY PassedType, PTL

\* Only b's reader moves: the speakers other than b are as far as before.
LEMMA OthersAsFar ==
    ASSUME NEW b \in Agents, UNCHANGED <<caster, castTo, texts>>,
           \A c \in Agents : c # b => /\ reader'[c] = reader[c] /\ target'[c] = target[c]
                                      /\ events'[c] = events[c]
    PROVE  \A a \in Agents : \A s \in Others(a) : s # b => Passed(s, a)' = Passed(s, a)
BY DEF Passed, Others

\* A step of Broadcast is silent, gives up or puts the next line of the user.
LEMMA CasterSpeaks ==
    ASSUME PlaceInv, Broadcaster
    PROVE  SpeakerStep
<1> USE DEF PlaceInv
<1>1. /\ UNCHANGED <<reader, target, events, handed, cancelled>>
      /\ castTo \in Agents /\ castTo \in Nat /\ texts \in Nat /\ N \in Nat
  <2>1. UNCHANGED <<reader, target, events, handed, cancelled>>
    BY DEF Broadcaster, ScanLine, CastStamp, CastPut, CastAbort, ScanEnds, shared, rvars, ending
  <2>2. castTo \in Agents /\ texts \in Nat
    BY RelayAssumption DEF TypeOK
  <2> QED BY <2>1, <2>2, RelayAssumption DEF Agents
<1>2. \A a \in Agents : \A s \in Others(a) : s # User => Passed(s, a)' = Passed(s, a)
  BY <1>1 DEF Passed
<1>3. \A a \in Agents : a \in Nat /\ 1 <= a /\ a <= N
  BY <1>1 DEF Agents
<1>4. CASE ScanLine \/ CastStamp \/ ScanEnds
  <2>1. Quiet
    BY <1>4 DEF ScanLine, CastStamp, ScanEnds, shared, Quiet, Line
  <2>2. \A a \in Agents : Passed(User, a)' = Passed(User, a)
    BY <1>1, <1>3, <1>4 DEF ScanLine, CastStamp, ScanEnds, Passed, LoopInv
  <2> QED BY <1>1, <1>2, <2>1, <2>2 DEF Silence, SpeakerStep
<1>5. CASE CastAbort
  <2>1. Quiet /\ cancelled
    BY <1>5 DEF CastAbort, shared, Quiet, Line
  <2>2. \A a \in Agents : Passed(User, a)' >= Passed(User, a)
    BY <1>1, <1>3, <1>5 DEF CastAbort, Passed
  <2>3. \A a \in Agents : \A s \in Others(a) : Passed(s, a)' >= Passed(s, a)
    <3> SUFFICES ASSUME NEW a \in Agents, NEW s \in Others(a)
                 PROVE  Passed(s, a)' >= Passed(s, a)
      OBVIOUS
    <3>1. Passed(s, a) \in Nat
      BY PassedType DEF PassedNat
    <3> QED BY <1>2, <2>2, <3>1
  <2> QED BY <1>1, <2>1, <2>3 DEF GivingUp, SpeakerStep
<1>6. CASE CastPut
  <2>1. Joins(castTo, castReq) /\ castReq \in Request
    BY <1>1, <1>6, PutJoins DEF CastPut, TypeOK
  <2>2. castReq.origin = User /\ castReq.n = Passed(User, castTo) + 1
    BY <1>1, <1>6 DEF CastPut, LoopInv, Passed
  <2>3. /\ texts' = texts /\ caster = "put"
        /\ \/ castTo = N /\ caster' = "scan"
           \/ castTo # N /\ caster' = "stamp" /\ castTo' = castTo + 1
    BY <1>6 DEF CastPut
  <2>4. ASSUME NEW a \in Agents
        PROVE  Passed(User, a)' = IF a = castTo THEN Passed(User, a) + 1 ELSE Passed(User, a)
    BY <1>1, <1>3, <2>3 DEF Passed
  <2>5. User \in Others(castTo) /\ \A a \in Agents : User \in Others(a)
    BY DEF Others
  <2>6. Speaking(User, castTo, castReq)
    BY <1>1, <1>2, <2>1, <2>2, <2>4 DEF Speaking
  <2> QED BY <1>1, <2>1, <2>5, <2>6 DEF SpeakerStep
<1> QED BY <1>4, <1>5, <1>6 DEF Broadcaster

\* A step of a reader is silent, gives up or puts its next event.
LEMMA ReaderSpeaks ==
    ASSUME PlaceInv, NEW b \in Agents, Reader(b)
    PROVE  SpeakerStep
<1> USE DEF PlaceInv, shared, bvars, ending
<1>1. /\ UNCHANGED <<caster, castTo, texts, cancelled>>
      /\ b \in Nat /\ b # User /\ N \in Nat /\ events[b] \in Nat /\ target[b] \in Nat
  <2>1. UNCHANGED <<caster, castTo, texts, cancelled>>
    BY DEF Reader, ReadFirst, FirstAbort, ReadTask, StoreTask, ReadUpdate, StreamEnds, StreamFails,
       RelayStamp, RelayPut, RelayAbort, Relay
  <2>2. target[b] \in Agents /\ events[b] \in Nat
    BY RelayAssumption DEF TypeOK
  <2> QED BY <2>1, <2>2, RelayAssumption DEF Agents, User
<1>2. \A a \in Agents : a \in Nat /\ 1 <= a /\ a <= N
  BY <1>1 DEF Agents
<1>3. ASSUME NEW a \in Agents, a # b, Reader(b)
      PROVE  Passed(b, a) = IF reader[b] \in {"stamp", "put"} /\ target[b] <= a
                            THEN events[b] - 1 ELSE events[b]
  BY <1>1 DEF Passed
<1>4. ASSUME Quiet,
             \A c \in Agents : c # b => /\ reader'[c] = reader[c] /\ target'[c] = target[c]
                                        /\ events'[c] = events[c],
             \A a \in Agents : a # b => Passed(b, a)' = Passed(b, a)
      PROVE  SpeakerStep
  <2>1. \A a \in Agents : \A s \in Others(a) : s # b => Passed(s, a)' = Passed(s, a)
    BY <1>1, <1>4, OthersAsFar
  <2>2. \A a \in Agents : b \in Others(a) => a # b
    BY <1>1 DEF Others
  <2> QED BY <1>1, <1>4, <2>1, <2>2 DEF Silence, SpeakerStep
<1>5. CASE ReadFirst(b) \/ FirstAbort(b) \/ ReadTask(b) \/ StreamEnds(b) \/ StreamFails(b) \/ RelayStamp(b)
  <2>1. Quiet
    <3>1. CASE ReadFirst(b)
      BY <3>1, HandQuiet DEF ReadFirst
    <3>2. CASE ~ReadFirst(b)
      BY <1>5, <3>2 DEF FirstAbort, ReadTask, StreamEnds, StreamFails, RelayStamp, Quiet, Line
    <3> QED BY <3>1, <3>2
  <2>2. \A c \in Agents : c # b => reader'[c] = reader[c]
    BY <1>5 DEF ReadFirst, FirstAbort, ReadTask, StreamEnds, StreamFails, RelayStamp, TypeOK
  <2>3. /\ UNCHANGED <<target, events>>
        /\ reader'[b] \in {"stamp", "put"} <=> reader[b] \in {"stamp", "put"}
    BY <1>5 DEF ReadFirst, FirstAbort, ReadTask, StreamEnds, StreamFails, RelayStamp, TypeOK
  <2>4. \A a \in Agents : a # b => Passed(b, a)' = Passed(b, a)
    BY <1>1, <2>3 DEF Passed
  <2> QED BY <1>4, <2>1, <2>2, <2>3, <2>4
<1>6. CASE StoreTask(b) \/ ReadUpdate(b)
  <2>0. Relay(b) /\ reader[b] \in {"stream", "store"}
    BY <1>6 DEF StoreTask, ReadUpdate
  <2>1. /\ \A c \in Agents : c # b => reader'[c] = reader[c] /\ target'[c] = target[c]
        /\ \/ /\ reader'[b] = "stamp" /\ target'[b] = After(b, 0) /\ target'[b] # b
              /\ target'[b] \in Agents
           \/ reader'[b] = "stream" /\ After(b, 0) \notin Agents
    BY <2>0, LoopGoesOn DEF Relay
  <2>2. events'[b] = events[b] + 1 /\ \A c \in Agents : c # b => events'[c] = events[c]
    BY <2>0 DEF Relay, TypeOK
  <2>3. Quiet
    BY <2>0 DEF Relay, Quiet, Line
  <2>4. \A a \in Agents : a # b => Passed(b, a)' = Passed(b, a)
    <3> SUFFICES ASSUME NEW a \in Agents, a # b
                 PROVE  Passed(b, a)' = Passed(b, a)
      OBVIOUS
    <3>1. Passed(b, a) = events[b]
      BY <1>1, <2>0 DEF Passed
    <3>2. After(b, 0) <= a /\ After(b, 0) \in Agents
      BY <1>1, <1>2 DEF After, Agents
    <3> QED BY <1>1, <2>1, <2>2, <3>1, <3>2 DEF Passed
  <2> QED BY <1>4, <2>1, <2>2, <2>3, <2>4
<1>7. CASE RelayAbort(b)
  <2>1. Quiet /\ cancelled /\ events' = events /\ reader[b] = "put" /\ reader'[b] = "done"
    BY <1>7 DEF RelayAbort, Quiet, Line, TypeOK
  <2>2. \A c \in Agents : c # b => /\ reader'[c] = reader[c] /\ target'[c] = target[c]
                                   /\ events'[c] = events[c]
    BY <1>7 DEF RelayAbort, TypeOK
  <2>3. \A a \in Agents : \A s \in Others(a) : s # b => Passed(s, a)' = Passed(s, a)
    BY <1>1, <2>2, OthersAsFar
  <2>4. \A a \in Agents : Passed(b, a)' >= Passed(b, a)
    BY <1>1, <2>1 DEF Passed
  <2>5. \A a \in Agents : \A s \in Others(a) : Passed(s, a)' >= Passed(s, a)
    <3> SUFFICES ASSUME NEW a \in Agents, NEW s \in Others(a)
                 PROVE  Passed(s, a)' >= Passed(s, a)
      OBVIOUS
    <3>1. Passed(s, a) \in Nat
      BY PassedType DEF PassedNat
    <3> QED BY <2>3, <2>4, <3>1
  <2> QED BY <1>1, <2>1, <2>5 DEF GivingUp, SpeakerStep
<1>8. CASE RelayPut(b)
  <2> DEFINE t == target[b]
  <2>0. held[b] \in Request /\ t \in Agents /\ t \in Agents \cup {0} /\ reader[b] = "put" /\ t # b
    BY <1>8 DEF TypeOK, RelayPut, LoopInv
  <2>1. /\ \A c \in Agents : c # b => reader'[c] = reader[c] /\ target'[c] = target[c]
        /\ \/ /\ reader'[b] = "stamp" /\ target'[b] = After(b, t) /\ target'[b] # b
              /\ target'[b] \in Agents
           \/ reader'[b] = "stream" /\ After(b, t) \notin Agents
    BY <1>8, <2>0, LoopGoesOn DEF RelayPut
  <2>2. Joins(t, held[b]) /\ events' = events
    BY <1>8, <2>0, PutJoins DEF RelayPut
  <2>3. \A a \in Agents : \A s \in Others(a) : s # b => Passed(s, a)' = Passed(s, a)
    BY <1>1, <2>1, <2>2, OthersAsFar
  <2>4. held[b].origin = b /\ held[b].n = Passed(b, t) + 1
    BY <1>1, <2>0 DEF LoopInv, Passed
  <2>5. ASSUME NEW a \in Agents, a # b
        PROVE  Passed(b, a)' = IF a = t THEN Passed(b, a) + 1 ELSE Passed(b, a)
    <3>1. CASE a > t
      <4>1. After(b, t) <= a /\ After(b, t) \in Agents
        BY <1>1, <1>2, <2>5, <3>1 DEF After, Agents
      <4> QED BY <1>1, <1>2, <2>0, <2>1, <2>2, <3>1, <4>1 DEF Passed
    <3>2. CASE a <= t
      <4>1. ~(After(b, t) <= a)
        BY <1>1, <1>2, <3>2 DEF After
      <4> QED BY <1>1, <1>2, <2>0, <2>1, <2>2, <3>2, <4>1 DEF Passed
    <3> QED BY <1>1, <1>2, <3>1, <3>2
  <2>6. b \in Others(t) /\ \A a \in Agents : b \in Others(a) => a # b
    BY <1>1, <2>0 DEF Others
  <2>7. Speaking(b, t, held[b])
    BY <1>1, <2>2, <2>3, <2>4, <2>5, <2>6 DEF Speaking
  <2> QED BY <2>0, <2>6, <2>7 DEF SpeakerStep
<1> QED BY <1>5, <1>6, <1>7, <1>8 DEF Reader

\* In every step one speaker at most says something, and says what comes next.
LEMMA SpeakerSteps ==
    ASSUME PlaceInv, [Next]_vars
    PROVE  SpeakerStep
<1> USE DEF shared, rvars, bvars, ending
<1>1. CASE Cancel \/ CloseOutput \/ UNCHANGED vars
  <2>1. /\ UNCHANGED <<queue, handed, reader, target, events, caster, castTo, texts>>
        /\ cancelled => cancelled'
    BY <1>1 DEF Cancel, CloseOutput, vars
  <2> QED BY <2>1 DEF SpeakerStep, Silence, Quiet, Line, Passed
<1>2. ASSUME NEW a \in Agents, Sender(a)
      PROVE  SpeakerStep
  <2>1. UNCHANGED <<reader, target, events, caster, castTo, texts, cancelled>>
    BY <1>2 DEF Sender, SenderReady, SenderCalls, CallReturns, CallFails, SenderAbort
  <2>2. Quiet
    <3>1. CASE SenderCalls(a)
      BY <3>1, HandQuiet DEF SenderCalls, PlaceInv
    <3>2. CASE ~SenderCalls(a)
      BY <1>2, <3>2 DEF Sender, SenderReady, CallReturns, CallFails, SenderAbort, Quiet, Line
    <3> QED BY <3>1, <3>2
  <2> QED BY <2>1, <2>2 DEF SpeakerStep, Silence, Passed
<1> QED BY <1>1, <1>2, CasterSpeaks, ReaderSpeaks DEF Next
-----------------------------------------------------------------------------
(* The order of each speaker                                               *)

\* The line that a request joined.
LEMMA Joined ==
    ASSUME TypeOK, NEW b \in Agents, NEW req \in Request, Joins(b, req)
    PROVE  /\ DOMAIN Line(b)' = DOMAIN Line(b) \cup {Len(Line(b)) + 1}
           /\ Line(b)'[Len(Line(b)) + 1] = req
           /\ \A j \in DOMAIN Line(b) : Line(b)'[j] = Line(b)[j] /\ j < Len(Line(b)) + 1
           /\ \A a \in Agents : a # b => Line(a)' = Line(a)
<1>1. Line(b) \in Seq(Request) /\ DOMAIN Line(b) = 1..Len(Line(b)) /\ Len(Line(b)) \in Nat
  BY LineType
<1>2. Line(b)' = Append(Line(b), req) /\ \A a \in Agents : a # b => Line(a)' = Line(a)
  BY DEF Joins
<1> QED BY <1>1, <1>2

\* Every step keeps the order and the completeness of the lines.
LEMMA OrderKept ==
    ASSUME PlaceInv, OrderInv, [Next]_vars
    PROVE  OrderInv'
<1>t. /\ TypeOK
      /\ \A a \in Agents : \A j \in DOMAIN Line(a) : Line(a)[j].origin \in Others(a)
      /\ \A a \in Agents : \A j \in DOMAIN Line(a) : Line(a)[j].n \in Nat \ {0}
      /\ \A a \in Agents : \A s \in Others(a) : Passed(s, a) \in Nat
  <2>1. TypeOK
    BY DEF PlaceInv
  <2> QED BY <2>1, LineType, PassedType DEF OrderInv, NoEcho, Others, PassedNat
<1>1. ASSUME Silence \/ GivingUp
      PROVE  OrderInv'
  <2>1. /\ \A a \in Agents : Line(a)' = Line(a)
        /\ \A a \in Agents : \A s \in Others(a) : Passed(s, a)' >= Passed(s, a)
    BY <1>1, <1>t DEF Silence, GivingUp, Quiet
  <2>2. NoEcho' /\ Increasing'
    BY <2>1 DEF OrderInv, NoEcho, Increasing
  <2>3. Bounded'
    <3> SUFFICES ASSUME NEW a \in Agents, NEW j \in DOMAIN Line(a), NEW s, Line(a)[j].origin = s
                 PROVE  Line(a)[j].n <= Passed(s, a)'
      BY <2>1 DEF Bounded
    <3>1. /\ Line(a)[j].n <= Passed(s, a) /\ Line(a)[j].n \in Nat
          /\ Passed(s, a) \in Nat /\ Passed(s, a)' >= Passed(s, a) /\ s \in Others(a)
      BY <1>t, <2>1 DEF OrderInv, Bounded
    <3>2. Passed(s, a)' \in Nat
      <4>1. PlaceInv'
        BY PlaceKept
      <4>2. \A c \in Agents : \A t \in Others(c)' : Passed(t, c)' \in Nat
        BY <4>1, PassedTypeNext DEF PassedNat
      <4> QED BY <3>1, <4>2 DEF Others
    <3> QED BY <3>1, <3>2
  <2>4. Gapless'
    BY <1>1, <2>1 DEF Silence, GivingUp, OrderInv, Gapless
  <2> QED BY <2>2, <2>3, <2>4 DEF OrderInv
<1>2. ASSUME NEW b \in Agents, NEW s \in Others(b), NEW req \in Request, Speaking(s, b, req)
      PROVE  OrderInv'
  <2> DEFINE last == Len(Line(b)) + 1
  <2>1. /\ DOMAIN Line(b)' = DOMAIN Line(b) \cup {last} /\ Line(b)'[last] = req
        /\ \A j \in DOMAIN Line(b) : Line(b)'[j] = Line(b)[j] /\ j < last /\ ~(last < j)
        /\ \A a \in Agents : a # b => Line(a)' = Line(a)
    <3>1. Joins(b, req)
      BY <1>2 DEF Speaking
    <3>2. DOMAIN Line(b) = 1..Len(Line(b)) /\ Len(Line(b)) \in Nat
      BY <1>t, LineType
    <3>3. \A j \in DOMAIN Line(b) : j < last /\ ~(last < j)
      BY <3>2
    <3> QED BY <1>t, <3>1, <3>3, Joined
  <2>2. /\ req.origin = s /\ req.n = Passed(s, b) + 1 /\ Passed(s, b) \in Nat
        /\ Passed(s, b)' = Passed(s, b) + 1
        /\ \A a \in Agents : \A t \in Others(a) : t # s \/ a # b => Passed(t, a)' = Passed(t, a)
    BY <1>2, <1>t DEF Speaking
  <2> HIDE DEF last
  <2>3. NoEcho'
    <3>1. s # b
      BY DEF Others, Agents, User
    <3> QED BY <2>1, <2>2, <3>1 DEF OrderInv, NoEcho
  <2>4. Increasing'
    <3>1. ASSUME NEW i \in DOMAIN Line(b), Line(b)[i].origin = s
          PROVE  Line(b)[i].n < req.n
      <4>1. Line(b)[i].n <= Passed(s, b) /\ Line(b)[i].n \in Nat
        BY <1>t, <3>1 DEF OrderInv, Bounded
      <4> QED BY <2>2, <4>1
    <3>2. ASSUME NEW i \in DOMAIN Line(b)', NEW j \in DOMAIN Line(b)', i < j,
                 Line(b)'[i].origin = Line(b)'[j].origin
          PROVE  Line(b)'[i].n < Line(b)'[j].n
      <4>1. i \in DOMAIN Line(b)
        <5>1. ~(last < last)
          BY <1>t, LineType DEF last
        <5> QED BY <2>1, <3>2, <5>1
      <4>2. CASE j = last
        BY <2>1, <2>2, <3>1, <3>2, <4>1, <4>2
      <4>3. CASE j \in DOMAIN Line(b)
        BY <2>1, <3>2, <4>1, <4>3 DEF OrderInv, Increasing
      <4> QED BY <2>1, <4>2, <4>3
    <3> QED BY <2>1, <3>2 DEF OrderInv, Increasing
  <2>5. Bounded'
    <3>1. ASSUME NEW a \in Agents, NEW j \in DOMAIN Line(a), NEW t \in Others(a),
                 Line(a)[j].origin = t
          PROVE  Line(a)[j].n <= Passed(t, a)'
      <4>1. /\ Line(a)[j].n <= Passed(t, a) /\ Line(a)[j].n \in Nat /\ Passed(t, a) \in Nat
        BY <1>t, <3>1 DEF OrderInv, Bounded
      <4>2. CASE t = s /\ a = b
        BY <2>2, <4>1, <4>2
      <4>3. CASE t # s \/ a # b
        BY <2>2, <4>1, <4>3
      <4> QED BY <4>2, <4>3
    <3>2. ASSUME NEW a \in Agents, NEW j \in DOMAIN Line(a)', NEW t, Line(a)'[j].origin = t
          PROVE  Line(a)'[j].n <= Passed(t, a)'
      <4>1. CASE a = b /\ j = last
        BY <2>1, <2>2, <3>2, <4>1
      <4>2. CASE ~(a = b /\ j = last)
        <5>1. j \in DOMAIN Line(a) /\ Line(a)'[j] = Line(a)[j]
          BY <2>1, <4>2
        <5> QED BY <1>t, <3>1, <3>2, <5>1
      <4> QED BY <4>1, <4>2
    <3> QED BY <3>2 DEF Bounded
  <2>6. Gapless'
    <3> SUFFICES ASSUME ~cancelled, NEW a \in Agents, NEW t \in Others(a),
                        NEW m \in 1..Passed(t, a)'
                 PROVE  \E j \in DOMAIN Line(a)' : Line(a)'[j].origin = t /\ Line(a)'[j].n = m
      BY <1>2 DEF Gapless, Speaking
    <3>1. CASE m \in 1..Passed(t, a)
      <4>1. PICK j \in DOMAIN Line(a) : Line(a)[j].origin = t /\ Line(a)[j].n = m
        BY <3>1 DEF OrderInv, Gapless
      <4> QED BY <2>1, <4>1
    <3>2. CASE m \notin 1..Passed(t, a)
      <4>1. t = s /\ a = b
        BY <2>2, <3>2
      <4>2. m = req.n
        BY <2>2, <3>2, <4>1
      <4> QED BY <2>1, <2>2, <4>1, <4>2
    <3> QED BY <3>1, <3>2
  <2> QED BY <2>3, <2>4, <2>5, <2>6 DEF OrderInv
<1> QED BY <1>1, <1>2, SpeakerSteps DEF SpeakerStep

\* The contributions of a speaker that come before its m-th are m - 1.
LEMMA EarlierOnes ==
    ASSUME PlaceInv, OrderInv, ~cancelled, NEW a \in Agents, NEW j \in DOMAIN Line(a)
    PROVE  Cardinality({i \in 1..(j - 1) : Line(a)[i].origin = Line(a)[j].origin}) + 1
           = Line(a)[j].n
<1> DEFINE m == Line(a)[j].n
           s == Line(a)[j].origin
           Earlier == {i \in 1..(j - 1) : Line(a)[i].origin = s}
           f == [k \in Earlier |-> Line(a)[k].n]
<1>1. /\ DOMAIN Line(a) = 1..Len(Line(a)) /\ Len(Line(a)) \in Nat
      /\ \A i \in DOMAIN Line(a) : Line(a)[i].n \in Nat \ {0} /\ Line(a)[i].origin \in Agents \cup {User}
  BY LineType DEF PlaceInv
<1>2. /\ j \in Nat /\ Earlier \subseteq DOMAIN Line(a) /\ m \in Nat /\ m >= 1
      /\ \A i \in Earlier : i < j /\ i \in Nat
  BY <1>1
<1>3. f \in [Earlier -> 1..(m - 1)]
  <2> SUFFICES ASSUME NEW i \in Earlier
               PROVE  Line(a)[i].n \in 1..(m - 1)
    OBVIOUS
  <2>1. Line(a)[i].n < m
    BY <1>2 DEF OrderInv, Increasing
  <2> QED BY <1>1, <1>2, <2>1
<1>4. f \in Injection(Earlier, 1..(m - 1))
  <2>1. ASSUME NEW i \in Earlier, NEW k \in Earlier, f[i] = f[k]
        PROVE  i = k
    <3>1. ~(i < k) /\ ~(k < i)
      BY <1>1, <1>2, <2>1 DEF OrderInv, Increasing
    <3> QED BY <1>2, <3>1
  <2> QED BY <1>3, <2>1, Fun_IsInj
<1>5. f \in Surjection(Earlier, 1..(m - 1))
  <2>1. ASSUME NEW q \in 1..(m - 1)
        PROVE  \E i \in Earlier : f[i] = q
    <3>1. s \in Others(a)
      BY <1>1 DEF OrderInv, NoEcho, Others
    <3>2. m <= Passed(s, a)
      BY DEF OrderInv, Bounded
    <3>3. q \in 1..Passed(s, a)
      BY <1>2, <3>1, <3>2, PassedType DEF PassedNat
    <3>4. PICK i \in DOMAIN Line(a) : Line(a)[i].origin = s /\ Line(a)[i].n = q
      BY <3>1, <3>3 DEF OrderInv, Gapless
    <3>5. ~(j < i) /\ i # j
      BY <1>2, <3>4 DEF OrderInv, Increasing
    <3>6. i \in Earlier
      BY <1>1, <1>2, <3>4, <3>5
    <3> QED BY <3>4, <3>6
  <2> QED BY <1>3, <2>1, Fun_IsSurj
<1>6. IsFiniteSet(1..(m - 1)) /\ Cardinality(1..(m - 1)) = m - 1
  <2>1. 1 \in Int /\ m - 1 \in Int /\ (IF 1 > m - 1 THEN 0 ELSE (m - 1) - 1 + 1) = m - 1
    BY <1>2
  <2> HIDE DEF m
  <2> QED BY <2>1, FS_Interval
<1>7. Cardinality(Earlier) = m - 1
  BY <1>4, <1>5, <1>6, FS_Injection
<1> QED BY <1>2, <1>7
-----------------------------------------------------------------------------
(* The tasks that the requests name                                        *)

\* What a loop stamps may follow what is in the line: only its own puts add
\* requests of its own to it.
LEMMA StampsWell ==
    ASSUME PlaceInv, StampInv, NEW b \in Agents, NEW s, NEW id \in TaskIDSeen(b),
           NEW req, req.taskID = id
    PROVE  Stamped(req, s, b)
<1>1. b # NoTask /\ b # Torn /\ taskID[b] = IF ready[b] THEN b ELSE NoTask
  BY RelayAssumption DEF PlaceInv, TaskInv, Agents, NoTask, Torn
<1>2. id = taskID[b] \/ (id = Torn /\ ~ready[b])
  BY DEF TaskIDSeen, PlaceInv, TaskInv
<1>3. ~ready[b] => \A i \in DOMAIN Line(b) : Line(b)[i].taskID # b
  BY DEF StampInv
<1> QED BY <1>1, <1>2, <1>3 DEF Stamped

\* A request that was stamped still is while nothing of its speaker joins the
\* line.
LEMMA StaysStamped ==
    ASSUME NEW b \in Agents, NEW s, NEW req, Stamped(req, s, b), ready[b] => ready'[b],
           \A j \in DOMAIN Line(b)' : Line(b)'[j].origin = s =>
               j \in DOMAIN Line(b) /\ Line(b)'[j] = Line(b)[j]
    PROVE  Stamped(req, s, b)'
BY DEF Stamped

\* While nothing is put, the requests in the lines and those about to be put
\* stay as well stamped as they are.
LEMMA QuietStamps ==
    ASSUME StampInv, Quiet, \A a \in Agents : ready[a] => ready'[a],
           \A b \in Agents : reader'[b] = "put" => Stamped(held'[b], b, target'[b]) /\ target'[b] \in Agents,
           caster' = "put" => Stamped(castReq', User, castTo') /\ castTo' \in Agents
    PROVE  StampInv'
<1>1. \A a \in Agents : Line(a)' = Line(a)
  BY DEF Quiet
<1>2. OwnTask'
  BY <1>1 DEF StampInv, OwnTask
<1>3. \A a \in Agents : \A j \in DOMAIN Line(a)' : Line(a)'[j].taskID = a => ready'[a]
  BY <1>1 DEF StampInv
<1>4. \A b \in Agents : reader'[b] = "put" => Stamped(held[b], b, target[b])'
  <2> SUFFICES ASSUME NEW b \in Agents, reader'[b] = "put"
               PROVE  Stamped(held[b], b, target[b])'
    OBVIOUS
  <2>1. PICK h, t : h = held'[b] /\ t = target'[b]
    OBVIOUS
  <2>2. Stamped(h, b, t) /\ t \in Agents
    BY <2>1
  <2>3. Stamped(h, b, t)'
    BY <1>1, <2>2, StaysStamped
  <2> QED BY <2>1, <2>3 DEF Stamped
<1>5. caster' = "put" => Stamped(castReq, User, castTo)'
  <2> SUFFICES ASSUME caster' = "put"
               PROVE  Stamped(castReq, User, castTo)'
    OBVIOUS
  <2>1. PICK h, t : h = castReq' /\ t = castTo'
    OBVIOUS
  <2>2. Stamped(h, User, t) /\ t \in Agents
    BY <2>1
  <2>3. Stamped(h, User, t)'
    BY <1>1, <2>2, StaysStamped
  <2> QED BY <2>1, <2>3 DEF Stamped
<1> QED BY <1>2, <1>3, <1>4, <1>5 DEF StampInv

\* A well stamped request keeps the line in order, and those of the other
\* speakers as well stamped as they are.
LEMMA StampedJoins ==
    ASSUME TypeOK, StampInv, NEW b \in Agents, NEW s, NEW req \in Request, Joins(b, req),
           Stamped(req, s, b), req.origin = s, ready' = ready
    PROVE  /\ OwnTask'
           /\ \A a \in Agents : \A j \in DOMAIN Line(a)' : Line(a)'[j].taskID = a => ready'[a]
           /\ \A t, r : \A a \in Agents : t # s /\ Stamped(r, t, a) => Stamped(r, t, a)'
<1> DEFINE last == Len(Line(b)) + 1
<1>1. /\ DOMAIN Line(b)' = DOMAIN Line(b) \cup {last} /\ Line(b)'[last] = req
      /\ \A j \in DOMAIN Line(b) : Line(b)'[j] = Line(b)[j] /\ j < last
      /\ \A a \in Agents : a # b => Line(a)' = Line(a)
  BY Joined
<1>2. \A a \in Agents : DOMAIN Line(a) = 1..Len(Line(a)) /\ Len(Line(a)) \in Nat
  BY LineType
<1>3. \A i \in 1..last : i = last \/ i \in DOMAIN Line(b)
  BY <1>2
<1>4. \A j \in DOMAIN Line(b) : \A i \in 1..j : i \in DOMAIN Line(b)
  BY <1>2
<1> HIDE DEF last
<1>5. OwnTask'
  <2>1. ASSUME NEW j \in DOMAIN Line(b)'
        PROVE  /\ Line(b)'[j].taskID \in {b, NoTask, Torn}
               /\ \A i \in 1..j : Line(b)'[i].origin = Line(b)'[j].origin
                     /\ Line(b)'[i].taskID = b => Line(b)'[j].taskID = b
    <3>1. CASE j = last
      BY <1>1, <1>3, <3>1 DEF Stamped
    <3>2. CASE j \in DOMAIN Line(b)
      BY <1>1, <1>4, <3>2 DEF StampInv, OwnTask
    <3> QED BY <1>1, <3>1, <3>2
  <2> QED BY <1>1, <2>1 DEF StampInv, OwnTask
<1>6. \A a \in Agents : \A j \in DOMAIN Line(a)' : Line(a)'[j].taskID = a => ready'[a]
  BY <1>1 DEF StampInv, Stamped
<1>7. \A t, r : \A a \in Agents : t # s /\ Stamped(r, t, a) => Stamped(r, t, a)'
  BY <1>1 DEF Stamped
<1> QED BY <1>5, <1>6, <1>7

\* Every step keeps the requests well stamped.
LEMMA StampKept ==
    ASSUME PlaceInv, StampInv, [Next]_vars
    PROVE  StampInv'
<1> USE DEF shared, rvars, bvars, ending
<1>t. /\ TypeOK /\ castTo \in Agents /\ \A b \in Agents : target[b] \in Agents
      /\ \A b \in Agents : b # User
  <2>1. TypeOK /\ castTo \in Agents /\ \A b \in Agents : target[b] \in Agents
    BY DEF PlaceInv, TypeOK
  <2>2. \A b \in Agents : b # User
    BY RelayAssumption DEF Agents, User
  <2> QED BY <2>1, <2>2
<1>h. /\ \A b \in Agents : reader[b] = "put" => Stamped(held[b], b, target[b])
      /\ caster = "put" => Stamped(castReq, User, castTo)
  BY DEF StampInv
<1>1. CASE ScanLine \/ CastAbort \/ ScanEnds
  <2>1. /\ Quiet /\ UNCHANGED <<ready, reader, held, target>> /\ caster' # "put"
    BY <1>1 DEF ScanLine, CastAbort, ScanEnds, Quiet, Line
  <2> QED BY <1>t, <1>h, <2>1, QuietStamps
<1>2. CASE CastStamp
  <2>1. /\ Quiet /\ UNCHANGED <<ready, reader, held, target, castTo>>
    BY <1>2 DEF CastStamp, Quiet, Line
  <2>2. Stamped(castReq', User, castTo')
    BY <1>t, <1>2, <2>1, StampsWell DEF CastStamp
  <2> QED BY <1>t, <1>h, <2>1, <2>2, QuietStamps
<1>3. CASE CastPut
  <2>1. /\ Joins(castTo, castReq) /\ castReq \in Request /\ castReq.origin = User
        /\ UNCHANGED <<ready, reader, held, target>> /\ caster' # "put"
        /\ Stamped(castReq, User, castTo)
    BY <1>t, <1>h, <1>3, PutJoins DEF CastPut, TypeOK, PlaceInv, LoopInv
  <2>2. /\ OwnTask'
        /\ \A a \in Agents : \A j \in DOMAIN Line(a)' : Line(a)'[j].taskID = a => ready'[a]
        /\ \A t, r : \A a \in Agents : t # User /\ Stamped(r, t, a) => Stamped(r, t, a)'
    BY <1>t, <2>1, StampedJoins
  <2>3. \A b \in Agents : reader'[b] = "put" => Stamped(held[b], b, target[b])'
    <3> SUFFICES ASSUME NEW b \in Agents, reader'[b] = "put"
                 PROVE  Stamped(held[b], b, target[b])'
      OBVIOUS
    <3>1. PICK h, t : h = held[b] /\ t = target[b]
      OBVIOUS
    <3>2. Stamped(h, b, t)'
      BY <1>t, <1>h, <2>1, <2>2, <3>1
    <3> QED BY <2>1, <3>1, <3>2 DEF Stamped
  <2> QED BY <2>1, <2>2, <2>3 DEF StampInv
<1>4. ASSUME NEW b \in Agents,
             ReadFirst(b) \/ FirstAbort(b) \/ ReadTask(b) \/ StoreTask(b) \/ ReadUpdate(b)
             \/ StreamEnds(b) \/ StreamFails(b) \/ RelayAbort(b)
      PROVE  StampInv'
  <2>1. Quiet
    <3>1. CASE ReadFirst(b)
      BY <1>t, <3>1, HandQuiet DEF ReadFirst
    <3>2. CASE ~ReadFirst(b)
      BY <1>4, <3>2 DEF FirstAbort, ReadTask, StoreTask, ReadUpdate, Relay, StreamEnds, StreamFails,
         RelayAbort, Quiet, Line
    <3> QED BY <3>1, <3>2
  <2>2. \A a \in Agents : ready[a] => ready'[a]
    BY <1>4, <1>t DEF ReadFirst, FirstAbort, ReadTask, StoreTask, ReadUpdate, Relay, StreamEnds,
       StreamFails, RelayAbort, TypeOK
  <2>3. /\ reader'[b] # "put"
        /\ \A c \in Agents : c # b => reader'[c] = reader[c] /\ held'[c] = held[c]
                                      /\ target'[c] = target[c]
        /\ UNCHANGED <<caster, castReq, castTo>>
    <3>1. CASE StoreTask(b) \/ ReadUpdate(b)
      <4>1. RelayTo(b, After(b, 0)) /\ UNCHANGED <<held, caster, castReq, castTo>>
        BY <3>1 DEF StoreTask, ReadUpdate, Relay
      <4>2. b \in Agents /\ 0 \in Agents \cup {0}
        OBVIOUS
      <4>3. /\ \A c \in Agents : c # b => reader'[c] = reader[c] /\ target'[c] = target[c]
            /\ reader'[b] # "put"
        BY <1>t, <4>1, <4>2, LoopGoesOn
      <4> QED BY <4>1, <4>3
    <3>2. CASE RelayAbort(b)
      BY <3>2, <1>t DEF RelayAbort, TypeOK
    <3>3. CASE ReadFirst(b) \/ FirstAbort(b) \/ ReadTask(b) \/ StreamEnds(b) \/ StreamFails(b)
      <4>1. UNCHANGED <<held, target, caster, castReq, castTo>>
        BY <3>3 DEF ReadFirst, FirstAbort, ReadTask, StreamEnds, StreamFails
      <4>2. \E w \in {"stream", "done", "store"} : reader' = [reader EXCEPT ![b] = w]
        BY <3>3 DEF ReadFirst, FirstAbort, ReadTask, StreamEnds, StreamFails
      <4> QED BY <1>t, <4>1, <4>2 DEF TypeOK
    <3> QED BY <1>4, <3>1, <3>2, <3>3
  <2> QED BY <1>t, <1>h, <2>1, <2>2, <2>3, QuietStamps
<1>5. ASSUME NEW b \in Agents, RelayStamp(b)
      PROVE  StampInv'
  <2>1. /\ Quiet /\ UNCHANGED <<ready, target, caster, castReq, castTo>>
    BY <1>5 DEF RelayStamp, Quiet, Line
  <2>2. \A c \in Agents : c # b => reader'[c] = reader[c] /\ held'[c] = held[c]
    BY <1>5, <1>t DEF RelayStamp, TypeOK
  <2>3. Stamped(held'[b], b, target'[b])
    <3>1. PICK id \in TaskIDSeen(target[b]) : held'[b].taskID = id
      BY <1>5, <1>t DEF RelayStamp, Clones, TypeOK
    <3> QED BY <1>t, <2>1, <3>1, StampsWell
  <2> QED BY <1>t, <1>h, <2>1, <2>2, <2>3, QuietStamps
<1>6. ASSUME NEW b \in Agents, RelayPut(b)
      PROVE  StampInv'
  <2>1. /\ Joins(target[b], held[b]) /\ held[b] \in Request /\ held[b].origin = b
        /\ UNCHANGED <<ready, caster, castReq, castTo>> /\ reader'[b] # "put"
        /\ Stamped(held[b], b, target[b])
    BY <1>t, <1>h, <1>6, PutJoins DEF RelayPut, RelayTo, TypeOK, PlaceInv, LoopInv
  <2>2. \A c \in Agents : c # b => reader'[c] = reader[c] /\ held'[c] = held[c]
                                   /\ target'[c] = target[c]
    BY <1>6, <1>t DEF RelayPut, RelayTo, TypeOK
  <2>3. /\ OwnTask'
        /\ \A a \in Agents : \A j \in DOMAIN Line(a)' : Line(a)'[j].taskID = a => ready'[a]
        /\ \A t, r : \A a \in Agents : t # b /\ Stamped(r, t, a) => Stamped(r, t, a)'
    BY <1>t, <2>1, StampedJoins
  <2>4. \A c \in Agents : reader'[c] = "put" => Stamped(held[c], c, target[c])'
    <3> SUFFICES ASSUME NEW c \in Agents, reader'[c] = "put"
                 PROVE  Stamped(held[c], c, target[c])'
      OBVIOUS
    <3>1. PICK h, t : h = held[c] /\ t = target[c]
      OBVIOUS
    <3>2. c # b
      BY <2>1
    <3>3. Stamped(h, c, t)'
      BY <1>t, <1>h, <2>2, <2>3, <3>1, <3>2
    <3> QED BY <2>2, <3>1, <3>2, <3>3 DEF Stamped
  <2>5. caster' = "put" => Stamped(castReq, User, castTo)'
    <3> SUFFICES ASSUME caster' = "put"
                 PROVE  Stamped(castReq, User, castTo)'
      OBVIOUS
    <3>1. PICK h, t : h = castReq /\ t = castTo
      OBVIOUS
    <3>2. Stamped(h, User, t)'
      BY <1>t, <1>h, <2>1, <2>3, <3>1
    <3> QED BY <2>1, <3>1, <3>2 DEF Stamped
  <2> QED BY <2>3, <2>4, <2>5 DEF StampInv
<1>7. ASSUME NEW a \in Agents, Sender(a)
      PROVE  StampInv'
  <2>1. UNCHANGED <<ready, reader, held, target, caster, castReq, castTo>>
    BY <1>7 DEF Sender, SenderReady, SenderCalls, CallReturns, CallFails, SenderAbort
  <2>2. Quiet
    <3>1. CASE SenderCalls(a)
      BY <1>t, <3>1, HandQuiet DEF SenderCalls
    <3>2. CASE ~SenderCalls(a)
      BY <1>7, <3>2 DEF Sender, SenderReady, CallReturns, CallFails, SenderAbort, Quiet, Line
    <3> QED BY <3>1, <3>2
  <2> QED BY <1>t, <1>h, <2>1, <2>2, QuietStamps
<1>8. CASE Cancel \/ CloseOutput \/ UNCHANGED vars
  <2>1. Quiet /\ UNCHANGED <<ready, reader, held, target, caster, castReq, castTo>>
    BY <1>8 DEF Cancel, CloseOutput, vars, Quiet, Line
  <2> QED BY <1>t, <1>h, <2>1, QuietStamps
<1> QED BY <1>1, <1>2, <1>3, <1>4, <1>5, <1>6, <1>7, <1>8 DEF Next, Broadcaster, Reader

-----------------------------------------------------------------------------
(* What the relay promises                                                 *)

\* Places, order and stamps are invariants of the relay.
LEMMA Invariance == Spec => [](PlaceInv /\ OrderInv /\ StampInv)
<1>1. Init => OrderInv /\ StampInv
  <2> SUFFICES ASSUME Init
               PROVE  OrderInv /\ StampInv
    OBVIOUS
  <2>1. \A a \in Agents : Line(a) = <<>>
    BY DEF Init, Line
  <2>2. \A a \in Agents : \A s \in Others(a) : Passed(s, a) = 0
    BY DEF Init, Passed, Others
  <2>3. OrderInv
    BY <2>1, <2>2 DEF OrderInv, NoEcho, Increasing, Bounded, Gapless
  <2>4. StampInv
    BY <2>1 DEF Init, StampInv, OwnTask
  <2> QED BY <2>3, <2>4
<1>2. PlaceInv /\ OrderInv /\ StampInv /\ [Next]_vars => OrderInv' /\ StampInv'
  BY OrderKept, StampKept
<1> QED BY <1>1, <1>2, PlaceInvariance, PTL DEF Spec

\* No agent is passed its own events, whoever fills its channel.
THEOREM EchoesAreSkipped == Spec => []NoEcho
BY Invariance, PTL DEF OrderInv

\* Of one speaker an agent is passed the first, the second, the third ...
\* contribution, whatever goroutines carry them and however these interleave.
THEOREM SpeakersKeepOrder == Spec => []SpeakerOrder
<1>1. PlaceInv /\ OrderInv => SpeakerOrder
  <2> SUFFICES ASSUME PlaceInv, OrderInv, NEW a \in Agents, NEW j \in DOMAIN Line(a)
               PROVE  LET earlier == {i \in 1..(j - 1) : Line(a)[i].origin = Line(a)[j].origin}
                      IN  /\ \A i \in earlier : Line(a)[i].n < Line(a)[j].n
                          /\ ~cancelled => Line(a)[j].n = Cardinality(earlier) + 1
    BY DEF SpeakerOrder
  <2>1. DOMAIN Line(a) = 1..Len(Line(a)) /\ Len(Line(a)) \in Nat
    BY LineType DEF PlaceInv
  <2>2. \A i \in 1..(j - 1) : i \in DOMAIN Line(a) /\ i < j
    BY <2>1
  <2>3. \A i \in 1..(j - 1) : Line(a)[i].origin = Line(a)[j].origin => Line(a)[i].n < Line(a)[j].n
    BY <2>2 DEF OrderInv, Increasing
  <2> QED BY <2>3, EarlierOnes
<1> QED BY <1>1, Invariance, PTL

\* No request names a peer's task, and a speaker that has addressed an agent's
\* task goes on addressing it, although the task is stored while requests
\* stamped before wait for room.
THEOREM TasksStayOwn == Spec => []OwnTask
BY Invariance, PTL DEF StampInv
=============================================================================
