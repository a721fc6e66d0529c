------------------------ MODULE NStreamsCallerProofs ------------------------
(***************************************************************************)
(* Theorems about what the caller of send_live_message is given, for every *)
(* set of agents and every bound.                                          *)
(*                                                                         *)
(* What the caller was given and what is still on the output queue make    *)
(* one line of responses and done signals.  Reading adds to its end,       *)
(* yielding moves nothing in it, and counting takes out a done signal.     *)
(***************************************************************************)
EXTENDS NStreamsBroadcastProofs, FunctionTheorems, FiniteSetTheorems

\* What the caller was given, and then what it is to be given.
Line == yielded \o output

\* Responses are counted per agent; an item built from one, too.
Counted ==
    /\ \A i \in DOMAIN items : items[i].origin \in Agents =>
          items[i].n <= responses[items[i].origin]
    /\ \A p \in DOMAIN Line : Line[p] # None => Line[p].n <= responses[Line[p].agent]

\* Every response that was read is in the line.
Found ==
    \A a \in Agents : \A n \in 1..responses[a] :
        \E p \in DOMAIN Line : Line[p] # None /\ Line[p].agent = a /\ Line[p].n = n

\* The responses stand in the order of the items that were built from them,
\* and none stands twice.
Ordered ==
    \A i, j \in DOMAIN items : \A p, q \in DOMAIN Line :
        /\ j <= i /\ Line[p] # None /\ Line[q] # None
        /\ BuiltFrom(items[i], Line[p]) /\ BuiltFrom(items[j], Line[q])
        => q <= p

LineInv == Counted /\ Found /\ Ordered

\* The line, element by element.
LineParts ==
    /\ Line \in Seq(Response \cup {None})
    /\ Len(yielded) \in Nat /\ Len(output) \in Nat
    /\ Len(Line) = Len(yielded) + Len(output) /\ DOMAIN Line = 1..(Len(yielded) + Len(output))
    /\ DOMAIN yielded = 1..Len(yielded) /\ DOMAIN output = 1..Len(output)
    /\ \A p \in 1..Len(yielded) : Line[p] = yielded[p]
    /\ \A p \in 1..Len(output) : Line[Len(yielded) + p] = output[p]
    /\ \A p \in DOMAIN Line : Line[p] # None => Line[p] \in Response

\* The line has the parts it was made of.
LEMMA LineHasParts == TypeOK => LineParts
<1> SUFFICES ASSUME TypeOK PROVE LineParts
  OBVIOUS
<1>1. yielded \in Seq(Response \cup {None}) /\ output \in Seq(Response \cup {None})
  BY DEF TypeOK
<1>2. Line \in Seq(Response \cup {None}) /\ Len(Line) = Len(yielded) + Len(output)
  BY <1>1 DEF Line
<1>3. /\ Len(yielded) \in Nat /\ Len(output) \in Nat
      /\ DOMAIN yielded = 1..Len(yielded) /\ DOMAIN output = 1..Len(output)
      /\ DOMAIN Line = 1..(Len(yielded) + Len(output))
  BY <1>1, <1>2
<1>4. /\ \A p \in 1..Len(yielded) : Line[p] = yielded[p]
      /\ \A p \in 1..Len(output) : Line[Len(yielded) + p] = output[p]
  BY <1>1 DEF Line
<1>5. \A p \in DOMAIN Line : Line[p] # None => Line[p] \in Response
  BY <1>2
<1> QED BY <1>2, <1>3, <1>4, <1>5 DEF LineParts

\* So it has in the next state.
LEMMA LineHasPartsNext == TypeOK' => LineParts'
BY LineHasParts, PTL

-----------------------------------------------------------------------------
(* What a step does to the line                                            *)

\* The response r of agent a is next in the line, and perhaps a done signal
\* after it; at most one item is built from it.
Reads(a, r) ==
    /\ r \in Response /\ r.agent = a /\ r.n = responses[a] + 1
    /\ responses' = [responses EXCEPT ![a] = @ + 1]
    /\ \/ items' = items
       \/ \E it \in Item :
             items' = Append(items, it) /\ it.origin = a /\ it.n = responses[a] + 1
    /\ output' = Append(output, r) \/ output' = output \o <<r, None>>
    /\ yielded' = yielded

\* The caller's request is an item.
Asks ==
    /\ \E it \in Item : items' = Append(items, it) /\ it.origin = Caller
    /\ UNCHANGED <<responses, output, yielded>>

\* A done signal is next in the line.
Signals == output' = Append(output, None) /\ UNCHANGED <<items, responses, yielded>>

\* The caller is given the next response.
Yields ==
    /\ output # <<>> /\ Head(output) # None
    /\ yielded' = Append(yielded, Head(output)) /\ output' = Tail(output)
    /\ UNCHANGED <<items, responses>>

\* A done signal is taken out of the line.
Counts ==
    /\ output # <<>> /\ Head(output) = None
    /\ output' = Tail(output)
    /\ UNCHANGED <<items, responses, yielded>>

LineStep ==
    \/ \E a \in Agents : \E r \in Response : Reads(a, r)
    \/ Asks \/ Signals \/ Yields \/ Counts
    \/ UNCHANGED <<items, responses, output, yielded>>

\* An item that is built from a response bears its number.
LEMMA ForwardedNumber ==
    ASSUME NEW a \in Agents, NEW n \in Nat \ {0}, NEW kind \in ResponseKinds
    PROVE  \/ Forwarded(a, n, kind) = <<>>
           \/ \E it \in Item : Forwarded(a, n, kind) = <<it>> /\ it.origin = a /\ it.n = n
<1> DEFINE It(sender) == [origin |-> a, n |-> n, kind |-> kind, sender |-> sender]
<1>1. \A sender \in Senders : It(sender) \in Item /\ It(sender).origin = a /\ It(sender).n = n
  BY DEF Item, Speakers
<1>2. {a, OutOfBand, NoSender} \subseteq Senders
  BY DEF Senders
<1> HIDE DEF It
<1>3. Forwarded(a, n, kind) \in {<<>>, <<It(a)>>, <<It(OutOfBand)>>, <<It(NoSender)>>}
  BY DEF Forwarded, It
<1> QED BY <1>1, <1>2, <1>3

\* Every step is one of these.
LEMMA LineSteps ==
    ASSUME TypeOK, [Next]_vars
    PROVE  LineStep
<1>1. ASSUME NEW kind \in RequestKinds, FanOutRequest(kind)
      PROVE  LineStep
  <2>1. requests \in Nat
    BY BoundsAssumption DEF TypeOK
  <2>2. RequestItem(kind) \in Item /\ RequestItem(kind).origin = Caller
    BY <2>1, RequestItemType
  <2> QED BY <1>1, <2>2 DEF FanOutRequest, LineStep, Asks
<1>2. ASSUME NEW a \in Agents, NEW kind \in ResponseKinds, ReadResponse(a, kind)
      PROVE  LineStep
  <2> DEFINE f == Forwarded(a, responses[a] + 1, kind)
             r == ResponseRead(a, kind)
  <2>1. responses[a] + 1 \in Nat \ {0}
    BY BoundsAssumption DEF TypeOK
  <2>2. r \in Response /\ r.agent = a /\ r.n = responses[a] + 1
    BY <2>1, ResponseReadType DEF ResponseRead
  <2>3. \/ f = <<>>
        \/ \E it \in Item : f = <<it>> /\ it.origin = a /\ it.n = responses[a] + 1
    BY <2>1, ForwardedNumber
  <2>4. items' = items \o f /\ items \in Seq(Item)
    BY <1>2 DEF ReadResponse, TypeOK
  <2>5. /\ responses' = [responses EXCEPT ![a] = @ + 1]
        /\ output' = Append(output, r) /\ yielded' = yielded
    BY <1>2 DEF ReadResponse
  <2> HIDE DEF f, r
  <2>6. \/ items' = items
        \/ \E it \in Item :
              items' = Append(items, it) /\ it.origin = a /\ it.n = responses[a] + 1
    <3>1. CASE f = <<>>
      BY <2>4, <3>1
    <3>2. CASE f # <<>>
      BY <2>3, <2>4, <3>2, AppendIsConcat, Zenon
    <3> QED BY <3>1, <3>2
  <2>7. Reads(a, r)
    BY <2>2, <2>5, <2>6 DEF Reads
  <2> QED BY <2>2, <2>7 DEF LineStep
<1>3. ASSUME NEW a \in Agents, RelayError(a)
      PROVE  LineStep
  <2> DEFINE r == ResponseRead(a, "artifact_update")
  <2>1. r \in Response /\ r.agent = a /\ r.n = responses[a] + 1
    BY <1>3, ResponseReadType DEF RelayError, ResponseRead
  <2>2. Reads(a, r)
    BY <1>3, <2>1 DEF RelayError, Reads
  <2> QED BY <2>1, <2>2 DEF LineStep
<1>4. ASSUME NEW a \in Agents, EndOfStream(a) \/ StreamError(a) \/ ReaderCancelled(a)
      PROVE  LineStep
  BY <1>4 DEF EndOfStream, StreamError, ReaderCancelled, ReaderFinally, LineStep, Signals
<1>5. ASSUME FanOutEnds \/ Close \/ \E a \in Agents : PullItem(a) \/ PullSentinel(a)
      PROVE  LineStep
  BY <1>5 DEF FanOutEnds, Close, Finalise, PullItem, PullSentinel, LineStep
<1>6. CASE YieldResponse
  BY <1>6 DEF YieldResponse, LineStep, Yields
<1>7. CASE CountDone \/ Finish
  BY <1>7 DEF CountDone, Finish, Finalise, LineStep, Counts
<1>8. CASE UNCHANGED vars
  BY <1>8 DEF vars, LineStep
<1> QED BY <1>1, <1>2, <1>3, <1>4, <1>5, <1>6, <1>7, <1>8 DEF Next, AgentStep

-----------------------------------------------------------------------------
(* What is read is next in the line                                        *)

\* What was read before stays where it is, and nothing but done signals
\* follows what is read.
Longer(r) ==
    /\ Len(Line) + 1 \in DOMAIN Line' /\ Line'[Len(Line) + 1] = r
    /\ \A p \in DOMAIN Line : p \in DOMAIN Line' /\ Line'[p] = Line[p]
    /\ \A p \in DOMAIN Line' : p \in DOMAIN Line \/ p = Len(Line) + 1 \/ Line'[p] = None
    /\ DOMAIN Line = 1..Len(Line) /\ Len(Line) \in Nat

\* A read response, or a done signal alone, makes the line longer.
LEMMA LineGetsLonger ==
    ASSUME TypeOK, TypeOK', NEW r \in Response \cup {None}, yielded' = yielded,
           output' = Append(output, r) \/ output' = output \o <<r, None>>
    PROVE  Longer(r)
<1>1. LineParts /\ LineParts'
  BY LineHasParts, LineHasPartsNext
<1> DEFINE y == Len(yielded)
           o == Len(output)
<1>2. Len(Line) = y + o /\ DOMAIN Line = 1..Len(Line) /\ y \in Nat /\ o \in Nat
  BY <1>1 DEF LineParts
<1>3. output \in Seq(Response \cup {None})
  BY DEF TypeOK
<1>4. /\ Len(output') \in Nat /\ Len(output') >= o + 1
      /\ \A p \in 1..o : output'[p] = output[p]
      /\ output'[o + 1] = r
      /\ \A p \in 1..Len(output') : p > o + 1 => output'[p] = None
  <2>1. CASE output' = Append(output, r)
    BY <1>2, <1>3, <2>1
  <2>2. CASE output' = output \o <<r, None>>
    <3>1. /\ <<r, None>> \in Seq(Response \cup {None}) /\ Len(<<r, None>>) = 2
          /\ <<r, None>>[1] = r /\ <<r, None>>[2] = None
      OBVIOUS
    <3>2. /\ Len(output') = o + 2
          /\ \A p \in 1..(o + 2) :
                output'[p] = IF p <= o THEN output[p] ELSE <<r, None>>[p - o]
      BY <1>2, <1>3, <2>2, <3>1
    <3>3. /\ \A p \in 1..o : output'[p] = output[p]
          /\ output'[o + 1] = r
          /\ output'[o + 2] = None
      BY <1>2, <3>1, <3>2
    <3> QED BY <1>2, <3>2, <3>3
  <2> QED BY <2>1, <2>2
<1>5. /\ DOMAIN Line' = 1..(y + Len(output'))
      /\ \A p \in 1..y : Line'[p] = yielded[p]
      /\ \A p \in 1..Len(output') : Line'[y + p] = output'[p]
  BY <1>1 DEF LineParts
<1>6. /\ \A p \in 1..y : Line[p] = yielded[p]
      /\ \A p \in 1..o : Line[y + p] = output[p]
  BY <1>1 DEF LineParts
<1>7. ASSUME NEW p \in DOMAIN Line
      PROVE  p \in DOMAIN Line' /\ Line'[p] = Line[p]
  <2>1. CASE p \in 1..y
    BY <1>2, <1>4, <1>5, <1>6, <2>1
  <2>2. CASE p \notin 1..y
    <3>1. p - y \in 1..o /\ y + (p - y) = p
      BY <1>2, <1>7, <2>2
    <3>2. p - y \in 1..Len(output')
      BY <1>2, <1>4, <3>1
    <3>3. Line[p] = output[p - y] /\ Line'[p] = output'[p - y] /\ output'[p - y] = output[p - y]
      BY <1>4, <1>5, <1>6, <3>1, <3>2
    <3> QED BY <1>2, <1>4, <1>5, <1>7, <3>3
  <2> QED BY <2>1, <2>2
<1>8. Len(Line) + 1 \in DOMAIN Line' /\ Line'[Len(Line) + 1] = r
  <2>1. o + 1 \in 1..Len(output') /\ y + (o + 1) = Len(Line) + 1
    BY <1>2, <1>4
  <2>2. Line'[y + (o + 1)] = output'[o + 1]
    BY <1>5, <2>1
  <2> QED BY <1>2, <1>4, <1>5, <2>1, <2>2
<1>9. ASSUME NEW p \in DOMAIN Line', p \notin DOMAIN Line, p # Len(Line) + 1
      PROVE  Line'[p] = None
  <2>1. p - y \in 1..Len(output') /\ p - y > o + 1 /\ y + (p - y) = p
    BY <1>2, <1>4, <1>5, <1>9
  <2> QED BY <1>4, <1>5, <2>1
<1> QED BY <1>2, <1>7, <1>8, <1>9 DEF Longer

\* Reading keeps the order: the new response bears a number that none had.
LEMMA ReadsLine ==
    ASSUME TypeOK, TypeOK', LineInv, NEW a \in Agents, NEW r \in Response, Reads(a, r)
    PROVE  LineInv'
<1>1. Longer(r)
  BY LineGetsLonger DEF Reads
<1>2. LineParts /\ LineParts'
  BY LineHasParts, LineHasPartsNext
<1> DEFINE new == Len(items) + 1
           last == Len(Line) + 1
<1>3. /\ responses \in [Agents -> Nat] /\ responses'[a] = responses[a] + 1
      /\ \A b \in Agents : responses'[b] \in Nat /\ responses[b] <= responses'[b]
      /\ \A b \in Agents : b # a => responses'[b] = responses[b]
  <2>1. responses \in [Agents -> Nat] /\ responses' = [responses EXCEPT ![a] = responses[a] + 1]
    BY BoundsAssumption DEF TypeOK, Reads
  <2> QED BY <2>1
<1>4. /\ new \in Nat /\ DOMAIN items = 1..Len(items) /\ Len(items) \in Nat
      /\ \A i \in DOMAIN items : i \in DOMAIN items' /\ items'[i] = items[i]
      /\ \A i \in DOMAIN items' :
            \/ i \in DOMAIN items
            \/ i = new /\ items'[i].origin = a /\ items'[i].n = responses[a] + 1
      /\ \A i \in DOMAIN items' : items'[i] \in Item
  <2>1. items \in Seq(Item) /\ items' \in Seq(Item)
    BY DEF TypeOK
  <2>2. CASE items' = items
    BY <2>1, <2>2
  <2>3. CASE items' # items
    <3>1. PICK it \in Item :
            items' = Append(items, it) /\ it.origin = a /\ it.n = responses[a] + 1
      BY <2>3 DEF Reads
    <3> QED BY <2>1, <3>1
  <2> QED BY <2>2, <2>3
<1>5. r.agent = a /\ r.n = responses[a] + 1 /\ r # None
  BY NoneAssumption DEF Reads
<1>6. Counted'
  <2>1. ASSUME NEW i \in DOMAIN items', items'[i].origin \in Agents
        PROVE  items'[i].n <= responses'[items'[i].origin]
    <3>1. CASE i \in DOMAIN items
      <4>1. items'[i] = items[i] /\ items[i].n \in Nat
        BY <1>4, <3>1 DEF Item
      <4>2. items[i].n <= responses[items[i].origin]
        BY <2>1, <3>1, <4>1 DEF LineInv, Counted
      <4> QED BY <1>3, <2>1, <4>1, <4>2
    <3>2. CASE i \notin DOMAIN items
      BY <1>3, <1>4, <3>2
    <3> QED BY <3>1, <3>2
  <2>2. ASSUME NEW p \in DOMAIN Line', Line'[p] # None
        PROVE  Line'[p].n <= responses'[Line'[p].agent]
    <3>1. CASE p \in DOMAIN Line
      <4>1. Line'[p] = Line[p] /\ Line[p] \in Response
        BY <1>1, <1>2, <2>2, <3>1 DEF Longer, LineParts
      <4>2. Line[p].n <= responses[Line[p].agent] /\ Line[p].n \in Nat /\ Line[p].agent \in Agents
        BY <2>2, <3>1, <4>1 DEF LineInv, Counted, Response
      <4> QED BY <1>3, <4>1, <4>2
    <3>2. CASE p \notin DOMAIN Line
      <4>1. Line'[p] = r
        BY <1>1, <2>2, <3>2 DEF Longer
      <4> QED BY <1>3, <1>5, <4>1
    <3> QED BY <3>1, <3>2
  <2> QED BY <2>1, <2>2 DEF Counted
<1>7. Found'
  <2> SUFFICES ASSUME NEW b \in Agents, NEW n \in 1..responses'[b]
               PROVE  \E p \in DOMAIN Line' : Line'[p] # None /\ Line'[p].agent = b /\ Line'[p].n = n
    BY DEF Found
  <2>1. CASE n \in 1..responses[b]
    <3>1. PICK p \in DOMAIN Line : Line[p] # None /\ Line[p].agent = b /\ Line[p].n = n
      BY <2>1 DEF LineInv, Found
    <3> QED BY <1>1, <3>1 DEF Longer
  <2>2. CASE n \notin 1..responses[b]
    <3>1. b = a /\ n = responses[a] + 1
      BY <1>3, <2>2
    <3> QED BY <1>1, <1>5, <3>1 DEF Longer
  <2> QED BY <2>1, <2>2
<1>8. Ordered'
  <2> SUFFICES ASSUME NEW i \in DOMAIN items', NEW j \in DOMAIN items',
                      NEW p \in DOMAIN Line', NEW q \in DOMAIN Line',
                      j <= i, Line'[p] # None, Line'[q] # None,
                      BuiltFrom(items'[i], Line'[p]), BuiltFrom(items'[j], Line'[q])
               PROVE  q <= p
    BY DEF Ordered, BuiltFrom
  <2>1. \A k \in DOMAIN items : items[k].origin = a => items[k].n # responses[a] + 1
    <3> SUFFICES ASSUME NEW k \in DOMAIN items, items[k].origin = a
                 PROVE  items[k].n # responses[a] + 1
      OBVIOUS
    <3>1. items[k].n <= responses[a]
      BY DEF LineInv, Counted
    <3> QED BY <1>3, <1>4, <3>1 DEF Item
  <2>2. \A k \in DOMAIN Line : Line[k] # None /\ Line[k].agent = a => Line[k].n # responses[a] + 1
    <3> SUFFICES ASSUME NEW k \in DOMAIN Line, Line[k] # None, Line[k].agent = a
                 PROVE  Line[k].n # responses[a] + 1
      OBVIOUS
    <3>1. Line[k].n <= responses[a] /\ Line[k].n \in Nat
      BY <1>2 DEF LineInv, Counted, LineParts, Response
    <3> QED BY <1>3, <3>1
  <2>3. CASE p \notin DOMAIN Line
    <3>1. p = last
      BY <1>1, <2>3 DEF Longer
    <3>2. q \in DOMAIN Line \/ q = last
      BY <1>1 DEF Longer
    <3> QED BY <1>1, <3>1, <3>2 DEF Longer
  <2>4. CASE p \in DOMAIN Line
    <3>1. Line'[p] = Line[p]
      BY <1>1, <2>4 DEF Longer
    <3>2. i \in DOMAIN items
      BY <1>4, <2>2, <2>4, <3>1 DEF BuiltFrom
    <3>3. j \in DOMAIN items
      BY <1>4, <3>2
    <3>4. items'[i] = items[i] /\ items'[j] = items[j]
      BY <1>4, <3>2, <3>3
    <3>5. q \in DOMAIN Line
      <4>1. Line'[q] # r
        BY <1>5, <2>1, <3>3, <3>4 DEF BuiltFrom
      <4> QED BY <1>1, <4>1 DEF Longer
    <3>6. Line'[q] = Line[q]
      BY <1>1, <3>5 DEF Longer
    <3> QED BY <2>4, <3>1, <3>2, <3>3, <3>4, <3>5, <3>6 DEF LineInv, Ordered
  <2> QED BY <2>3, <2>4
<1> QED BY <1>6, <1>7, <1>8 DEF LineInv

-----------------------------------------------------------------------------
(* The other steps                                                         *)

\* A request of the caller is built from no response.
LEMMA AsksLine ==
    ASSUME TypeOK, LineInv, Asks
    PROVE  LineInv'
<1>1. PICK it \in Item : items' = Append(items, it) /\ it.origin = Caller
  BY DEF Asks
<1>2. UNCHANGED <<responses, output, yielded>> /\ Line' = Line
  BY DEF Asks, Line
<1>3. /\ DOMAIN items = 1..Len(items) /\ Len(items) \in Nat
      /\ \A i \in DOMAIN items' :
            \/ i \in DOMAIN items /\ items'[i] = items[i]
            \/ items'[i].origin = Caller
  BY <1>1 DEF TypeOK
<1>4. Caller \notin Agents
  BY AgentsAssumption
<1>5. Counted'
  BY <1>2, <1>3, <1>4 DEF LineInv, Counted
<1>6. Found'
  BY <1>2 DEF LineInv, Found
<1>7. Ordered'
  <2>1. \A p \in DOMAIN Line : Line[p] # None => Line[p].agent \in Agents
    BY LineHasParts DEF LineParts, Response
  <2> SUFFICES ASSUME NEW i \in DOMAIN items', NEW j \in DOMAIN items',
                      NEW p \in DOMAIN Line, NEW q \in DOMAIN Line,
                      j <= i, Line[p] # None, Line[q] # None,
                      BuiltFrom(items'[i], Line[p]), BuiltFrom(items'[j], Line[q])
               PROVE  q <= p
    BY <1>2 DEF Ordered, BuiltFrom
  <2>2. items'[i].origin # Caller /\ items'[j].origin # Caller
    BY <1>4, <2>1 DEF BuiltFrom
  <2>3. /\ i \in DOMAIN items /\ items'[i] = items[i]
        /\ j \in DOMAIN items /\ items'[j] = items[j]
    BY <1>3, <2>2
  <2> QED BY <2>3 DEF LineInv, Ordered
<1> QED BY <1>5, <1>6, <1>7 DEF LineInv

\* A done signal is no response.
LEMMA SignalsLine ==
    ASSUME TypeOK, TypeOK', LineInv, Signals
    PROVE  LineInv'
<1>1. Longer(None) /\ UNCHANGED <<items, responses>>
  BY LineGetsLonger DEF Signals
<1>2. \A p \in DOMAIN Line' : Line'[p] # None => p \in DOMAIN Line /\ Line'[p] = Line[p]
  BY <1>1 DEF Longer
<1>3. Counted'
  BY <1>1, <1>2 DEF LineInv, Counted
<1>4. Found'
  BY <1>1 DEF LineInv, Found, Longer
<1>5. Ordered'
  BY <1>1, <1>2 DEF LineInv, Ordered, BuiltFrom
<1> QED BY <1>3, <1>4, <1>5 DEF LineInv

\* Yielding moves nothing in the line.
LEMMA YieldsLine ==
    ASSUME TypeOK, LineInv, Yields
    PROVE  LineInv'
<1>1. yielded \in Seq(Response \cup {None}) /\ output \in Seq(Response \cup {None}) /\ output # <<>>
  BY DEF TypeOK, Yields
<1>2. Append(yielded, Head(output)) \o Tail(output) = yielded \o output
  BY <1>1
<1>3. Line' = Line /\ UNCHANGED <<items, responses>>
  BY <1>2 DEF Line, Yields
<1> QED BY <1>3 DEF LineInv, Counted, Found, Ordered, BuiltFrom

\* Counting takes a done signal out, and what follows it moves up.
LEMMA CountsLine ==
    ASSUME TypeOK, TypeOK', LineInv, Counts
    PROVE  LineInv'
<1> DEFINE at == Len(yielded) + 1
<1>1. LineParts /\ LineParts'
  BY LineHasParts, LineHasPartsNext
<1>2. /\ output \in Seq(Response \cup {None}) /\ output # <<>> /\ output[1] = None
      /\ output' = Tail(output) /\ UNCHANGED <<items, responses, yielded>>
  BY DEF TypeOK, Counts
<1>3. /\ Len(output') = Len(output) - 1 /\ Len(output) >= 1 /\ Len(output) \in Nat
      /\ \A p \in 1..Len(output') : output'[p] = output[p + 1]
  BY <1>2
<1>4. /\ at \in Nat /\ at \in DOMAIN Line /\ Line[at] = None
      /\ DOMAIN Line = 1..Len(Line) /\ Len(Line) \in Nat
      /\ DOMAIN Line' = 1..(Len(Line) - 1)
  <2>1. 1 \in 1..Len(output)
    BY <1>3
  <2> QED BY <1>1, <1>2, <1>3, <2>1 DEF LineParts
<1>5. ASSUME NEW p \in DOMAIN Line'
      PROVE  IF p < at THEN Line'[p] = Line[p] ELSE p + 1 \in DOMAIN Line /\ Line'[p] = Line[p + 1]
  <2>1. CASE p < at
    <3>1. p \in 1..Len(yielded)
      BY <1>4, <1>5, <2>1
    <3> QED BY <1>1, <1>2, <2>1, <3>1 DEF LineParts
  <2>2. CASE ~(p < at)
    <3> DEFINE k == p - Len(yielded)
    <3>1. /\ k \in 1..Len(output') /\ k + 1 \in 1..Len(output)
          /\ p = Len(yielded) + k /\ p + 1 = Len(yielded) + (k + 1)
      BY <1>1, <1>2, <1>3, <1>4, <1>5, <2>2 DEF LineParts
    <3> HIDE DEF k
    <3>2. Line'[p] = output'[k] /\ Line[p + 1] = output[k + 1]
      BY <1>1, <1>2, <3>1 DEF LineParts
    <3>3. Line'[p] = Line[p + 1]
      BY <1>3, <3>1, <3>2
    <3>4. p + 1 \in DOMAIN Line
      BY <1>4, <1>5
    <3> QED BY <2>2, <3>3, <3>4
  <2> QED BY <2>1, <2>2
<1> DEFINE From(p) == IF p < at THEN p ELSE p + 1
           To(p) == IF p < at THEN p ELSE p - 1
<1>6. \A p \in DOMAIN Line' : From(p) \in DOMAIN Line /\ Line'[p] = Line[From(p)]
  BY <1>4, <1>5
<1>7. \A p \in DOMAIN Line : Line[p] # None => To(p) \in DOMAIN Line' /\ Line'[To(p)] = Line[p]
  <2> SUFFICES ASSUME NEW p \in DOMAIN Line, p # at
               PROVE  To(p) \in DOMAIN Line' /\ From(To(p)) = p
    BY <1>4, <1>6
  <2>1. CASE p < at
    BY <1>4, <2>1
  <2>2. CASE ~(p < at)
    BY <1>4, <2>2
  <2> QED BY <2>1, <2>2
<1>8. \A p, q \in DOMAIN Line' : From(q) <= From(p) => q <= p
  BY <1>4
<1> HIDE DEF From, To, at
<1>9. Counted'
  BY <1>2, <1>6 DEF LineInv, Counted
<1>10. Found'
  BY <1>2, <1>7 DEF LineInv, Found
<1>11. Ordered'
  <2> SUFFICES ASSUME NEW i \in DOMAIN items, NEW j \in DOMAIN items,
                      NEW p \in DOMAIN Line', NEW q \in DOMAIN Line',
                      j <= i, Line'[p] # None, Line'[q] # None,
                      BuiltFrom(items[i], Line'[p]), BuiltFrom(items[j], Line'[q])
               PROVE  q <= p
    BY <1>2 DEF Ordered, BuiltFrom
  <2>1. From(q) <= From(p)
    BY <1>6 DEF LineInv, Ordered
  <2> QED BY <1>8, <2>1
<1> QED BY <1>9, <1>10, <1>11 DEF LineInv

\* Every step keeps the line in order.
LEMMA LinePreserved ==
    ASSUME TypeOK, TypeOK', LineInv, [Next]_vars
    PROVE  LineInv'
<1>1. CASE UNCHANGED <<items, responses, output, yielded>>
  BY <1>1 DEF LineInv, Counted, Found, Ordered, BuiltFrom, Line
<1>2. LineStep
  BY LineSteps
<1> QED BY <1>1, <1>2, ReadsLine, AsksLine, SignalsLine, YieldsLine, CountsLine DEF LineStep

\* The line is in order throughout the session.
LEMMA LineInvariance == Spec => []LineInv
<1>1. Init => LineInv
  <2> SUFFICES ASSUME Init PROVE LineInv
    OBVIOUS
  <2>1. Line = <<>> /\ items = <<>> /\ responses = [a \in Agents |-> 0]
    BY DEF Init, Line
  <2> QED BY <2>1 DEF LineInv, Counted, Found, Ordered
<1>2. TypeOK /\ TypeOK' /\ LineInv /\ [Next]_vars => LineInv'
  BY LinePreserved
<1> QED BY <1>1, <1>2, Typing, PTL DEF Spec

\* The caller reads the responses in the order in which the agents hear them:
\* whatever an agent was told of a peer the caller has seen or will see, and
\* no item is built from a response that the caller gets before that of an
\* earlier item.
THEOREM CallerHearsInOrder == Spec => []CallerOrder
<1>1. TypeOK /\ LineInv => CallerOrder
  <2> SUFFICES ASSUME TypeOK, LineInv, NEW i \in DOMAIN items, items[i].origin \in Agents
               PROVE  /\ \/ \E p \in DOMAIN yielded : BuiltFrom(items[i], yielded[p])
                         \/ \E p \in DOMAIN output :
                               output[p] # None /\ BuiltFrom(items[i], output[p])
                      /\ \A j \in 1..i : \A p, q \in DOMAIN yielded :
                            BuiltFrom(items[j], yielded[q]) /\ BuiltFrom(items[i], yielded[p])
                                => q <= p
    BY DEF CallerOrder
  <2>1. LineParts
    BY LineHasParts
  <2>2. \/ \E p \in DOMAIN yielded : BuiltFrom(items[i], yielded[p])
        \/ \E p \in DOMAIN output : output[p] # None /\ BuiltFrom(items[i], output[p])
    <3>1. items[i].n \in 1..responses[items[i].origin]
      <4>1. items[i] \in Item /\ responses \in [Agents -> Nat]
        BY BoundsAssumption DEF TypeOK
      <4>2. items[i].n \in Nat \ {0} /\ responses[items[i].origin] \in Nat
        BY <4>1 DEF Item
      <4> QED BY <4>2 DEF LineInv, Counted
    <3>2. PICK p \in DOMAIN Line : Line[p] # None /\ BuiltFrom(items[i], Line[p])
      BY <3>1 DEF LineInv, Found, BuiltFrom
    <3>3. CASE p <= Len(yielded)
      <4>1. p \in DOMAIN yielded /\ Line[p] = yielded[p]
        BY <2>1, <3>3 DEF LineParts
      <4> QED BY <3>2, <4>1
    <3>4. CASE ~(p <= Len(yielded))
      <4>1. p - Len(yielded) \in DOMAIN output /\ Len(yielded) + (p - Len(yielded)) = p
        BY <2>1, <3>4 DEF LineParts
      <4>2. Line[p] = output[p - Len(yielded)]
        BY <2>1, <4>1 DEF LineParts
      <4> QED BY <3>2, <4>1, <4>2
    <3> QED BY <3>3, <3>4
  <2>3. ASSUME NEW j \in 1..i, NEW p \in DOMAIN yielded, NEW q \in DOMAIN yielded,
               BuiltFrom(items[j], yielded[q]), BuiltFrom(items[i], yielded[p])
        PROVE  q <= p
    <3>1. /\ p \in DOMAIN Line /\ q \in DOMAIN Line
          /\ Line[p] = yielded[p] /\ Line[q] = yielded[q]
      BY <2>1 DEF LineParts
    <3>2. yielded[p] # None /\ yielded[q] # None
      BY NoneAssumption DEF TypeOK
    <3>3. j \in DOMAIN items /\ j <= i
      <4>1. DOMAIN items = 1..Len(items) /\ Len(items) \in Nat
        BY DEF TypeOK
      <4> QED BY <4>1
    <3> QED BY <2>3, <3>1, <3>2, <3>3 DEF LineInv, Ordered
  <2> QED BY <2>2, <2>3
<1> QED BY <1>1, Typing, LineInvariance, PTL

-----------------------------------------------------------------------------
(* The end of the session                                                  *)

DoneAt      == {k \in DOMAIN output : output[k] = None}
DoneReaders == {a \in Agents : reader[a] = "done"}

\* Every reader that is done has put one done signal, after all it read, and
\* the session finishes with the last of them.
EndInv ==
    /\ doneCount + Cardinality(DoneAt) = Cardinality(DoneReaders)
    /\ output # <<>> /\ DoneReaders = Agents => output[Len(output)] = None
    /\ session = "finished" => output = <<>> /\ DoneReaders = Agents

SignalsFinite == IsFiniteSet(DoneAt) /\ Cardinality(DoneAt) \in Nat

\* The done signals and the readers can be counted.
LEMMA DoneFinite ==
    ASSUME TypeOK
    PROVE  /\ IsFiniteSet(DoneAt) /\ Cardinality(DoneAt) \in Nat
           /\ IsFiniteSet(DoneReaders) /\ Cardinality(DoneReaders) \in Nat
           /\ Cardinality(DoneReaders) <= Cardinality(Agents) /\ Cardinality(Agents) \in Nat
           /\ Cardinality(DoneReaders) = Cardinality(Agents) => DoneReaders = Agents
<1>1. IsFiniteSet(1..Len(output)) /\ DoneAt \in SUBSET (1..Len(output))
  <2>1. Len(output) \in Nat /\ DOMAIN output = 1..Len(output)
    BY DEF TypeOK
  <2> QED BY <2>1, FS_Interval DEF DoneAt
<1>2. IsFiniteSet(DoneAt)
  BY <1>1, FS_Subset
<1>3. /\ IsFiniteSet(Agents) /\ DoneReaders \in SUBSET Agents
      /\ IsFiniteSet(DoneReaders) /\ Cardinality(DoneReaders) <= Cardinality(Agents)
      /\ Cardinality(DoneReaders) = Cardinality(Agents) => DoneReaders = Agents
  BY AgentsAssumption, FS_Subset DEF DoneReaders
<1> QED BY <1>2, <1>3, FS_CardinalityType

\* So they can in the next state.
LEMMA DoneFiniteNext == TypeOK' => SignalsFinite'
<1>1. TypeOK => SignalsFinite
  BY DoneFinite DEF SignalsFinite
<1> QED BY <1>1, PTL

\* A set of numbers moved down by one has as many elements.
LEMMA ShiftedCardinality ==
    ASSUME NEW S \in SUBSET (Nat \ {0}), IsFiniteSet(S), NEW T, T = {k - 1 : k \in S}
    PROVE  Cardinality(T) = Cardinality(S)
<1> DEFINE f == [k \in S |-> k - 1]
<1>1. f \in Bijection(S, T)
  <2>1. f \in [S -> T] /\ (\A a, b \in S : f[a] = f[b] => a = b) /\ \A t \in T : \E k \in S : f[k] = t
    OBVIOUS
  <2> HIDE DEF f
  <2> QED BY <2>1, Fun_IsBij
<1>2. ExistsBijection(S, T)
  BY <1>1 DEF ExistsBijection
<1> QED BY <1>2, FS_Bijection

\* Taking the head of the output queue moves the done signals, and takes one
\* out if it is one.
LEMMA HeadTaken ==
    ASSUME TypeOK, output # <<>>, output' = Tail(output)
    PROVE  /\ Cardinality(DoneAt') = Cardinality(DoneAt) - (IF Head(output) = None THEN 1 ELSE 0)
           /\ output' # <<>> => output'[Len(output')] = output[Len(output)]
<1>1. /\ output \in Seq(Response \cup {None}) /\ Len(output) \in Nat \ {0}
      /\ DOMAIN output = 1..Len(output) /\ Head(output) = output[1]
      /\ Len(output') = Len(output) - 1 /\ DOMAIN output' = 1..(Len(output) - 1)
      /\ \A k \in DOMAIN output' : output'[k] = output[k + 1]
  BY DEF TypeOK
<1>2. output' # <<>> => output'[Len(output')] = output[Len(output)]
  BY <1>1
<1> DEFINE S == DoneAt \ {1}
<1>f. IsFiniteSet(DoneAt)
  BY DoneFinite
<1>3. S \in SUBSET (Nat \ {0}) /\ IsFiniteSet(S)
  <2>1. IsFiniteSet(DoneAt \ {1})
    BY <1>f, FS_RemoveElement
  <2>2. DoneAt \subseteq 1..Len(output)
    BY <1>1 DEF DoneAt
  <2> QED BY <2>1, <2>2
<1>4. DoneAt' = {k - 1 : k \in S}
  <2>1. ASSUME NEW k \in DoneAt'
        PROVE  k + 1 \in S /\ k = (k + 1) - 1
    BY <1>1 DEF DoneAt
  <2>2. ASSUME NEW k \in S
        PROVE  k - 1 \in DoneAt'
    <3> DEFINE l == k - 1
    <3>1. l \in DOMAIN output' /\ k = l + 1 /\ output[k] = None
      BY <1>1 DEF DoneAt
    <3> HIDE DEF l
    <3>2. l \in DoneAt'
      BY <1>1, <3>1 DEF DoneAt
    <3> QED BY <3>2 DEF l
  <2> HIDE DEF S
  <2> QED BY <2>1, <2>2
<1>5. Cardinality(DoneAt') = Cardinality(S)
  BY <1>3, <1>4, ShiftedCardinality
<1>6. Cardinality(S) = Cardinality(DoneAt) - (IF 1 \in DoneAt THEN 1 ELSE 0)
  <2>1. Cardinality(DoneAt \ {1}) = IF 1 \in DoneAt THEN Cardinality(DoneAt) - 1 ELSE Cardinality(DoneAt)
    BY <1>f, FS_RemoveElement
  <2>2. Cardinality(DoneAt) \in Nat
    BY DoneFinite
  <2> QED BY <2>1, <2>2
<1>7. 1 \in DoneAt <=> Head(output) = None
  BY <1>1 DEF DoneAt
<1> QED BY <1>2, <1>5, <1>6, <1>7

\* A reader that gets done puts a done signal behind all it read.
LEMMA ReaderDone ==
    ASSUME TypeOK, EndInv, NEW a \in Agents, reader[a] # "done",
           reader' = [reader EXCEPT ![a] = "done"], UNCHANGED <<doneCount, session>>,
           \/ output' = Append(output, None)
           \/ \E r \in Response : output' = output \o <<r, None>>
    PROVE  EndInv'
<1>1. /\ output \in Seq(Response \cup {None}) /\ Len(output) \in Nat
      /\ DOMAIN output = 1..Len(output)
  BY DEF TypeOK
<1>2. /\ Len(output') \in Nat /\ Len(output') > Len(output) /\ DOMAIN output' = 1..Len(output')
      /\ \A k \in 1..Len(output) : output'[k] = output[k]
      /\ output'[Len(output')] = None
      /\ \A k \in 1..Len(output') : k > Len(output) /\ k # Len(output') => output'[k] # None
  <2>1. CASE output' = Append(output, None)
    BY <1>1, <2>1
  <2>2. CASE \E r \in Response : output' = output \o <<r, None>>
    <3>1. PICK r \in Response : output' = output \o <<r, None>>
      BY <2>2
    <3>2. /\ <<r, None>> \in Seq(Response \cup {None}) /\ Len(<<r, None>>) = 2
          /\ <<r, None>>[1] = r /\ <<r, None>>[2] = None /\ r # None
      BY NoneAssumption
    <3>3. /\ Len(output') = Len(output) + 2 /\ DOMAIN output' = 1..(Len(output) + 2)
          /\ \A p \in 1..(Len(output) + 2) :
                output'[p] = IF p <= Len(output) THEN output[p] ELSE <<r, None>>[p - Len(output)]
      BY <1>1, <3>1, <3>2
    <3>4. /\ \A p \in 1..Len(output) : output'[p] = output[p]
          /\ output'[Len(output) + 1] # None
          /\ output'[Len(output) + 2] = None
      BY <1>1, <3>2, <3>3
    <3> QED BY <1>1, <3>3, <3>4
  <2> QED BY <2>1, <2>2
<1>4. DoneAt' = DoneAt \cup {Len(output')} /\ Len(output') \notin DoneAt
  <2> DEFINE l == Len(output')
  <2>n. \A m, n \in Nat : n > m =>
            /\ n \notin 1..m /\ n \in 1..n /\ 1..m \subseteq 1..n
            /\ \A k \in 1..n : k \notin 1..m => k > m
    OBVIOUS
  <2>1. l \notin DOMAIN output /\ l \in DOMAIN output' /\ DOMAIN output \subseteq DOMAIN output'
    BY <1>1, <1>2, <2>n, Zenon
  <2>2. \A k \in DOMAIN output' : k \notin DOMAIN output /\ k # l => output'[k] # None
    <3>1. ASSUME NEW k \in 1..Len(output'), k \notin 1..Len(output)
          PROVE  k > Len(output)
      BY <1>1, <1>2, <2>n, <3>1, Zenon
    <3> QED BY <1>1, <1>2, <3>1, Zenon
  <2>3. \A k \in DOMAIN output : output'[k] = output[k]
    BY <1>1, <1>2, Zenon
  <2> HIDE DEF l
  <2>4. DoneAt' = DoneAt \cup {l} /\ l \notin DoneAt
    BY <1>2, <2>1, <2>2, <2>3 DEF DoneAt, l
  <2> QED BY <2>4 DEF l
<1>5. DoneReaders' = DoneReaders \cup {a} /\ a \notin DoneReaders
  BY DEF DoneReaders, TypeOK
<1>6. Cardinality(DoneAt') = Cardinality(DoneAt) + 1
  BY <1>4, DoneFinite, FS_AddElement
<1>7. Cardinality(DoneReaders') = Cardinality(DoneReaders) + 1
  BY <1>5, DoneFinite, FS_AddElement
<1>8. doneCount \in Nat /\ Cardinality(DoneAt) \in Nat /\ Cardinality(DoneReaders) \in Nat
  BY DoneFinite DEF TypeOK
<1>9. session # "finished" /\ session' = session /\ doneCount' = doneCount
  BY <1>5 DEF EndInv
<1>10. doneCount' + Cardinality(DoneAt') = Cardinality(DoneReaders')
  BY <1>6, <1>7, <1>8, <1>9 DEF EndInv
<1> QED BY <1>2, <1>9, <1>10, Zenon DEF EndInv

\* Cancelling the readers makes none of them done.
LEMMA NoneDoneByCancelling ==
    ASSUME TypeOK, reader' = [a \in Agents |-> Cancelled(reader[a])]
    PROVE  DoneReaders' = DoneReaders
BY DEF DoneReaders, Cancelled, TypeOK, TaskState

\* Every step keeps the account of the done signals.
LEMMA EndPreserved ==
    ASSUME TypeOK, EndInv, [Next]_vars
    PROVE  EndInv'
<1>c. /\ doneCount \in Nat /\ Cardinality(DoneAt) \in Nat /\ Cardinality(DoneReaders) \in Nat
      /\ Cardinality(DoneReaders) <= Cardinality(Agents) /\ Cardinality(Agents) \in Nat
      /\ Cardinality(DoneReaders) = Cardinality(Agents) => DoneReaders = Agents
  BY DoneFinite DEF TypeOK
<1>1. CASE UNCHANGED <<output, doneCount, reader, session>>
  BY <1>1 DEF EndInv, DoneAt, DoneReaders
<1>2. ASSUME FanOutEnds \/ (\E kind \in RequestKinds : FanOutRequest(kind))
             \/ (\E a \in Agents : PullItem(a) \/ PullSentinel(a)) \/ UNCHANGED vars
      PROVE  EndInv'
  BY <1>1, <1>2 DEF FanOutEnds, FanOutRequest, PullItem, PullSentinel, vars
<1>3. ASSUME NEW a \in Agents, NEW kind \in ResponseKinds, ReadResponse(a, kind)
      PROVE  EndInv'
  <2>1. PICK r \in Response : output' = Append(output, r)
    BY <1>3, ResponseReadType DEF ReadResponse
  <2>2. output \in Seq(Response \cup {None}) /\ r # None
    BY NoneAssumption DEF TypeOK
  <2>3. DoneAt' = DoneAt
    BY <2>1, <2>2 DEF DoneAt
  <2>4. UNCHANGED <<doneCount, reader, session>> /\ reader[a] = "running"
    BY <1>3 DEF ReadResponse, CanRespond
  <2>5. DoneReaders' = DoneReaders /\ DoneReaders # Agents
    BY <2>4 DEF DoneReaders
  <2> QED BY <2>3, <2>4, <2>5 DEF EndInv
<1>4. ASSUME NEW a \in Agents, RelayError(a)
      PROVE  EndInv'
  <2>1. ResponseRead(a, "artifact_update") \in Response
    BY <1>4, ResponseReadType DEF RelayError
  <2> QED BY <1>4, <2>1, ReaderDone DEF RelayError, CanRespond
<1>5. ASSUME NEW a \in Agents, EndOfStream(a) \/ StreamError(a) \/ ReaderCancelled(a)
      PROVE  EndInv'
  <2>1. ReaderFinally(a) /\ reader[a] # "done"
    BY <1>5 DEF EndOfStream, StreamError, ReaderCancelled
  <2> QED BY <2>1, ReaderDone DEF ReaderFinally
<1>6. CASE YieldResponse
  <2>1. /\ Cardinality(DoneAt') = Cardinality(DoneAt)
        /\ output' # <<>> => output'[Len(output')] = output[Len(output)]
    BY <1>6, <1>c, HeadTaken DEF YieldResponse
  <2>2. DoneReaders' = DoneReaders /\ UNCHANGED <<doneCount, session>> /\ session # "finished" /\ output # <<>>
    BY <1>6 DEF YieldResponse, DoneReaders
  <2> QED BY <2>1, <2>2 DEF EndInv
<1>7. CASE CountDone
  <2>1. /\ Cardinality(DoneAt') = Cardinality(DoneAt) - 1
        /\ output' # <<>> => output'[Len(output')] = output[Len(output)]
    BY <1>7, HeadTaken DEF CountDone
  <2>2. /\ DoneReaders' = DoneReaders /\ doneCount' = doneCount + 1 /\ session' = session
        /\ session # "finished" /\ output # <<>>
    BY <1>7 DEF CountDone, DoneReaders
  <2> QED BY <1>c, <2>1, <2>2 DEF EndInv
<1>8. CASE Finish
  <2>1. /\ Cardinality(DoneAt') = Cardinality(DoneAt) - 1
        /\ output' # <<>> => output'[Len(output')] = output[Len(output)]
        /\ TypeOK'
    BY <1>8, HeadTaken, TypeStep DEF Finish
  <2>2. DoneReaders' = DoneReaders /\ doneCount' = doneCount + 1
    BY <1>8, NoneDoneByCancelling DEF Finish, Finalise
  <2>3. doneCount + 1 >= Cardinality(Agents) /\ output # <<>>
    BY <1>8 DEF Finish, LastAgent
  <2>4. doneCount' + Cardinality(DoneAt') = Cardinality(DoneReaders)
    BY <1>c, <2>1, <2>2 DEF EndInv
  <2>5. DoneAt' \subseteq DOMAIN output' /\ IsFiniteSet(DoneAt') /\ Cardinality(DoneAt') \in Nat
    BY <2>1, DoneFiniteNext DEF SignalsFinite, DoneAt
  <2>6. DoneReaders = Agents /\ Cardinality(DoneAt') = 0
    BY <1>c, <2>2, <2>3, <2>4, <2>5
  <2>7. DoneAt' = {}
    BY <2>5, <2>6, FS_EmptySet
  <2>8. output' = <<>>
    <3> SUFFICES ASSUME output' # <<>> PROVE FALSE
      OBVIOUS
    <3>1. output'[Len(output')] = None
      BY <2>1, <2>3, <2>6 DEF EndInv
    <3>2. Len(output') \in DOMAIN output'
      <4>1. output' \in Seq(Response \cup {None})
        BY <2>1 DEF TypeOK
      <4> QED BY <4>1
    <3> QED BY <2>7, <3>1, <3>2 DEF DoneAt
  <2> QED BY <2>2, <2>4, <2>6, <2>8 DEF EndInv
<1>9. CASE Close
  <2>1. UNCHANGED <<output, doneCount>> /\ session' # "finished" /\ DoneReaders' = DoneReaders
    BY <1>9, NoneDoneByCancelling DEF Close, Finalise
  <2> QED BY <2>1 DEF EndInv, DoneAt
<1> QED
  BY <1>2, <1>3, <1>4, <1>5, <1>6, <1>7, <1>8, <1>9 DEF Next, AgentStep

\* The account of the done signals is kept throughout the session.
LEMMA EndInvariance == Spec => []EndInv
<1>1. Init => EndInv
  <2> SUFFICES ASSUME Init PROVE EndInv
    OBVIOUS
  <2>1. DoneAt = {} /\ DoneReaders = {}
    BY DEF Init, DoneAt, DoneReaders
  <2>2. doneCount = 0 /\ output = <<>> /\ session # "finished"
    BY DEF Init
  <2> QED BY <2>1, <2>2, FS_EmptySet DEF EndInv
<1>2. TypeOK /\ EndInv /\ [Next]_vars => EndInv'
  BY EndPreserved
<1> QED BY <1>1, <1>2, Typing, PTL DEF Spec

\* A session that ended by itself lost no response: every reader is done,
\* nothing is left on the output queue and the caller was given every response
\* that was read.
THEOREM EveryResponseYielded == Spec => []NoResponseLost
<1>1. TypeOK /\ LineInv /\ EndInv => NoResponseLost
  <2> SUFFICES ASSUME TypeOK, LineInv, EndInv, session = "finished"
               PROVE  /\ output = <<>>
                      /\ \A a \in Agents :
                            /\ reader[a] = "done"
                            /\ \A n \in 1..responses[a] : \E p \in DOMAIN yielded :
                                  yielded[p].agent = a /\ yielded[p].n = n
    BY DEF NoResponseLost
  <2>1. output = <<>> /\ \A a \in Agents : reader[a] = "done"
    BY DEF EndInv, DoneReaders
  <2>2. Line = yielded
    BY <2>1 DEF Line, TypeOK
  <2> QED BY <2>1, <2>2 DEF LineInv, Found
<1> QED BY <1>1, Typing, LineInvariance, EndInvariance, PTL

=============================================================================
