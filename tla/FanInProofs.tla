---------------------------- MODULE FanInProofs ----------------------------
(***************************************************************************)
(* Proofs about FanIn for any set of calls, any capacity of the inboxes    *)
(* and any number of executions: the inbox that the look-up finds is that  *)
(* of the execution under way, the LLM is called only with something new   *)
(* to read, and no message is ever in two places.                          *)
(***************************************************************************)
EXTENDS FanIn, FiniteSetTheorems, TLAPS

\* An execution is under way, and it is past RegisterInbox.
Active(e)     == phase[e] \notin {"none", "ended"}
Registered(e) == Active(e) /\ phase[e] # "entered"

(***************************************************************************)
(* The inductive invariant.  The registry names the execution past the     *)
(* registration, which takes that there is one execution at a time: else   *)
(* the deregistration of one would remove the inbox of another.  What the  *)
(* LLM is called with was there in every phase from which the call is made.*)
(***************************************************************************)
OneActive    == \A d, e \in Execs : Active(d) /\ Active(e) => d = e
RegistryHeld == \A e \in Execs : Registered(e) => registry = e
RegistryLive == registry # NoInbox => registry \in Execs /\ Registered(registry)
InputWaits   == \A e \in Execs :
    phase[e] \in {"entered", "registered", "submitted", "llm", "poll"} => unanswered[e]

IInv == TypeOK /\ OneActive /\ RegistryHeld /\ RegistryLive /\ InputWaits

-----------------------------------------------------------------------------
(* The initial state and one lemma for the steps of each side.             *)

\* The invariant holds when the server starts the first execution.
LEMMA InitEstablishesIInv == Init => IInv
<1> USE FanInAssumption
<1>1. ASSUME Init PROVE TypeOK
  <2>1. chat \in [Execs -> Seq(Messages)]
    <3>1. <<Opening>> \in Seq(Messages) /\ <<>> \in Seq(Messages)
      BY DEF Messages
    <3> QED BY <1>1, <3>1 DEF Init
  <2>2. inbox \in [Execs -> Seq(Calls)] /\ \A e \in Execs : Len(inbox[e]) <= InboxCap
    BY <1>1 DEF Init
  <2>3. /\ call \in [Calls -> CallStates]
        /\ found \in [Calls -> Execs \cup {NoInbox}]
        /\ registry \in Execs \cup {NoInbox}
        /\ known \in BOOLEAN
    BY <1>1 DEF Init, CallStates, NoInbox
  <2>4. phase \in [Execs -> Phases]
    BY <1>1 DEF Init, Phases
  <2>5. ctxDone \in [Execs -> BOOLEAN] /\ unanswered \in [Execs -> BOOLEAN]
    BY <1>1 DEF Init
  <2> QED BY <2>1, <2>2, <2>3, <2>4, <2>5 DEF TypeOK
<1>2. ASSUME Init PROVE OneActive /\ RegistryHeld /\ RegistryLive /\ InputWaits
  <2>1. \A e \in Execs : Active(e) => e = 1 /\ phase[e] = "entered" /\ unanswered[e]
    BY <1>2 DEF Init, Active
  <2>2. OneActive /\ RegistryHeld
    BY <2>1 DEF OneActive, RegistryHeld, Registered
  <2>3. RegistryLive
    BY <1>2 DEF Init, RegistryLive
  <2>4. InputWaits
    BY <2>1 DEF InputWaits, Active
  <2> QED BY <2>2, <2>3, <2>4
<1> QED BY <1>1, <1>2 DEF IInv

\* A call changes no execution under way and never the registry: at most it
\* starts an execution, when no other is.
LEMMA CallPreservesIInv ==
    ASSUME IInv, NEW c \in Calls, Call(c) PROVE IInv'
<1> USE FanInAssumption DEF IInv
<1>1. CASE CallArrives(c) \/ LookUp(c) \/ SendToInbox(c) \/ CallCancelled(c)
           \/ ReturnTask(c) \/ Refuse(c)
  <2>1. /\ registry' = registry /\ phase' = phase /\ unanswered' = unanswered
        /\ ctxDone' = ctxDone /\ chat' = chat /\ known' = known
    BY <1>1 DEF CallArrives, LookUp, SendToInbox, CallCancelled, ReturnTask, Refuse, evars
  <2>2. call' \in [Calls -> CallStates]
    BY <1>1 DEF TypeOK, CallStates, CallArrives, LookUp, SendToInbox, CallCancelled,
                ReturnTask, Refuse, Becomes
  <2>3. found' \in [Calls -> Execs \cup {NoInbox}]
    BY <1>1 DEF TypeOK, CallArrives, LookUp, SendToInbox, CallCancelled, ReturnTask,
                Refuse, cvars
  <2>4. inbox' \in [Execs -> Seq(Calls)] /\ \A e \in Execs : Len(inbox'[e]) <= InboxCap
    <3>1. CASE SendToInbox(c)
      <4>1. CASE found[c] \in Execs
        <5>1. Len(inbox[found[c]]) < InboxCap
          BY <3>1 DEF SendToInbox, HasRoom
        <5>2. inbox[found[c]] \in Seq(Calls)
          BY <4>1 DEF TypeOK
        <5>3. Append(inbox[found[c]], c) \in Seq(Calls)
              /\ Len(Append(inbox[found[c]], c)) <= InboxCap
          BY <5>1, <5>2
        <5> QED BY <3>1, <4>1, <5>3 DEF SendToInbox, TypeOK
      <4>2. CASE found[c] \notin Execs
        BY <3>1, <4>2 DEF SendToInbox, TypeOK
      <4> QED BY <4>1, <4>2
    <3>2. CASE ~SendToInbox(c)
      BY <1>1, <3>2 DEF TypeOK, CallArrives, LookUp, CallCancelled, ReturnTask, Refuse
    <3> QED BY <3>1, <3>2
  <2>5. TypeOK'
    BY <2>1, <2>2, <2>3, <2>4 DEF TypeOK
  <2>6. (OneActive /\ RegistryHeld /\ RegistryLive /\ InputWaits)'
    BY <2>1 DEF OneActive, RegistryHeld, RegistryLive, InputWaits, Active, Registered
  <2> QED BY <2>5, <2>6
<1>2. ASSUME NEW e \in Execs, StartExecution(c, e) PROVE IInv'
  <2>1. /\ phase' = [phase EXCEPT ![e] = "entered"]
        /\ chat' = [chat EXCEPT ![e] = <<c>>]
        /\ unanswered' = [unanswered EXCEPT ![e] = TRUE]
        /\ call' = [call EXCEPT ![c] = "executing"]
        /\ UNCHANGED <<found, registry, inbox, ctxDone, known>>
    BY <1>2 DEF StartExecution, Becomes
  <2>2. \A d \in Execs : ~Active(d)
    BY <1>2 DEF StartExecution, Idle, Active
  <2>3. <<c>> \in Seq(Messages)
    BY DEF Messages
  <2>4. TypeOK'
    BY <2>1, <2>3 DEF TypeOK, CallStates, Phases
  <2>5. OneActive' /\ InputWaits'
    BY <2>1, <2>2 DEF OneActive, InputWaits, Active, TypeOK
  <2>6. registry = NoInbox
    BY <2>2 DEF RegistryLive, Registered
  <2>7. RegistryHeld' /\ RegistryLive'
    BY <2>1, <2>2, <2>6 DEF RegistryHeld, RegistryLive, Registered, Active, TypeOK
  <2> QED BY <2>4, <2>5, <2>7
<1> QED BY <1>1, <1>2 DEF Call

\* Only the execution under way moves.  It enters the registry first of all and
\* leaves it last of all, and gets to a call of the LLM with input alone.
LEMMA ExecutionPreservesIInv ==
    ASSUME IInv, NEW e \in Execs, Execution(e) PROVE IInv'
<1> USE FanInAssumption DEF IInv
<1> DEFINE Rest == OneActive' /\ RegistryHeld' /\ RegistryLive' /\ InputWaits'
<1>1. CASE RegisterInbox(e)
  <2>1. TypeOK'
    BY <1>1 DEF RegisterInbox, Goes, TypeOK, Phases, cvars
  <2>2. \A d \in Execs : Active(d) => d = e
    BY <1>1 DEF RegisterInbox, OneActive, Active
  <2>3. Rest
    BY <1>1, <2>2 DEF RegisterInbox, Goes, OneActive, RegistryHeld, RegistryLive,
                      InputWaits, Active, Registered, TypeOK
  <2> QED BY <2>1, <2>3
<1>2. CASE YieldTask(e)
  <2>1. TypeOK'
    BY <1>2 DEF YieldTask, Goes, TypeOK, Phases, cvars
  <2>2. Rest
    BY <1>2 DEF YieldTask, Goes, OneActive, RegistryHeld, RegistryLive,
                InputWaits, Active, Registered, TypeOK
  <2> QED BY <2>1, <2>2
<1>3. CASE YieldWorking(e)
  <2>1. TypeOK'
    BY <1>3 DEF YieldWorking, Goes, TypeOK, Phases, cvars
  <2>2. Rest
    BY <1>3 DEF YieldWorking, Goes, OneActive, RegistryHeld, RegistryLive,
                InputWaits, Active, Registered, TypeOK
  <2> QED BY <2>1, <2>2
<1>4. CASE YieldRefused(e)
  <2>1. TypeOK'
    BY <1>4 DEF YieldRefused, Goes, TypeOK, Phases, cvars
  <2>2. Rest
    BY <1>4 DEF YieldRefused, Goes, OneActive, RegistryHeld, RegistryLive,
                InputWaits, Active, Registered, TypeOK
  <2> QED BY <2>1, <2>2
<1>5. CASE DeregisterInbox(e)
  <2>1. TypeOK'
    BY <1>5 DEF DeregisterInbox, Goes, TypeOK, Phases, cvars
  <2>2. \A d \in Execs : Active(d) => d = e
    BY <1>5 DEF DeregisterInbox, OneActive, Active
  <2>3. Rest
    BY <1>5, <2>2 DEF DeregisterInbox, Goes, OneActive, RegistryHeld, RegistryLive,
                      InputWaits, Active, Registered, TypeOK
  <2> QED BY <2>1, <2>3
<1>6. ASSUME NEW p \in {"tools", "wait"}, LLMAnswers(e, p) PROVE IInv'
  <2>1. TypeOK'
    BY <1>6 DEF LLMAnswers, Goes, TypeOK, Phases, cvars
  <2>2. Rest
    BY <1>6 DEF LLMAnswers, Goes, OneActive, RegistryHeld, RegistryLive,
                InputWaits, Active, Registered, TypeOK
  <2> QED BY <2>1, <2>2
<1>7. CASE LLMFails(e)
  <2>1. TypeOK'
    BY <1>7 DEF LLMFails, Goes, TypeOK, Phases, cvars
  <2>2. Rest
    BY <1>7 DEF LLMFails, Goes, OneActive, RegistryHeld, RegistryLive,
                InputWaits, Active, Registered, TypeOK
  <2> QED BY <2>1, <2>2
<1>8. CASE ToolsDone(e)
  <2>1. TypeOK'
    BY <1>8 DEF ToolsDone, Goes, TypeOK, Phases, cvars
  <2>2. Rest
    BY <1>8 DEF ToolsDone, Goes, OneActive, RegistryHeld, RegistryLive,
                InputWaits, Active, Registered, TypeOK
  <2> QED BY <2>1, <2>2
<1>9. CASE ReadInbox(e)
  <2>1. /\ inbox[e] \in Seq(Calls) /\ inbox[e] # <<>> /\ Len(inbox[e]) <= InboxCap
        /\ chat[e] \in Seq(Messages)
    BY <1>9 DEF ReadInbox, TypeOK
  <2>2. /\ Tail(inbox[e]) \in Seq(Calls) /\ Len(Tail(inbox[e])) <= InboxCap
        /\ Head(inbox[e]) \in Messages
    BY <2>1 DEF Messages
  <2>3. Append(chat[e], Head(inbox[e])) \in Seq(Messages)
    BY <2>1, <2>2
  <2>4. inbox' \in [Execs -> Seq(Calls)] /\ \A d \in Execs : Len(inbox'[d]) <= InboxCap
    BY <1>9, <2>2 DEF ReadInbox, TypeOK
  <2>5. TypeOK'
    BY <1>9, <2>3, <2>4 DEF ReadInbox, Goes, TypeOK, Phases, cvars
  <2>6. Rest
    BY <1>9 DEF ReadInbox, Goes, OneActive, RegistryHeld, RegistryLive,
                InputWaits, Active, Registered, TypeOK
  <2> QED BY <2>5, <2>6
<1>10. CASE PollDefault(e)
  <2>1. TypeOK'
    BY <1>10 DEF PollDefault, Goes, TypeOK, Phases, cvars
  <2>2. Rest
    BY <1>10 DEF PollDefault, Goes, OneActive, RegistryHeld, RegistryLive,
                 InputWaits, Active, Registered, TypeOK
  <2> QED BY <2>1, <2>2
<1>11. CASE LoopDone(e)
  <2>1. TypeOK'
    BY <1>11 DEF LoopDone, Goes, TypeOK, Phases, cvars
  <2>2. Rest
    BY <1>11 DEF LoopDone, Goes, OneActive, RegistryHeld, RegistryLive,
                 InputWaits, Active, Registered, TypeOK
  <2> QED BY <2>1, <2>2
<1> QED
  BY <1>1, <1>2, <1>3, <1>4, <1>5, <1>6, <1>7, <1>8, <1>9, <1>10, <1>11 DEF Execution

\* A context that is done only shows in what the execution does next.
LEMMA ContextPreservesIInv ==
    ASSUME IInv, NEW e \in Execs, ContextDone(e) PROVE IInv'
<1> USE DEF IInv
<1>1. TypeOK'
  BY DEF ContextDone, TypeOK, cvars
<1>2. (OneActive /\ RegistryHeld /\ RegistryLive /\ InputWaits)'
  BY DEF ContextDone, OneActive, RegistryHeld, RegistryLive, InputWaits, Active, Registered
<1> QED BY <1>1, <1>2

\* Nothing else happens, and what does not happen changes nothing.
LEMMA StutterPreservesIInv == IInv /\ UNCHANGED vars => IInv'
BY DEF IInv, vars, cvars, evars, TypeOK, OneActive, RegistryHeld, RegistryLive,
       InputWaits, Active, Registered

\* IInv is an invariant of FanIn.
LEMMA IInvHolds == Spec => []IInv
<1>1. IInv /\ [Next]_vars => IInv'
  BY CallPreservesIInv, ExecutionPreservesIInv, ContextPreservesIInv,
     StutterPreservesIInv DEF Next
<1> QED BY InitEstablishesIInv, <1>1, PTL DEF Spec

-----------------------------------------------------------------------------
(* The theorems.                                                           *)

\* The variables keep their types and no inbox exceeds its capacity, whatever
\* the calls and executions do.
THEOREM Typing == Spec => []TypeOK
<1>1. IInv => TypeOK
  BY DEF IInv
<1> QED BY <1>1, IInvHolds, PTL

\* fanin.go:51-52 and agent.go:56-59: from the first yield on, a message for
\* the task finds the inbox of the execution under way, and the entry does not
\* outlive that execution.
THEOREM RegistryNamesTheRunning == Spec => []InboxOfTheRunning
<1>1. IInv => InboxOfTheRunning
  <2>1. SUFFICES ASSUME IInv PROVE InboxOfTheRunning
    OBVIOUS
  <2>2. \A e \in Execs : phase[e] \in Phases
    BY <2>1 DEF IInv, TypeOK
  <2> QED BY <2>1, <2>2 DEF IInv, InboxOfTheRunning, RegistryHeld, RegistryLive,
                            Active, Registered, Phases
<1> QED BY <1>1, IInvHolds, PTL

\* agent.go:104-208: however the tool results, the messages of the inbox and
\* the end of the context interleave, the LLM is never called twice on the
\* same conversation.
THEOREM LLMHasInput == Spec => []InputBeforeLLM
<1>1. IInv => InputBeforeLLM
  BY DEF IInv, InputWaits, InputBeforeLLM
<1> QED BY <1>1, IInvHolds, PTL

-----------------------------------------------------------------------------
(* Where the messages are                                                  *)

\* Message c is in sequence s; and it is there once at most.
In(s, c)   == \E k \in DOMAIN s : s[k] = c
Once(s, c) == \A k, l \in DOMAIN s : s[k] = c /\ s[l] = c => k = l

\* The call is past its send; execution e, chat and inbox together, has c; and
\* it was c that started it.
Delivered(c) == call[c] \in {"getTask", "returned", "noReply"}
Has(e, c)    == In(inbox[e], c) \/ In(chat[e], c)
Starts(e, c) == chat[e] # <<>> /\ chat[e][1] = c

(***************************************************************************)
(* What MessageInOnePlace takes to be inductive.  A look-up finds an       *)
(* execution, so that a send has a channel to go to; and an execution that *)
(* has not started has read nothing, so that the start of it loses nothing.*)
(***************************************************************************)
SendersFound == \A c \in Calls : call[c] = "sending" => found[c] \in Execs
NothingYet   == \A e \in Execs : phase[e] = "none" => chat[e] = <<>>
Unrepeated   == \A c \in Calls : \A e \in Execs :
    Once(inbox[e], c) /\ Once(chat[e], c) /\ ~(In(inbox[e], c) /\ In(chat[e], c))
Whereabouts(c) ==
    /\ Delivered(c) => found[c] \in Execs /\ \A e \in Execs : Has(e, c) <=> e = found[c]
    /\ call[c] = "executing" => \A e \in Execs : Has(e, c) <=> Starts(e, c)
    /\ ~Delivered(c) /\ call[c] # "executing" => \A e \in Execs : ~Has(e, c)

Placed == SendersFound /\ NothingYet /\ Unrepeated /\ \A c \in Calls : Whereabouts(c)

\* Appending adds what is appended, and repeats nothing that was not there.
LEMMA InAppended ==
    ASSUME NEW S, NEW s \in Seq(S), NEW x \in S, NEW c
    PROVE  /\ In(Append(s, x), c) <=> In(s, c) \/ x = c
           /\ Once(s, c) /\ (x = c => ~In(s, c)) => Once(Append(s, x), c)
<1> DEFINE t == Append(s, x)
<1>1. /\ DOMAIN s = 1..Len(s) /\ Len(s) \in Nat
      /\ DOMAIN t = DOMAIN s \cup {Len(s) + 1} /\ Len(s) + 1 \notin DOMAIN s
      /\ t[Len(s) + 1] = x /\ \A k \in DOMAIN s : t[k] = s[k]
  OBVIOUS
<1> HIDE DEF t
<1>2. In(t, c) <=> In(s, c) \/ x = c
  BY <1>1, Zenon DEF In
<1>3. Once(s, c) /\ (x = c => ~In(s, c)) => Once(t, c)
  BY <1>1, Zenon DEF In, Once
<1> QED BY <1>2, <1>3 DEF t

\* Without its head a sequence has what it had besides.
LEMMA InTail ==
    ASSUME NEW S, NEW s \in Seq(S), s # <<>>, NEW c
    PROVE  /\ In(s, Head(s))
           /\ Once(s, c) => Once(Tail(s), c) /\ (In(Tail(s), c) <=> In(s, c) /\ c # Head(s))
<1> DEFINE t == Tail(s)
<1>1. /\ DOMAIN s = 1..Len(s) /\ Len(s) \in Nat \ {0} /\ Head(s) = s[1]
      /\ DOMAIN t = 1..(Len(s) - 1) /\ \A k \in DOMAIN t : t[k] = s[k + 1]
  OBVIOUS
<1> HIDE DEF t
<1>2. In(s, Head(s))
  BY <1>1 DEF In
<1>3. \A k \in DOMAIN t : k + 1 \in DOMAIN s /\ k + 1 # 1
  BY <1>1
<1>4. \A k \in DOMAIN s : k # 1 => k - 1 \in DOMAIN t /\ t[k - 1] = s[k]
  BY <1>1
<1>5. ASSUME Once(s, c)
      PROVE  Once(t, c) /\ (In(t, c) <=> In(s, c) /\ c # Head(s))
  <2>1. Once(t, c)
    <3> SUFFICES ASSUME NEW k \in DOMAIN t, NEW l \in DOMAIN t, t[k] = c, t[l] = c
                 PROVE  k = l
      BY DEF Once
    <3>1. k + 1 = l + 1
      BY <1>1, <1>3, <1>5 DEF Once
    <3> QED BY <1>1, <3>1
  <2>2. ASSUME In(t, c) PROVE In(s, c) /\ c # Head(s)
    <3>1. PICK k \in DOMAIN t : t[k] = c
      BY <2>2 DEF In
    <3>2. k + 1 \in DOMAIN s /\ k + 1 # 1 /\ s[k + 1] = c /\ 1 \in DOMAIN s
      BY <1>1, <1>3, <3>1
    <3> QED BY <1>1, <1>5, <3>2 DEF In, Once
  <2>3. ASSUME In(s, c), c # Head(s) PROVE In(t, c)
    BY <1>1, <1>4, <2>3 DEF In
  <2> QED BY <2>1, <2>2, <2>3
<1> QED BY <1>2, <1>5 DEF t

\* A step that leaves inboxes and chats alone moves no message.
LEMMA PlacesKept ==
    ASSUME Placed, UNCHANGED <<inbox, chat>>,
           \A e \in Execs : phase'[e] = "none" => phase[e] = "none",
           \A c \in Calls : /\ call'[c] = "sending" => found'[c] \in Execs
                            /\ Delivered(c)' <=> Delivered(c)
                            /\ call'[c] = "executing" <=> call[c] = "executing"
                            /\ Delivered(c) => found'[c] = found[c]
    PROVE  Placed'
<1>1. SendersFound' /\ NothingYet' /\ Unrepeated'
  BY DEF Placed, SendersFound, NothingYet, Unrepeated, In, Once
<1>2. \A c \in Calls : \A e \in Execs : (Has(e, c)' <=> Has(e, c)) /\ (Starts(e, c)' <=> Starts(e, c))
  BY DEF Has, Starts, In
<1>3. \A c \in Calls : Whereabouts(c)'
  BY <1>2 DEF Placed, Whereabouts
<1> QED BY <1>1, <1>3 DEF Placed

\* A call moves its own message alone: to the inbox it had found, or into the
\* chat of the execution it starts.
LEMMA CallPlaces ==
    ASSUME IInv, Placed, NEW c \in Calls, Call(c) PROVE Placed'
<1>t. TypeOK
  BY DEF IInv
<1>1. CASE CallArrives(c) \/ CallCancelled(c) \/ ReturnTask(c) \/ Refuse(c)
  <2>1. UNCHANGED <<inbox, chat, phase, found>>
    BY <1>1 DEF CallArrives, CallCancelled, ReturnTask, Refuse, evars
  <2>2. \A d \in Calls : d # c => call'[d] = call[d]
    BY <1>1, <1>t DEF CallArrives, CallCancelled, ReturnTask, Refuse, Becomes, TypeOK
  <2>3. /\ call[c] \notin {"executing", "returned", "noReply"} /\ call'[c] \notin {"sending", "executing"}
        /\ call[c] = "getTask" <=> call'[c] \in {"getTask", "returned", "noReply"}
    BY <1>1, <1>t DEF CallArrives, CallCancelled, ReturnTask, Refuse, Becomes, TypeOK
  <2>4. (Delivered(c)' <=> Delivered(c)) /\ \A d \in Calls : d # c => (Delivered(d)' <=> Delivered(d))
    BY <2>2, <2>3 DEF Delivered
  <2>5. \A d \in Calls : call'[d] = "sending" => found'[d] \in Execs
    BY <2>1, <2>2, <2>3 DEF Placed, SendersFound
  <2> QED BY <2>1, <2>2, <2>3, <2>4, <2>5, PlacesKept
<1>2. CASE LookUp(c)
  <2>1. /\ UNCHANGED <<inbox, chat, phase>>
        /\ \A d \in Calls : d # c => call'[d] = call[d] /\ found'[d] = found[d]
        /\ call[c] = "lookup" /\ call'[c] \in {"sending", "delegating"}
        /\ call'[c] = "sending" => found'[c] = registry /\ registry # NoInbox
    BY <1>2, <1>t DEF LookUp, Becomes, evars, TypeOK
  <2>2. call'[c] = "sending" => found'[c] \in Execs
    BY <2>1, <1>t DEF TypeOK
  <2>3. ~Delivered(c)' /\ ~Delivered(c) /\ \A d \in Calls : d # c => (Delivered(d)' <=> Delivered(d))
    BY <2>1 DEF Delivered
  <2>4. \A d \in Calls : call'[d] = "sending" => found'[d] \in Execs
    BY <2>1, <2>2 DEF Placed, SendersFound
  <2> QED BY <2>1, <2>3, <2>4, PlacesKept
<1>3. CASE SendToInbox(c)
  <2> DEFINE f == found[c]
  <2>1. /\ UNCHANGED <<chat, phase, found>> /\ f \in Execs /\ inbox[f] \in Seq(Calls)
        /\ inbox'[f] = Append(inbox[f], c) /\ \A e \in Execs : e # f => inbox'[e] = inbox[e]
        /\ call[c] = "sending" /\ call'[c] = "getTask"
        /\ \A d \in Calls : d # c => call'[d] = call[d]
    BY <1>3, <1>t DEF SendToInbox, Becomes, evars, Placed, SendersFound, TypeOK
  <2> HIDE DEF f
  <2>2. Delivered(c)' /\ ~Delivered(c) /\ \A d \in Calls : d # c => (Delivered(d)' <=> Delivered(d))
    BY <2>1 DEF Delivered
  <2>3. \A e \in Execs : ~In(inbox[e], c) /\ ~In(chat[e], c)
    BY <2>1, <2>2 DEF Placed, Whereabouts, Has
  <2>4. \A d \in Calls : /\ In(inbox'[f], d) <=> In(inbox[f], d) \/ d = c
                         /\ Once(inbox'[f], d)
    BY <2>1, <2>3, InAppended DEF Placed, Unrepeated
  <2>5. SendersFound' /\ NothingYet'
    BY <2>1 DEF Placed, SendersFound, NothingYet
  <2>6. \A d \in Calls : \A e \in Execs :
            Once(inbox'[e], d) /\ Once(chat'[e], d) /\ ~(In(inbox'[e], d) /\ In(chat'[e], d))
    BY <2>1, <2>3, <2>4 DEF Placed, Unrepeated
  <2>7. Unrepeated'
    BY <2>6 DEF Unrepeated, Once, In
  <2>8. \A d \in Calls : \A e \in Execs :
            (In(inbox'[e], d) \/ In(chat'[e], d)) <=> Has(e, d) \/ (d = c /\ e = f)
    BY <2>1, <2>4 DEF Has
  <2>9. \A d \in Calls : \A e \in Execs : /\ Has(e, d)' <=> Has(e, d) \/ (d = c /\ e = f)
                                          /\ Starts(e, d)' <=> Starts(e, d)
    BY <2>1, <2>8 DEF Has, In, Starts
  <2>10. \A d \in Calls : Whereabouts(d)'
    <3>1. Whereabouts(c)'
      BY <2>1, <2>2, <2>3, <2>9 DEF Whereabouts, Has, f
    <3>2. \A d \in Calls : d # c => Whereabouts(d)'
      BY <2>1, <2>2, <2>9 DEF Placed, Whereabouts
    <3> QED BY <3>1, <3>2
  <2> QED BY <2>5, <2>7, <2>10 DEF Placed
<1>4. ASSUME NEW x \in Execs, StartExecution(c, x) PROVE Placed'
  <2>1. /\ UNCHANGED <<inbox, found>> /\ chat[x] = <<>>
        /\ chat'[x] = <<c>> /\ \A e \in Execs : e # x => chat'[e] = chat[e]
        /\ call[c] = "delegating" /\ call'[c] = "executing"
        /\ \A d \in Calls : d # c => call'[d] = call[d]
        /\ \A e \in Execs : phase'[e] = "none" => phase[e] = "none" /\ e # x
    BY <1>4, <1>t DEF StartExecution, Becomes, Placed, NothingYet, TypeOK
  <2>2. ~Delivered(c)' /\ ~Delivered(c) /\ \A d \in Calls : d # c => (Delivered(d)' <=> Delivered(d))
    BY <2>1 DEF Delivered
  <2>3. \A e \in Execs : ~In(inbox[e], c) /\ ~In(chat[e], c)
    BY <2>1, <2>2 DEF Placed, Whereabouts, Has
  <2>4. \A d : /\ ~In(chat[x], d) /\ (In(chat'[x], d) <=> d = c) /\ Once(chat'[x], d)
               /\ Starts(x, d)' <=> d = c
    BY <2>1 DEF In, Once, Starts
  <2>5. SendersFound' /\ NothingYet'
    BY <2>1 DEF Placed, SendersFound, NothingYet
  <2>6. \A d \in Calls : \A e \in Execs :
            Once(inbox'[e], d) /\ Once(chat'[e], d) /\ ~(In(inbox'[e], d) /\ In(chat'[e], d))
    BY <2>1, <2>3, <2>4 DEF Placed, Unrepeated
  <2>7. Unrepeated'
    BY <2>6 DEF Unrepeated, Once, In
  <2>8. \A d \in Calls : \A e \in Execs :
            (In(inbox'[e], d) \/ In(chat'[e], d)) <=> Has(e, d) \/ (d = c /\ e = x)
    BY <2>1, <2>4 DEF Has
  <2>9. \A d \in Calls : \A e \in Execs :
            /\ Has(e, d)' <=> Has(e, d) \/ (d = c /\ e = x)
            /\ Starts(e, d)' <=> Starts(e, d) \/ (d = c /\ e = x)
    <3>1. \A d \in Calls : \A e \in Execs : Has(e, d)' <=> Has(e, d) \/ (d = c /\ e = x)
      BY <2>8 DEF Has, In
    <3>2. \A d \in Calls : \A e \in Execs : e # x => (Starts(e, d)' <=> Starts(e, d))
      BY <2>1 DEF Starts
    <3>3. \A d \in Calls : ~Starts(x, d)
      BY <2>1 DEF Starts
    <3> QED BY <2>4, <3>1, <3>2, <3>3
  <2>10. \A d \in Calls : Whereabouts(d)'
    <3>1. Whereabouts(c)'
      <4>1. \A e \in Execs : ~Has(e, c) /\ ~Starts(e, c)
        <5>1. \A e \in Execs : Starts(e, c) => In(chat[e], c)
          <6> SUFFICES ASSUME NEW e \in Execs, Starts(e, c) PROVE In(chat[e], c)
            OBVIOUS
          <6>1. chat[e] \in Seq(Messages) /\ chat[e] # <<>> /\ chat[e][1] = c
            BY <1>t DEF Starts, TypeOK
          <6>2. 1 \in DOMAIN chat[e]
            BY <6>1
          <6> QED BY <6>1, <6>2 DEF In
        <5> QED BY <2>3, <5>1 DEF Has
      <4> QED BY <2>1, <2>2, <2>9, <4>1 DEF Whereabouts
    <3>2. \A d \in Calls : d # c => Whereabouts(d)'
      BY <2>1, <2>2, <2>9 DEF Placed, Whereabouts
    <3> QED BY <3>1, <3>2
  <2> QED BY <2>5, <2>7, <2>10 DEF Placed
<1> QED BY <1>1, <1>2, <1>3, <1>4 DEF Call

\* An execution moves messages only from its inbox to its chat, behind the one
\* that started it.
LEMMA ExecutionPlaces ==
    ASSUME IInv, Placed, NEW x \in Execs, Execution(x) PROVE Placed'
<1>t. TypeOK
  BY DEF IInv
<1>1. CASE ~ReadInbox(x)
  <2>1. UNCHANGED <<inbox, chat, call, found>> /\ \E p \in Phases \ {"none"} : Goes(x, p)
    BY <1>1 DEF Execution, RegisterInbox, YieldTask, YieldWorking, YieldRefused, DeregisterInbox,
       LLMAnswers, LLMFails, ToolsDone, PollDefault, LoopDone, cvars, Phases
  <2>2. \A e \in Execs : phase'[e] = "none" => phase[e] = "none"
    BY <2>1, <1>t DEF Goes, TypeOK
  <2>3. \A d \in Calls : Delivered(d)' <=> Delivered(d)
    BY <2>1 DEF Delivered
  <2>4. \A d \in Calls : call'[d] = "sending" => found'[d] \in Execs
    BY <2>1 DEF Placed, SendersFound
  <2> QED BY <2>1, <2>2, <2>3, <2>4, PlacesKept
<1>2. CASE ReadInbox(x)
  <2> DEFINE m == Head(inbox[x])
  <2>1. /\ UNCHANGED <<call, found>> /\ inbox[x] # <<>> /\ m \in Calls
        /\ inbox[x] \in Seq(Calls) /\ chat[x] \in Seq(Messages) /\ m \in Messages
        /\ inbox'[x] = Tail(inbox[x]) /\ chat'[x] = Append(chat[x], m)
        /\ \A e \in Execs : e # x => inbox'[e] = inbox[e] /\ chat'[e] = chat[e]
        /\ \A e \in Execs : phase'[e] = "none" => phase[e] = "none" /\ e # x
    <3>1. inbox[x] # <<>> /\ inbox[x] \in Seq(Calls) /\ chat[x] \in Seq(Messages)
      BY <1>2, <1>t DEF ReadInbox, TypeOK
    <3>2. m \in Calls /\ m \in Messages
      BY <3>1 DEF Messages
    <3>3. /\ UNCHANGED <<call, found>>
          /\ inbox'[x] = Tail(inbox[x]) /\ chat'[x] = Append(chat[x], m)
          /\ \A e \in Execs : e # x => inbox'[e] = inbox[e] /\ chat'[e] = chat[e]
      BY <1>2, <1>t DEF ReadInbox, TypeOK, cvars
    <3>4. \A e \in Execs : phase'[e] = "none" => phase[e] = "none" /\ e # x
      BY <1>2, <1>t DEF ReadInbox, Goes, TypeOK
    <3> QED BY <3>1, <3>2, <3>3, <3>4
  <2> HIDE DEF m
  <2>2. /\ In(inbox[x], m)
        /\ \A d \in Calls : /\ Once(inbox'[x], d)
                            /\ In(inbox'[x], d) <=> In(inbox[x], d) /\ d # m
    BY <2>1, InTail DEF Placed, Unrepeated, m
  <2>3. \A d \in Calls : /\ In(chat'[x], d) <=> In(chat[x], d) \/ m = d
                         /\ Once(chat'[x], d)
    BY <2>1, <2>2, InAppended DEF Placed, Unrepeated
  <2>4. SendersFound' /\ NothingYet'
    BY <2>1 DEF Placed, SendersFound, NothingYet
  <2>5. \A d \in Calls : \A e \in Execs :
            Once(inbox'[e], d) /\ Once(chat'[e], d) /\ ~(In(inbox'[e], d) /\ In(chat'[e], d))
    BY <2>1, <2>2, <2>3 DEF Placed, Unrepeated
  <2>6. Unrepeated'
    BY <2>5 DEF Unrepeated, Once, In
  <2>7. \A d \in Calls : \A e \in Execs : (In(inbox'[e], d) \/ In(chat'[e], d)) <=> Has(e, d)
    BY <2>1, <2>2, <2>3 DEF Has
  <2>8. \A d \in Calls : \A e \in Execs : Has(e, d)' <=> Has(e, d)
    BY <2>7 DEF Has, In
  <2>9. call[m] # "executing"
    <3> SUFFICES ASSUME call[m] = "executing" PROVE FALSE
      OBVIOUS
    <3>1. Starts(x, m)
      BY <2>1, <2>2 DEF Placed, Whereabouts, Has
    <3>2. 1 \in DOMAIN chat[x]
      BY <2>1, <3>1 DEF Starts
    <3> QED BY <2>1, <2>2, <3>1, <3>2 DEF Starts, In, Placed, Unrepeated
  <2>10. \A d \in Calls : \A e \in Execs : call[d] = "executing" => (Starts(e, d)' <=> Starts(e, d))
    <3>1. CASE chat[x] = <<>>
      <4>1. chat'[x] # <<>> /\ chat'[x][1] = m
        BY <2>1, <3>1
      <4> QED BY <2>1, <2>9, <3>1, <4>1 DEF Starts
    <3>2. CASE chat[x] # <<>>
      <4>1. chat'[x] # <<>> /\ chat'[x][1] = chat[x][1]
        BY <2>1, <3>2
      <4> QED BY <2>1, <3>2, <4>1 DEF Starts
    <3> QED BY <3>1, <3>2
  <2>11. \A d \in Calls : Whereabouts(d)'
    BY <2>1, <2>8, <2>10 DEF Placed, Whereabouts, Delivered
  <2> QED BY <2>4, <2>6, <2>11 DEF Placed
<1> QED BY <1>1, <1>2

\* Every step keeps the messages in their places.
LEMMA PlacesPreserved == IInv /\ Placed /\ [Next]_vars => Placed'
<1> SUFFICES ASSUME IInv, Placed, [Next]_vars PROVE Placed'
  OBVIOUS
<1>1. CASE UNCHANGED vars \/ \E e \in Execs : ContextDone(e)
  <2>1. UNCHANGED <<inbox, chat, phase, call, found>>
    BY <1>1 DEF vars, cvars, evars, ContextDone
  <2> QED BY <2>1, PlacesKept DEF Placed, SendersFound, Delivered
<1> QED BY <1>1, CallPlaces, ExecutionPlaces DEF Next

\* The call of a message and the executions start with every message in place.
LEMMA PlacesInitially == Init => Placed
<1> SUFFICES ASSUME Init PROVE Placed
  OBVIOUS
<1>1. \A c \in Calls : call[c] = "idle" /\ ~Delivered(c)
  BY DEF Init, Delivered
<1>2. \A e \in Execs : inbox[e] = <<>> /\ (phase[e] = "none" => chat[e] = <<>>)
  BY DEF Init
<1>3. \A e \in Execs : chat[e] = <<>> \/ chat[e] = <<Opening>>
  BY DEF Init
<1>4. \A c \in Calls : c # Opening
  BY FanInAssumption
<1>5. \A c \in Calls : \A e \in Execs : ~In(inbox[e], c) /\ ~In(chat[e], c)
  BY <1>2, <1>3, <1>4 DEF In
<1>6. SendersFound /\ NothingYet
  BY <1>1, <1>2 DEF SendersFound, NothingYet
<1>7. Unrepeated
  BY <1>5 DEF Unrepeated, In, Once
<1>8. \A c \in Calls : Whereabouts(c)
  BY <1>1, <1>5 DEF Whereabouts, Has
<1> QED BY <1>6, <1>7, <1>8 DEF Placed

\* A message that is in a sequence once at most occurs in it as often as it is
\* there.
LEMMA CountedOnce ==
    ASSUME NEW s, NEW c, Once(s, c)
    PROVE  Occurrences(s, c) = IF In(s, c) THEN 1 ELSE 0
<1> DEFINE At == {k \in DOMAIN s : s[k] = c}
<1>1. CASE In(s, c)
  <2>1. PICK k \in DOMAIN s : s[k] = c
    BY <1>1 DEF In
  <2>2. At = {k}
    BY <2>1 DEF Once
  <2> QED BY <1>1, <2>2, FS_Singleton DEF Occurrences
<1>2. CASE ~In(s, c)
  <2>1. At = {}
    BY <1>2 DEF In
  <2> QED BY <1>2, <2>1, FS_EmptySet DEF Occurrences
<1> QED BY <1>1, <1>2

\* fanin.go:71-83: whatever executions end and start between the look-up and
\* the send, a message is in one inbox, or was read by one execution, once; and
\* it is nowhere when its call says so.
THEOREM NothingReadTwice == Spec => []MessageInOnePlace
<1>1. Placed => MessageInOnePlace
  <2> SUFFICES ASSUME Placed, NEW c \in Calls
               PROVE  /\ Holding(c) \cap Reading(c) = {}
                      /\ \A e \in Execs : Occurrences(inbox[e], c) + Occurrences(chat[e], c) <= 1
                      /\ Holding(c) \cup Reading(c) =
                            CASE call[c] \in {"getTask", "returned", "noReply"} -> {found[c]}
                              [] call[c] = "executing" -> {e \in Execs : chat[e] # <<>> /\ chat[e][1] = c}
                              [] OTHER -> {}
    BY DEF MessageInOnePlace
  <2>1. Holding(c) = {e \in Execs : In(inbox[e], c)} /\ Reading(c) = {e \in Execs : In(chat[e], c)}
    BY DEF Holding, Reading, In
  <2>2. Holding(c) \cap Reading(c) = {}
    BY <2>1 DEF Placed, Unrepeated
  <2>3. \A e \in Execs : Occurrences(inbox[e], c) + Occurrences(chat[e], c) <= 1
    <3> SUFFICES ASSUME NEW e \in Execs
                 PROVE  Occurrences(inbox[e], c) + Occurrences(chat[e], c) <= 1
      OBVIOUS
    <3>1. Once(inbox[e], c) /\ Once(chat[e], c) /\ ~(In(inbox[e], c) /\ In(chat[e], c))
      BY DEF Placed, Unrepeated
    <3>2. /\ Occurrences(inbox[e], c) = IF In(inbox[e], c) THEN 1 ELSE 0
          /\ Occurrences(chat[e], c) = IF In(chat[e], c) THEN 1 ELSE 0
      BY <3>1, CountedOnce
    <3> QED BY <3>1, <3>2
  <2>4. Holding(c) \cup Reading(c) = {e \in Execs : Has(e, c)}
    BY <2>1 DEF Has
  <2>5. Whereabouts(c)
    BY DEF Placed
  <2>6. CASE Delivered(c)
    <3>1. Holding(c) \cup Reading(c) = {found[c]}
      BY <2>4, <2>5, <2>6 DEF Whereabouts
    <3> QED BY <2>2, <2>3, <2>6, <3>1 DEF Delivered
  <2>7. CASE call[c] = "executing"
    <3>1. Holding(c) \cup Reading(c) = {e \in Execs : chat[e] # <<>> /\ chat[e][1] = c}
      BY <2>4, <2>5, <2>7 DEF Whereabouts, Starts
    <3> QED BY <2>2, <2>3, <2>7, <3>1
  <2>8. CASE ~Delivered(c) /\ call[c] # "executing"
    <3>1. Holding(c) \cup Reading(c) = {}
      BY <2>4, <2>5, <2>8 DEF Whereabouts
    <3> QED BY <2>2, <2>3, <2>8, <3>1 DEF Delivered
  <2> QED BY <2>6, <2>7, <2>8
<1> QED BY <1>1, IInvHolds, PlacesInitially, PlacesPreserved, PTL DEF Spec
=============================================================================
