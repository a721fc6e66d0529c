------------------------------- MODULE FanIn -------------------------------
(***************************************************************************)
(* The collaborative agent (examples/a2a-collaborate-agent): FanInHandler  *)
(* (fanin.go) in front of the A2A server, and the executor with its LLM    *)
(* loop (agent.go).  One task is followed through its executions: the first*)
(* is started by the request that created the task, and the server starts  *)
(* another when a request for the task finds no inbox.                     *)
(*                                                                         *)
(* A SendMessage call looks the inbox up under the lock and then, outside  *)
(* of it, sends on the channel it found, so the execution may have ended   *)
(* in between.  Each execution makes a channel of its own: inbox[e].       *)
(*                                                                         *)
(* An operator named Op_Variant is Op with a mistake one could have made;  *)
(* the specification does not use it.                                      *)
(***************************************************************************)
EXTENDS Naturals, Sequences, FiniteSets

CONSTANTS
    Calls,      \* the SendMessage calls for the task, each with one message
    Opening,    \* the message that created the task
    InboxCap,   \* capacity of an inbox (64 in the code)
    MaxExecs    \* bound: executions of the task

ASSUME FanInAssumption ==
    /\ IsFiniteSet(Calls) /\ Opening \notin Calls
    /\ InboxCap \in Nat \ {0} /\ MaxExecs \in Nat \ {0}

Execs    == 1..MaxExecs
NoInbox  == 0
Messages == Calls \cup {Opening}

VARIABLES
    call,       \* call[c]: where SendMessage is
    found,      \* found[c]: the inbox that c looked up
    registry,   \* h.inboxes[task]
    inbox,      \* inbox[e]: the channel of execution e
    phase,      \* phase[e]: where Execute and runLLMLoop are
    ctxDone,    \* ctxDone[e]: the context of execution e is done
    chat,       \* chat[e]: the messages e has given to the LLM
    unanswered, \* unanswered[e]: the conversation has input the LLM has not seen
    known       \* the task was yielded, so clients know its ID

cvars == <<call, found>>
evars == <<phase, ctxDone, chat, unanswered>>
vars  == <<cvars, registry, inbox, evars, known>>

CallStates == {"idle", "lookup", "sending", "getTask", "delegating", "returned",
               "noReply", "failed", "executing"}
Phases == {"none", "entered", "registered", "submitted", "llm", "tools", "poll",
           "wait", "leaving", "ended"}

TypeOK ==
    /\ call \in [Calls -> CallStates]
    /\ found \in [Calls -> Execs \cup {NoInbox}]
    /\ registry \in Execs \cup {NoInbox}
    /\ inbox \in [Execs -> Seq(Calls)]
    /\ \A e \in Execs : Len(inbox[e]) <= InboxCap
    /\ phase \in [Execs -> Phases]
    /\ ctxDone \in [Execs -> BOOLEAN]
    /\ chat \in [Execs -> Seq(Messages)]
    /\ unanswered \in [Execs -> BOOLEAN]
    /\ known \in BOOLEAN

\* The server has just started the first execution with the opening message.
Init ==
    /\ call = [c \in Calls |-> "idle"]
    /\ found = [c \in Calls |-> NoInbox]
    /\ registry = NoInbox
    /\ inbox = [e \in Execs |-> <<>>]
    /\ phase = [e \in Execs |-> IF e = 1 THEN "entered" ELSE "none"]
    /\ ctxDone = [e \in Execs |-> FALSE]
    /\ chat = [e \in Execs |-> IF e = 1 THEN <<Opening>> ELSE <<>>]
    /\ unanswered = [e \in Execs |-> e = 1]
    /\ known = FALSE

-----------------------------------------------------------------------------
(* FanInHandler.SendMessage                                                *)

Becomes(c, s) == call' = [call EXCEPT ![c] = s]

\* A client that knows the task sends a message to it.
CallArrives(c) ==
    /\ call[c] = "idle" /\ known
    /\ Becomes(c, "lookup")
    /\ UNCHANGED <<found, registry, inbox, evars, known>>

\* The look-up under the read lock.
LookUp(c) ==
    /\ call[c] = "lookup"
    /\ found' = [found EXCEPT ![c] = registry]
    /\ Becomes(c, IF registry = NoInbox THEN "delegating" ELSE "sending")
    /\ UNCHANGED <<registry, inbox, evars, known>>

HasRoom_Always(e) == TRUE

\* The inbox is a buffered channel.
HasRoom(e) == Len(inbox[e]) < InboxCap

SendToInbox_FallsThrough(c) ==
    /\ call[c] = "sending" /\ HasRoom(found[c])
    /\ inbox' = [inbox EXCEPT ![found[c]] = Append(@, c)]
    /\ Becomes(c, "delegating")
    /\ UNCHANGED <<found, registry, evars, known>>

\* inbox <- req.Message, on the channel found before.
SendToInbox(c) ==
    /\ call[c] = "sending" /\ HasRoom(found[c])
    /\ inbox' = [inbox EXCEPT ![found[c]] = Append(@, c)]
    /\ Becomes(c, "getTask")
    /\ UNCHANGED <<found, registry, evars, known>>

\* The call's own context is done first.
CallCancelled(c) ==
    /\ call[c] = "sending"
    /\ Becomes(c, "failed")
    /\ UNCHANGED <<found, registry, inbox, evars, known>>

\* inner.GetTask returns the task's state, or an error (the call's context may
\* be done by now), although the message was delivered.
ReturnTask(c) ==
    /\ call[c] = "getTask"
    /\ \E s \in {"returned", "noReply"} : Becomes(c, s)
    /\ UNCHANGED <<found, registry, inbox, evars, known>>

-----------------------------------------------------------------------------
(* inner.SendMessage: the A2A server, which runs one execution of a task   *)
(* at a time.                                                              *)

Idle == \A e \in Execs : phase[e] \in {"none", "ended"}

StartExecution(c, e) ==
    /\ call[c] = "delegating" /\ Idle
    /\ phase[e] = "none" /\ \A d \in 1..(e - 1) : phase[d] = "ended"
    /\ phase' = [phase EXCEPT ![e] = "entered"]
    /\ chat' = [chat EXCEPT ![e] = <<c>>]
    /\ unanswered' = [unanswered EXCEPT ![e] = TRUE]
    /\ Becomes(c, "executing")
    /\ UNCHANGED <<found, registry, inbox, ctxDone, known>>

\* The server refuses the message: an execution is under way, or the task is
\* in no state to go on.
Refuse(c) ==
    /\ call[c] = "delegating"
    /\ Becomes(c, "failed")
    /\ UNCHANGED <<found, registry, inbox, evars, known>>

-----------------------------------------------------------------------------
(* Execute                                                                 *)

Goes(e, p) == phase' = [phase EXCEPT ![e] = p]

RegisterInbox(e) ==
    /\ phase[e] = "entered"
    /\ registry' = e
    /\ Goes(e, "registered")
    /\ UNCHANGED <<cvars, inbox, ctxDone, chat, unanswered, known>>

\* The submitted task is yielded, which is how clients come to know it.
YieldTask(e) ==
    /\ phase[e] = "registered"
    /\ known' = TRUE
    /\ Goes(e, "submitted")
    /\ UNCHANGED <<cvars, registry, inbox, ctxDone, chat, unanswered>>

YieldWorking(e) ==
    /\ phase[e] = "submitted"
    /\ Goes(e, "llm")
    /\ UNCHANGED <<cvars, registry, inbox, ctxDone, chat, unanswered, known>>

\* The server no longer takes the events: a yield returns false.
YieldRefused(e) ==
    /\ phase[e] \in {"registered", "submitted", "tools"}
    /\ Goes(e, "leaving")
    /\ UNCHANGED <<cvars, registry, inbox, ctxDone, chat, unanswered, known>>

DeregisterInbox_Forgotten(e) ==
    /\ phase[e] = "leaving"
    /\ Goes(e, "ended")
    /\ UNCHANGED <<cvars, registry, inbox, ctxDone, chat, unanswered, known>>

\* The deferred call, whatever way the execution returns.
DeregisterInbox(e) ==
    /\ phase[e] = "leaving"
    /\ registry' = NoInbox
    /\ Goes(e, "ended")
    /\ UNCHANGED <<cvars, inbox, ctxDone, chat, unanswered, known>>

-----------------------------------------------------------------------------
(* runLLMLoop                                                              *)

\* The LLM answers, with or without a tool call.
LLMAnswers(e, p) ==
    /\ phase[e] = "llm"
    /\ p \in {"tools", "wait"}
    /\ unanswered' = [unanswered EXCEPT ![e] = FALSE]
    /\ Goes(e, p)
    /\ UNCHANGED <<cvars, registry, inbox, ctxDone, chat, known>>

LLMFails(e) ==
    /\ phase[e] = "llm"
    /\ Goes(e, "leaving")
    /\ UNCHANGED <<cvars, registry, inbox, ctxDone, chat, unanswered, known>>

\* What the LLM responds is yielded, and its tool calls get their results.
ToolsDone(e) ==
    /\ phase[e] = "tools"
    /\ unanswered' = [unanswered EXCEPT ![e] = TRUE]
    /\ Goes(e, "poll")
    /\ UNCHANGED <<cvars, registry, inbox, ctxDone, chat, known>>

\* incoming := <-inbox, in either select.
ReadInbox(e) ==
    /\ phase[e] \in {"poll", "wait"} /\ inbox[e] # <<>>
    /\ chat' = [chat EXCEPT ![e] = Append(@, Head(inbox[e]))]
    /\ inbox' = [inbox EXCEPT ![e] = Tail(@)]
    /\ unanswered' = [unanswered EXCEPT ![e] = TRUE]
    /\ Goes(e, "llm")
    /\ UNCHANGED <<cvars, registry, ctxDone, known>>

PollDefault_InBothSelects(e) ==
    /\ phase[e] \in {"poll", "wait"} /\ inbox[e] = <<>> /\ ~ctxDone[e]
    /\ Goes(e, "llm")
    /\ UNCHANGED <<cvars, registry, inbox, ctxDone, chat, unanswered, known>>

PollDefault_Hasty(e) ==
    /\ phase[e] = "poll" /\ ~ctxDone[e]
    /\ Goes(e, "llm")
    /\ UNCHANGED <<cvars, registry, inbox, ctxDone, chat, unanswered, known>>

\* The non-blocking select finds nothing.
PollDefault(e) ==
    /\ phase[e] = "poll" /\ inbox[e] = <<>> /\ ~ctxDone[e]
    /\ Goes(e, "llm")
    /\ UNCHANGED <<cvars, registry, inbox, ctxDone, chat, unanswered, known>>

LoopDone(e) ==
    /\ phase[e] \in {"poll", "wait"} /\ ctxDone[e]
    /\ Goes(e, "leaving")
    /\ UNCHANGED <<cvars, registry, inbox, ctxDone, chat, unanswered, known>>

\* The task is cancelled, or the server shuts down.
ContextDone(e) ==
    /\ phase[e] \notin {"none", "ended"} /\ ~ctxDone[e]
    /\ ctxDone' = [ctxDone EXCEPT ![e] = TRUE]
    /\ UNCHANGED <<cvars, registry, inbox, phase, chat, unanswered, known>>

-----------------------------------------------------------------------------

Call(c) ==
    \/ CallArrives(c) \/ LookUp(c) \/ SendToInbox(c) \/ CallCancelled(c)
    \/ ReturnTask(c) \/ Refuse(c)
    \/ \E e \in Execs : StartExecution(c, e)

Execution(e) ==
    \/ RegisterInbox(e) \/ YieldTask(e) \/ YieldWorking(e) \/ YieldRefused(e)
    \/ DeregisterInbox(e)
    \/ \E p \in {"tools", "wait"} : LLMAnswers(e, p)
    \/ LLMFails(e) \/ ToolsDone(e) \/ ReadInbox(e) \/ PollDefault(e) \/ LoopDone(e)

Next ==
    \/ \E c \in Calls : Call(c)
    \/ \E e \in Execs : Execution(e) \/ ContextDone(e)

Spec == Init /\ [][Next]_vars

\* The goroutines of calls and executions run, the LLM answers or fails, and
\* the server takes what is yielded.  No context is obliged to be done.
Fairness ==
    /\ \A c \in Calls : WF_vars(LookUp(c)) /\ SF_vars(SendToInbox(c)) /\ WF_vars(ReturnTask(c))
    /\ \A e \in Execs : WF_vars(Execution(e))

FairSpec == Spec /\ Fairness

-----------------------------------------------------------------------------
(* Safety                                                                  *)

Occurrences(s, c) == Cardinality({k \in DOMAIN s : s[k] = c})

Holding(c) == {e \in Execs : \E k \in DOMAIN inbox[e] : inbox[e][k] = c}
Reading(c) == {e \in Execs : \E k \in DOMAIN chat[e] : chat[e][k] = c}

\* A message is where its call says: that of a call past the send is in the one
\* inbox the call had found, or was read by that execution and no other; that
\* of a call that started an execution is the first of its chat; and a call
\* that gave up before the send, was refused or is not so far left its message
\* nowhere.  So nothing is read twice, whatever executions end and start
\* between the look-up and the send (lines 71-83).
MessageInOnePlace ==
    \A c \in Calls :
        /\ Holding(c) \cap Reading(c) = {}
        /\ \A e \in Execs : Occurrences(inbox[e], c) + Occurrences(chat[e], c) <= 1
        /\ Holding(c) \cup Reading(c) =
              CASE call[c] \in {"getTask", "returned", "noReply"} -> {found[c]}
                [] call[c] = "executing" -> {e \in Execs : chat[e] # <<>> /\ chat[e][1] = c}
                [] OTHER -> {}

\* The registration comes before the first yield (agent.go:58-59): whenever
\* clients know the task and an execution of it is past that yield, a message
\* for the task finds the inbox of that very execution; no entry outlives its
\* execution.
InboxOfTheRunning ==
    /\ \A e \in Execs : phase[e] \in Phases \ {"none", "entered", "registered", "ended"}
          => registry = e
    /\ registry # NoInbox => phase[registry] \notin {"none", "entered", "ended"}

\* The LLM is called only with something new to read: the loop does not spin
\* on an answer without tools.
InputBeforeLLM ==
    \A e \in Execs : phase[e] = "llm" => unanswered[e]

-----------------------------------------------------------------------------
(* Liveness                                                                *)

\* A call that found an inbox ends as long as the execution it found goes on:
\* however full the inbox, the loop makes room.
RoutedCallsEnd ==
    \A c \in Calls, e \in Execs :
        call[c] = "sending" /\ found[c] = e ~> call[c] # "sending" \/ phase[e] = "ended"

\* What is in an inbox is read as long as its execution goes on.
InboxIsRead ==
    \A c \in Calls, e \in Execs :
        e \in Holding(c) ~> e \in Reading(c) \/ phase[e] = "ended"

-----------------------------------------------------------------------------
(* What a comment says and the code does not do                            *)

\* fanin.go:27-30: calls for a task with a registered inbox "are routed
\* directly to the inbox channel" and "the current task state is returned
\* immediately".
ReturnedAtOnce ==
    \A c \in Calls : call[c] = "sending" ~> call[c] # "sending"
=============================================================================
