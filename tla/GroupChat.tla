----------------------------- MODULE GroupChat -----------------------------
(***************************************************************************)
(* What a collaborative session promises its members: everything that is   *)
(* said goes into one log, and every member hears the log in that order,   *)
(* without gaps and without its own contributions.                         *)
(*                                                                         *)
(* The module knows nothing of queues, streams or sentinels.  A member may *)
(* stop hearing at any point (its stream ended, the session was closed);   *)
(* it has then heard a prefix of what concerns it.                         *)
(***************************************************************************)
EXTENDS Naturals, Sequences

CONSTANTS
    Members,    \* the agents of the session, who speak and hear
    Caller      \* the client that opened the session, who only speaks

VARIABLES
    log,        \* the speakers of the contributions, in the order of the session
    heard       \* heard[m]: the positions of the log m has heard

vars == <<log, heard>>

Speakers == Members \cup {Caller}

LastHeard(m) == IF heard[m] = <<>> THEN 0 ELSE heard[m][Len(heard[m])]

Init ==
    /\ log = <<>>
    /\ heard = [m \in Members |-> <<>>]

\* A speaker adds a contribution to the log.
Say(s) ==
    /\ log' = Append(log, s)
    /\ UNCHANGED heard

\* m hears the next contribution of somebody else.
Hear(m, i) ==
    /\ LastHeard(m) < i
    /\ log[i] # m
    /\ \A j \in 1..(i - 1) : LastHeard(m) < j => log[j] = m
    /\ heard' = [heard EXCEPT ![m] = Append(@, i)]
    /\ UNCHANGED log

Next ==
    \/ \E s \in Speakers : Say(s)
    \/ \E m \in Members : \E i \in 1..Len(log) : Hear(m, i)

Spec == Init /\ [][Next]_vars
=============================================================================
