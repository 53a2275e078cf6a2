----------------------------- MODULE SessionLog -----------------------------
(***************************************************************************)
(* What the session endpoints promise about one study session, seen from   *)
(* outside: a session opens once, closes at most once, and its log of      *)
(* attempts gains a row only from a request that was admitted while the    *)
(* session was open and has not answered since.  After the close the set   *)
(* of admitted requests can only shrink, so the log freezes.               *)
(***************************************************************************)
CONSTANTS Sids, Requests

VARIABLES
    phase,    \* "none", "open", "ended" or "gone" for every session id
    admitted, \* the requests admitted to the session and not yet answered
    log       \* the requests whose attempt the session's log holds

vars == <<phase, admitted, log>>

Init ==
    /\ phase = [s \in Sids |-> "none"]
    /\ admitted = [s \in Sids |-> {}]
    /\ log = [s \in Sids |-> {}]

Open(s) ==
    /\ phase[s] = "none"
    /\ phase' = [phase EXCEPT ![s] = "open"]
    /\ UNCHANGED <<admitted, log>>

Close(s) ==
    /\ phase[s] = "open"
    /\ phase' = [phase EXCEPT ![s] = "ended"]
    /\ UNCHANGED <<admitted, log>>

Admit(s, r) ==
    /\ phase[s] = "open"
    /\ admitted' = [admitted EXCEPT ![s] = @ \cup {r}]
    /\ UNCHANGED <<phase, log>>

Record(s, r) ==
    /\ phase[s] \in {"open", "ended"}
    /\ r \in admitted[s]
    /\ log' = [log EXCEPT ![s] = @ \cup {r}]
    /\ admitted' = [admitted EXCEPT ![s] = @ \ {r}]
    /\ UNCHANGED phase

\* Requests that give up: one that fails, or all of them when the server stops.
Drop(R) ==
    /\ admitted' = [s \in Sids |-> admitted[s] \ R]
    /\ UNCHANGED <<phase, log>>

\* A user is removed with the sessions S.
Erase(S) ==
    /\ phase' = [s \in Sids |-> IF s \in S THEN "gone" ELSE phase[s]]
    /\ \A s \in S : phase[s] \in {"open", "ended"}
    /\ log' = [s \in Sids |-> IF s \in S THEN {} ELSE log[s]]
    /\ UNCHANGED admitted

\* A task is removed with the attempts R at it.
Expunge(R) ==
    /\ log' = [s \in Sids |-> log[s] \ R]
    /\ UNCHANGED <<phase, admitted>>

Next ==
    \/ \E s \in Sids : Open(s) \/ Close(s)
    \/ \E s \in Sids, r \in Requests : Admit(s, r) \/ Record(s, r)
    \/ \E R \in SUBSET Requests : Drop(R) \/ Expunge(R)
    \/ \E S \in SUBSET Sids : Erase(S)

Spec == Init /\ [][Next]_vars
=============================================================================
