----------------------------- MODULE RpcCallSpec ------------------------------
(***************************************************************************)
(* What the caller of RpcClient::call is promised, without connections,    *)
(* request ids or frames: a call ends with the answer the server computed  *)
(* for that very call, or with an error; and the server answers a call at  *)
(* most once, possibly after the caller has given it up.                   *)
(***************************************************************************)
EXTENDS Naturals, Sequences

CONSTANT Answers    \* what the server may answer a call with

VARIABLES
    begun,      \* how many calls were begun
    current,    \* the call that is running, 0 for none
    log,        \* the server's answers, in the order it computed them
    outcome     \* how the last call ended

vars == <<begun, current, log, outcome>>

NoOutcome == [call |-> 0, answer |-> "none"]
Answered(n) == \E i \in 1..Len(log) : log[i].call = n

Init == begun = 0 /\ current = 0 /\ log = <<>> /\ outcome = NoOutcome

\* A call begins.
Begin ==
    /\ current = 0
    /\ begun' = begun + 1 /\ current' = begun + 1
    /\ UNCHANGED <<log, outcome>>

\* The server answers a call that was begun, once.
Answer(n, a) ==
    /\ ~Answered(n)
    /\ log' = Append(log, [call |-> n, answer |-> a])
    /\ UNCHANGED <<begun, current, outcome>>

\* The call returns the answer that was computed for it.
Succeed ==
    /\ current # 0
    /\ \E i \in 1..Len(log) : log[i].call = current /\ outcome' = log[i]
    /\ current' = 0
    /\ UNCHANGED <<begun, log>>

\* The call returns an error; the server may or may not have answered it.
Fail ==
    /\ current # 0
    /\ outcome' = [call |-> current, answer |-> "error"]
    /\ current' = 0
    /\ UNCHANGED <<begun, log>>

Next ==
    \/ Begin \/ Succeed \/ Fail
    \/ \E n \in 1..begun, a \in Answers : Answer(n, a)

Spec == Init /\ [][Next]_vars
=============================================================================
