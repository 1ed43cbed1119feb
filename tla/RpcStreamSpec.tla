---------------------------- MODULE RpcStreamSpec -----------------------------
(***************************************************************************)
(* What the owner of an echo stream is promised, without connections,      *)
(* frames or stream ids: sessions follow one another; the data it gets in  *)
(* a session is the data it sent in that session, in order; and a session  *)
(* is finished only when all of it came back.                              *)
(***************************************************************************)
EXTENDS Naturals, Sequences

VARIABLES
    opened,     \* sessions opened so far; the last one is the current one
    status,     \* of the current session: "open", "finished" or "dropped"
    said,       \* data sent in it
    got         \* data that came back in it, by their numbers

vars == <<opened, status, said, got>>

Init == opened = 0 /\ status = "finished" /\ said = 0 /\ got = <<>>

\* A new session begins once the last one is over.
Open ==
    /\ status \in {"finished", "dropped"}
    /\ opened' = opened + 1 /\ status' = "open"
    /\ said' = 0 /\ got' = <<>>

Say ==
    /\ status = "open"
    /\ said' = said + 1
    /\ UNCHANGED <<opened, status, got>>

\* The next of the session's data comes back.
Hear ==
    /\ status = "open" /\ Len(got) < said
    /\ got' = Append(got, Len(got) + 1)
    /\ UNCHANGED <<opened, status, said>>

Finish ==
    /\ status = "open" /\ Len(got) = said
    /\ status' = "finished"
    /\ UNCHANGED <<opened, said, got>>

\* The session is given up, by the owner or because the connection is lost.
Drop ==
    /\ status = "open"
    /\ status' = "dropped"
    /\ UNCHANGED <<opened, said, got>>

Next == Open \/ Say \/ Hear \/ Finish \/ Drop

Spec == Init /\ [][Next]_vars
=============================================================================
