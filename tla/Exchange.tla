------------------------------ MODULE Exchange ------------------------------
(***************************************************************************)
(* What query_servers_concurrent promises: a call asks some servers, and   *)
(* returns one message, which one of them sent in answer to this very      *)
(* query, or none.  Iteration relies on no more.                           *)
(***************************************************************************)
CONSTANTS Call, Server

VARIABLES
    asked,   \* of every call: the servers it was given
    status,  \* of every call: "idle", "waiting" or "returned"
    result   \* of every call: the message it returned, if any, as a set

vars == <<asked, status, result>>

Init ==
    /\ asked = [c \in Call |-> {}]
    /\ status = [c \in Call |-> "idle"]
    /\ result = [c \in Call |-> {}]

Ask(c, servers) ==
    /\ status[c] = "idle"
    /\ servers # {}
    /\ asked' = [asked EXCEPT ![c] = servers]
    /\ status' = [status EXCEPT ![c] = "waiting"]
    /\ UNCHANGED result

Return(c, msgs) ==
    /\ status[c] = "waiting"
    /\ status' = [status EXCEPT ![c] = "returned"]
    /\ result' = [result EXCEPT ![c] = msgs]
    /\ UNCHANGED asked

Answer(c) ==
    \E s \in asked[c], tc \in BOOLEAN : Return(c, {[from |-> s, query |-> c, tc |-> tc]})

Next ==
    \/ \E c \in Call, servers \in SUBSET Server : Ask(c, servers)
    \/ \E c \in Call : Answer(c) \/ Return(c, {})

Spec ==
    /\ Init
    /\ [][Next]_vars
    /\ \A c \in Call : WF_vars(Answer(c) \/ Return(c, {}))
=============================================================================
