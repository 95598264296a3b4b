----------------------------- MODULE ClientPool -----------------------------
(***************************************************************************)
(* What the command clients promise the stream threads, without lock, list *)
(* and reference counts.  Users of one camera share one client; a client   *)
(* stays what it is for as long as somebody uses it, and is retired only   *)
(* when nobody does.  Two users of a client may spoil that by coming and   *)
(* going at the same time: a spoilt client may be retired at any moment.   *)
(* One user alone may rely on its client.                                  *)
(***************************************************************************)
CONSTANTS Users, Cams, Clients, NONE

VARIABLES serves,  \* client -> the camera it is for, NONE while it is free
          using,   \* user -> the client it uses, NONE without one
          spoilt   \* the clients of which two users have spoilt the count

vars == <<serves, using, spoilt>>

Init == /\ serves = [c \in Clients |-> NONE]
        /\ using = [u \in Users |-> NONE]
        /\ spoilt = {}

\* A user gets the client of a camera.
Share(u, k) ==
    /\ using[u] = NONE
    /\ \E c \in Clients : /\ serves[c] = k
                          /\ using' = [using EXCEPT ![u] = c]
    /\ UNCHANGED <<serves, spoilt>>

\* A client that is nobody's is as good as new.
Forgive(c) == spoilt' = IF \E v \in Users : using[v] = c THEN spoilt ELSE spoilt \ {c}

\* There is none: a free one becomes it.
Appoint(u, k) ==
    /\ using[u] = NONE
    /\ \A d \in Clients : serves[d] # k
    /\ \E c \in Clients :
          /\ serves[c] = NONE
          /\ serves' = [serves EXCEPT ![c] = k]
          /\ using' = [using EXCEPT ![u] = c]
          /\ Forgive(c)

Release(u) == /\ using[u] # NONE
              /\ using' = [using EXCEPT ![u] = NONE]
              /\ UNCHANGED <<serves, spoilt>>

Spoil(u, v) == /\ u # v
               /\ using[u] # NONE /\ using[u] = using[v]
               /\ spoilt' = spoilt \cup {using[u]}
               /\ UNCHANGED <<serves, using>>

Retire(c) == /\ serves[c] # NONE
             /\ c \in spoilt \/ \A u \in Users : using[u] # c
             /\ serves' = [serves EXCEPT ![c] = NONE]
             /\ Forgive(c)
             /\ UNCHANGED using

Next == \/ \E u \in Users : Release(u) \/ \E k \in Cams : Share(u, k) \/ Appoint(u, k)
        \/ \E u, v \in Users : Spoil(u, v)
        \/ \E c \in Clients : Retire(c)

Spec == Init /\ [][Next]_vars
=============================================================================
