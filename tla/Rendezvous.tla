------------------------------ MODULE Rendezvous ------------------------------
(****************************************************************************)
(* What WaitForActionMessage and recvMessage promise together: replies      *)
(* meet waiting callbacks.  A reply is addressed once; it is matched with   *)
(* at most one callback of that user, one that waits and has no other       *)
(* reply, or it is put aside.  A callback leaves with the reply matched     *)
(* to it or without any; a callback that left is never matched.             *)
(****************************************************************************)
CONSTANTS Users, Callbacks, From, Replies, None

VARIABLES phase,   \* phase[c] \in {"out", "waiting", "left"}
          took,    \* the reply callback c left with, or None
          to,      \* to[r]: the user reply r is for; None: nobody yet, or a stray
          fate     \* "unsent", "open", "aside", or the callback matched

rvars == <<phase, took, to, fate>>

Init == /\ phase = [c \in Callbacks |-> "out"]
        /\ took = [c \in Callbacks |-> None]
        /\ to = [r \in Replies |-> None]
        /\ fate = [r \in Replies |-> "unsent"]

Enter(c) == /\ phase[c] = "out"
            /\ phase' = [phase EXCEPT ![c] = "waiting"]
            /\ UNCHANGED <<took, to, fate>>

Address(r, u) == /\ fate[r] = "unsent"
                 /\ fate' = [fate EXCEPT ![r] = "open"]
                 /\ to' = [to EXCEPT ![r] = u]
                 /\ UNCHANGED <<phase, took>>

Match(c, r) == /\ fate[r] = "open" /\ phase[c] = "waiting" /\ to[r] = From[c]
               /\ \A s \in Replies : fate[s] # c
               /\ fate' = [fate EXCEPT ![r] = c]
               /\ UNCHANGED <<phase, took, to>>

PutAside(r) == /\ fate[r] = "open"
               /\ fate' = [fate EXCEPT ![r] = "aside"]
               /\ UNCHANGED <<phase, took, to>>

LeaveWith(c, r) == /\ phase[c] = "waiting" /\ fate[r] = c
                   /\ took' = [took EXCEPT ![c] = r]
                   /\ phase' = [phase EXCEPT ![c] = "left"]
                   /\ UNCHANGED <<to, fate>>

LeaveWithout(c) == /\ phase[c] = "waiting"
                   /\ phase' = [phase EXCEPT ![c] = "left"]
                   /\ UNCHANGED <<took, to, fate>>

Next == \/ \E c \in Callbacks : Enter(c) \/ LeaveWithout(c)
        \/ \E r \in Replies : PutAside(r) \/ \E u \in Users \cup {None} : Address(r, u)
        \/ \E c \in Callbacks, r \in Replies : Match(c, r) \/ LeaveWith(c, r)

Spec == Init /\ [][Next]_rvars

=============================================================================
