------------------------------ MODULE Broadcast -------------------------------
(***************************************************************************)
(* What a MessageQueue promises its users                                  *)
(* (vllm/distributed/device_communicators/shm_broadcast.py): one writer,   *)
(* several readers, every reader gets every message once and in order, and *)
(* none is published while some reader is more than Lag messages behind.   *)
(*                                                                         *)
(* Messages are numbered in the order in which they are published.         *)
(***************************************************************************)
EXTENDS Naturals

CONSTANTS Readers, Lag

VARIABLES
    published,      \* number of messages published
    got,            \* reader -> number of messages it has consumed
    ret,            \* reader -> the message its last dequeue returned, or 0
    lost            \* readers that gave up a message half way

vars == <<published, got, ret, lost>>

Init ==
    /\ published = 0
    /\ got = [r \in Readers |-> 0]
    /\ ret = [r \in Readers |-> 0]
    /\ lost = {}

Publish ==
    /\ \A r \in Readers : published <= got[r] + Lag
    /\ published' = published + 1
    /\ UNCHANGED <<got, ret, lost>>

\* dequeue returns the next message.
Deliver(r) ==
    /\ r \notin lost /\ got[r] < published
    /\ got' = [got EXCEPT ![r] = @ + 1]
    /\ ret' = [ret EXCEPT ![r] = got[r] + 1]
    /\ UNCHANGED <<published, lost>>

\* dequeue raises after it has consumed the message: it timed out on the socket,
\* or what it received cannot be unpickled.
Miss(r) ==
    /\ got[r] < published
    /\ got' = [got EXCEPT ![r] = @ + 1]
    /\ lost' = lost \cup {r}
    /\ UNCHANGED <<published, ret>>

\* After that the reader may be given any message.
DeliverAny(r) ==
    /\ r \in lost /\ got[r] < published
    /\ got' = [got EXCEPT ![r] = @ + 1]
    /\ \E msg \in 1 .. published : ret' = [ret EXCEPT ![r] = msg]
    /\ UNCHANGED <<published, lost>>

Next == Publish \/ \E r \in Readers : Deliver(r) \/ Miss(r) \/ DeliverAny(r)

Spec == Init /\ [][Next]_vars
===============================================================================
