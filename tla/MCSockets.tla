----------------------------- MODULE MCSockets -----------------------------
(* Two threads, and two operations that compete for something: a slot of    *)
(* the reactor, an op_state or the state of the connection.                 *)
EXTENDS Sockets, TLC

CONSTANTS o1, o2, t1, t2

Two(k1, k2) == [o \in Ops |-> IF o = o1 THEN k1 ELSE k2]
MCWorkloads == {Two("wait_read", "wait_read"), Two("connect", "write"), Two("read", "read"),
                Two("send", "receive"), Two("accept", "accept")}
Symmetry == Permutations({t1, t2})
=============================================================================
