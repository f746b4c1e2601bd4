---------------------------- MODULE MCSequential ----------------------------
(***************************************************************************)
(* The parts that run on one thread at a time and hold no lock: the table  *)
(* of the reactor's descriptors, the composed stream operations, the       *)
(* type-erased holders and the endpoints.  A behaviour is of one layer.    *)
(*                                                                         *)
(* Two descriptors and three operations: enough for a waiter to be         *)
(* replaced, cancelled by a stale handle, and for a descriptor number to   *)
(* be reused.  A buffer of four bytes and a delimiter of three: enough for *)
(* three reads to complete a delimiter.  Three holders: a value can be     *)
(* copied to one and moved to another.                                     *)
(***************************************************************************)
EXTENDS FdRegistry, TLC

CONSTANTS o1, o2, o3, s1, s2, b1, b2, NoValue

VARIABLES layer, call, buffer, at, searchFrom, spc, outcome, stream,
          erased, mem, meant, proto, epc, text, native, ep, first

SA == INSTANCE StreamAlgorithms WITH mem <- buffer, Bytes <- {0, 1}, MaxSize <- 4, MaxDelim <- 3
TE == INSTANCE TypeErasure WITH Holders <- 1..3, Small <- {s1, s2}, Big <- {b1, b2}, Blocks <- 1..3
EP == INSTANCE Endpoints

MCFds == {0, 1}
MCOps == {o1, o2, o3}
Symmetry == Permutations(MCOps)

streamVars == <<call, buffer, at, searchFrom, spc, outcome, stream>>
eraseVars == <<erased, mem, meant>>
epVars == <<proto, epc, text, native, ep, first>>

\* The layers that are not this behaviour's stay in one of their initial states.
NoStream == SA!Init /\ call.op = "read" /\ buffer = <<>>
NoErased == TE!Init /\ erased = "function"
NoEndpoint == EP!Init /\ proto = "local"

MCInit == /\ Init
          /\ \/ layer = "registry" /\ NoStream /\ NoErased /\ NoEndpoint
             \/ layer = "stream" /\ SA!Init /\ NoErased /\ NoEndpoint
             \/ layer = "erased" /\ NoStream /\ TE!Init /\ NoEndpoint
             \/ layer = "endpoint" /\ NoStream /\ NoErased /\ EP!Init
MCNext == /\ \/ layer = "registry" /\ Next /\ UNCHANGED <<streamVars, eraseVars, epVars>>
             \/ layer = "stream" /\ SA!Next /\ UNCHANGED <<vars, eraseVars, epVars>>
             \/ layer = "erased" /\ TE!Next /\ UNCHANGED <<vars, streamVars, epVars>>
             \/ layer = "endpoint" /\ EP!Next /\ UNCHANGED <<vars, streamVars, eraseVars>>
          /\ UNCHANGED layer
MCSpec == MCInit /\ [][MCNext]_<<layer, vars, streamVars, eraseVars, epVars>>

\* async_read_until returns the first occurrence whatever the reads, and
\* async_read and async_write move the whole buffer in order.
StreamsExact == SA!TypeOK /\ SA!UntilReturnsFirst /\ SA!TransfersWhole

\* Every type-erased object is destroyed exactly once and reached only through
\* the holders it was given to.
ErasedLifetimes == TE!DestroyedOnce /\ TE!HoldsWhatWasPut

\* Endpoints survive conversion through text and sockaddr, and only documented
\* texts are accepted.
EndpointsSurvive == EP!EndpointsSurvive /\ EP!TextAccepted
=============================================================================
