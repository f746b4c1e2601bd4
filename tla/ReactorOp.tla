----------------------------- MODULE ReactorOp -----------------------------
(***************************************************************************)
(* What every registry of the reactor promises about a reactor_op          *)
(* (reactor_types.hpp): an op is armed at most once, and exactly one of    *)
(* its two callbacks on_complete / on_abort is called, at most once, and   *)
(* never while the registry still holds it.  fd_registry and               *)
(* timer_registry are both shown to implement this specification.          *)
(***************************************************************************)
EXTENDS Naturals

CONSTANT Ops            \* the reactor operations ever created

VARIABLES armed,        \* the ops some registry holds
          onComplete,   \* op -> number of on_complete calls made on it
          onAbort       \* op -> number of on_abort calls made on it

opVars == <<armed, onComplete, onAbort>>

Calls(o) == onComplete[o] + onAbort[o]

Init == /\ armed = {}
        /\ onComplete = [o \in Ops |-> 0]
        /\ onAbort = [o \in Ops |-> 0]

Stays(o) == /\ o \in armed' <=> o \in armed
            /\ onComplete'[o] = onComplete[o]
            /\ onAbort'[o] = onAbort[o]

Arms(o) == /\ o \notin armed
           /\ Calls(o) = 0
           /\ o \in armed'
           /\ onComplete'[o] = 0
           /\ onAbort'[o] = 0

\* The one callback; the registry lets go of the op in the same step.
Ends(o) == /\ Calls(o) = 0
           /\ o \notin armed'
           /\ onComplete'[o] + onAbort'[o] = 1

\* One step may end several ops (an event for both directions, a drain) and
\* arm another (a registration that replaces a waiter).
Next == /\ armed' \subseteq Ops
        /\ onComplete' \in [Ops -> Nat]
        /\ onAbort' \in [Ops -> Nat]
        /\ \A o \in Ops : Stays(o) \/ Arms(o) \/ Ends(o)

Spec == Init /\ [][Next]_opVars
=============================================================================
