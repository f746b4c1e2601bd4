------------------------------ MODULE Executor ------------------------------
(***************************************************************************)
(* What thread_pool and strand_executor promise as executors: post() puts  *)
(* a task in line or refuses it, tasks start in the order they were        *)
(* accepted, and each runs once.  How many run at a time is left open.     *)
(***************************************************************************)
EXTENDS Naturals, Sequences, FiniteSets

CONSTANT Tasks

VARIABLES line,     \* accepted and not started, oldest first
          started,  \* running now
          ended     \* returned or thrown

vars == <<line, started, ended>>
Known == {line[i] : i \in DOMAIN line} \cup started \cup ended

Init == line = <<>> /\ started = {} /\ ended = {}

Accept(f) == /\ f \notin Known
             /\ line' = Append(line, f)
             /\ UNCHANGED <<started, ended>>

Start == /\ line # <<>>
         /\ started' = started \cup {Head(line)}
         /\ line' = Tail(line)
         /\ UNCHANGED ended

End(f) == /\ f \in started
          /\ started' = started \ {f}
          /\ ended' = ended \cup {f}
          /\ UNCHANGED line

Next == Start \/ \E f \in Tasks : Accept(f) \/ End(f)
Spec == Init /\ [][Next]_vars
=============================================================================
