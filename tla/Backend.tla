------------------------------ MODULE Backend ------------------------------
(***************************************************************************)
(* The readiness backends of the reactor, for one descriptor number.  Its  *)
(* owner opens a file under it, calls add_fd, later remove_fd, and closes  *)
(* it; then the number is free for the next file.  Meanwhile the reactor   *)
(* thread waits for events.  Nothing couples two numbers, and the wakeup   *)
(* eventfd is EventLoop's.                                                 *)
(*                                                                         *)
(* Here are the owner and what both backends have in common; EpollBackend  *)
(* and UringBackend hold the two implementations of the interface.         *)
(***************************************************************************)
EXTENDS Integers, Sequences, FiniteSets, SequencesExt

CONSTANTS MaxFiles,    \* bound: files opened under the number
          MaxEvents,   \* bound: times a file becomes ready
          GenLimit     \* the generations that survive pack_fd of uring.ipp (2^30)

ASSUME BackendAssumption == MaxFiles \in Nat /\ MaxEvents \in Nat /\ GenLimit \in Nat \ {0}

Files == 1..MaxFiles
NoFile == 0

VARIABLES
  backend,      \* "epoll" or "uring"; never changes
  file,         \* the file open under the number, or NoFile
  opened,       \* files opened so far
  upc,          \* where the owner of the number is
  events,       \* times a file became ready so far
  lpc,          \* where the reactor thread is in wait(); "off" if there is none
  wrong         \* history: an event was reported of a file no longer open

commonVars == <<backend, file, opened, upc, events, lpc, wrong>>

CommonInit == /\ backend \in {"epoll", "uring"}
              /\ file = NoFile /\ opened = 0 /\ upc = "closed"
              /\ events = 0 /\ wrong = FALSE

UGo(p, q) == upc = p /\ upc' = q
LGo(p, q) == lpc = p /\ lpc' = q
Report(f) == wrong' = (wrong \/ f # file)

Open == /\ UGo("closed", "open") /\ opened < MaxFiles
        /\ opened' = opened + 1 /\ file' = opened + 1
        /\ UNCHANGED <<backend, events, lpc, wrong>>

Close == /\ UGo("removed", "closed") /\ file' = NoFile
         /\ UNCHANGED <<backend, opened, events, lpc, wrong>>
=============================================================================
