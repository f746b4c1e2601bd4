----------------------------- MODULE MCReactor -----------------------------
(***************************************************************************)
(* Descriptors and the reactor, in three layers: either backend by itself, *)
(* with three files in turn under one number; the epoll backend under      *)
(* io_context_impl, with a reader; and remove_fd_sync, with two threads    *)
(* around up to two runs of the loop.  A behaviour is of one layer.        *)
(***************************************************************************)
EXTENDS Reactor

CONSTANTS t1, t2, Threads, MaxRuns

VARIABLES layer, running, runs, loop, cur, rposted, removed, done, removals, pc

RF == INSTANCE RemoveFdSync WITH posted <- rposted
removeVars == <<running, runs, loop, cur, rposted, removed, done, removals, pc>>

MCInit == /\ CommonInit /\ EpollInit /\ UringInit /\ ReactorInit /\ RF!Init
          /\ \/ layer = "backend" /\ lpc = "out" /\ stage = "off" /\ ~foreign
             \/ layer = "reactor" /\ lpc = "out" /\ stage = "posted" /\ backend = "epoll"
             \/ layer = "remove" /\ lpc = "off" /\ stage = "off" /\ ~foreign /\ backend = "epoll"
MCNext == \/ layer = "backend" /\ Next /\ UNCHANGED <<layer, reactorVars, removeVars>>
          \/ layer = "reactor" /\ ReactorNext /\ UNCHANGED <<layer, uringVars, removeVars>>
          \/ layer = "remove" /\ RF!Next /\ UNCHANGED <<layer, vars, reactorVars>>
MCSpec == /\ MCInit /\ [][MCNext]_<<layer, vars, reactorVars, removeVars>>
          /\ Fairness /\ ReactorFairness /\ RF!Fairness

\* Types, and the bookkeeping of the requests of either backend.
ReactorConsistent == RequestsConsistent /\ ReactorTypeOK /\ RF!TypeOK

\* An event is passed on, and dispatched, for the file it is of.
EventReachesItsFile == EventsMatchFile /\ DispatchMatchesFile

\* No edge is lost: not between the kernel and wait(), and not between wait()
\* and the reader.
NoEdgeLost == EdgeNotLost /\ ReadinessKeptIfTracked

\* remove_fd_sync returns when the descriptor has been removed.
ReturnMeansRemoved == RF!ReturnMeansRemoved

\* What is added is watched, who waits for data is served, and who sleeps in
\* remove_fd_sync is woken.
ReactorServes == AddedIsWatched /\ ReaderServed /\ RF!SleeperWoken
=============================================================================
