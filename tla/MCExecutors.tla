---------------------------- MODULE MCExecutors ----------------------------
(***************************************************************************)
(* The two executors beside io_context: a strand over two workers, with    *)
(* four tasks so that a drain can run into its limit while two clients     *)
(* race to schedule the next one; and a thread pool of two workers, so     *)
(* that a notification can find one asleep and one awake.  A behaviour is  *)
(* about one of them; the other one rests, the pool with all its workers   *)
(* asleep.                                                                 *)
(***************************************************************************)
EXTENDS Strand, TLC

CONSTANTS w1, w2, c1, c2, f1, f2, f3, f4,
          PoolTasks, MaxGuards

ASSUME PoolAssumption == /\ Workers # {}   \* "n_threads must be > 0"
                         /\ NoTask \notin PoolTasks
                         /\ MaxGuards \in Nat

VARIABLES layer,
          state, queue, waiting, guards, owner, pwpc, prunning, pcpc, jpc, accepted, pfinished, guarded

TP == INSTANCE ThreadPool WITH Tasks <- PoolTasks, wpc <- pwpc, running <- prunning, cpc <- pcpc,
                               finished <- pfinished
poolVars == <<state, queue, waiting, guards, owner, pwpc, prunning, pcpc, jpc, accepted, pfinished,
              guarded>>

\* The pool's initial state, or the state it is in once all workers sleep.
PoolRests == /\ state = "running" /\ queue = <<>> /\ waiting = Cardinality(Workers) /\ guards = 0
             /\ owner = {} /\ pwpc = [w \in Workers |-> "asleep"]
             /\ prunning = [w \in Workers |-> NoTask] /\ pcpc = [c \in Clients |-> "idle"]
             /\ jpc = "idle" /\ accepted = {} /\ pfinished = {} /\ guarded = FALSE

MCInit == Init /\ ((layer = "strand" /\ PoolRests) \/ (layer = "pool" /\ TP!Init))
MCNext == \/ layer = "strand" /\ Next /\ UNCHANGED <<layer, poolVars>>
          \/ layer = "pool" /\ TP!Next /\ UNCHANGED <<layer, vars>>
MCSpec == MCInit /\ [][MCNext]_<<layer, vars, poolVars>> /\ Fairness /\ TP!Fairness

\* Types; work never waits without a drain or a worker that will see it; a task
\* is in one place.
ExecutorsConsistent == TasksConsistent /\ TP!PoolConsistent

\* Both are executors in the sense of Executor.
ExecutorsImplement == ImplementsExecutor /\ TP!ImplementsExecutor

\* Every task either of them accepted runs to its end.
AcceptedTasksRun == EveryTaskRuns /\ TP!AcceptedTaskRuns

\* join() returns only when every accepted task has run.
JoinRunsEverything == TP!JoinRunsEverything

\* After stop() or join() the workers leave, so join() does return.
WorkersExit == TP!WorkersExit

Symmetry == Permutations({w1, w2}) \cup Permutations({c1, c2}) \cup Permutations({f1, f2, f3, f4})
=============================================================================
