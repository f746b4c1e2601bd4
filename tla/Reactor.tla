------------------------------ MODULE Reactor ------------------------------
(***************************************************************************)
(* The way of an event from the epoll backend to a coroutine that waits    *)
(* for it: io_context_impl between backend_epoll and the entry of          *)
(* fd_registry for one descriptor number, in one direction.  The owner of  *)
(* the number opens files under it, on a foreign thread or on the reactor  *)
(* thread; a coroutine reads from the file and waits when it must; the     *)
(* reactor thread runs posted callbacks, waits and dispatches, in turns.   *)
(* The loop is running throughout (for the rest see RemoveFdSync), and     *)
(* what one wait reports of one number is at most one event.               *)
(***************************************************************************)
EXTENDS Backends

VARIABLES
  foreign,                 \* the owner is not on the reactor thread; never changes
  stage, left,             \* the loop: "posted", with callbacks left to run, "wait", "dispatch"; or "off"
  posted,                  \* posted_, as far as it concerns this number
  tracked, waiter, ready,  \* fd_registry: tracked, the slot's op and its ready flag
  vector,                  \* backend_events_: the files it holds events of
  opc,                     \* the owner: "adding", "use", "closing", "removing", "deregistered"
  rpc,                     \* the reader: "idle", "try", "hop", "waiting"
  data,                    \* the open file has something to read
  stale, dropped           \* histories: an interrupted wait left old events in the vector;
                           \* an event came while the number was not tracked

registryVars == <<tracked, waiter, ready>>
loopVars == <<stage, left, posted, vector>>
reactorVars == <<foreign, loopVars, registryVars, opc, rpc, data, stale, dropped>>

ReactorInit == /\ foreign \in BOOLEAN /\ left = 0 /\ posted = <<>> /\ vector = {}
               /\ tracked = FALSE /\ waiter = FALSE /\ ready = FALSE
               /\ opc = "adding" /\ rpc = "idle" /\ data = FALSE /\ stale = FALSE /\ dropped = FALSE

-----------------------------------------------------------------------------
\* Steps of the owner: anywhere if it is foreign, else between two callbacks
\* of the reactor thread, which then does nothing else until they are done.
MidCall == opc = "deregistered" \/ upc \in {"activate", "ctl"} \/ (opc = "adding" /\ upc = "added")
OwnerRuns == foreign \/ stage = "posted"
ReactorFree == opc # "deregistered" /\ (foreign \/ ~MidCall)

\* io_context_impl::add_fd: the backend first, then the registry, through the
\* posted queue when called from a foreign thread.
OpenAndAdd == /\ opc = "adding" /\ OwnerRuns
              /\ Open \/ Close
              /\ data' = FALSE /\ UNCHANGED <<epollVars, foreign, loopVars, registryVars, opc, rpc, stale, dropped>>
BackendAdds == /\ opc = "adding" /\ OwnerRuns
               /\ AddGeneration \/ AddActive \/ AddCtl \/ AddFails
               /\ UNCHANGED reactorVars
Track == /\ opc = "adding" /\ upc = "added" /\ OwnerRuns /\ opc' = "use"
         /\ IF foreign THEN posted' = Append(posted, "track") /\ UNCHANGED tracked
                       ELSE tracked' = TRUE /\ UNCHANGED posted
         /\ UNCHANGED <<commonVars, epollVars, foreign, stage, left, vector, waiter, ready, rpc, data, stale, dropped>>

\* close(): no new operation, and the registered one is cancelled, on the
\* reactor thread.
CancelWait == waiter' = FALSE /\ rpc' = (IF waiter THEN "idle" ELSE rpc)
CloseCall == /\ opc = "use" /\ OwnerRuns /\ opc' = "closing"
             /\ IF foreign THEN /\ posted' = IF waiter THEN Append(posted, "cancel") ELSE posted
                                /\ UNCHANGED <<waiter, rpc>>
                           ELSE CancelWait /\ UNCHANGED posted
             /\ UNCHANGED <<commonVars, epollVars, foreign, stage, left, vector, tracked, ready, data, stale, dropped>>

\* ~fd_resource, once no operation holds the resource: remove_fd_sync, on the
\* reactor thread, and then close(fd).
RemoveAtOnce == TRUE
DirectRemoval == ~foreign
Deregister == tracked' = FALSE /\ waiter' = FALSE /\ ready' = FALSE /\ opc' = "deregistered"
RemoveFd == /\ opc = "closing" /\ rpc = "idle" /\ OwnerRuns
            /\ IF DirectRemoval THEN Deregister /\ UNCHANGED posted
                                ELSE /\ posted' = Append(posted, "remove") /\ opc' = "removing"
                                     /\ UNCHANGED registryVars
            /\ UNCHANGED <<commonVars, epollVars, foreign, stage, left, vector, rpc, data, stale, dropped>>
BackendRemoves == /\ opc = "deregistered"
                  /\ \/ RemoveActive /\ UNCHANGED opc
                     \/ RemoveCtl /\ opc' = "adding"
                  /\ UNCHANGED <<foreign, loopVars, registryVars, rpc, data, stale, dropped>>

OwnerStep == OpenAndAdd \/ BackendAdds \/ Track \/ CloseCall \/ RemoveFd \/ BackendRemoves

-----------------------------------------------------------------------------
\* register_fd_read consumes latched readiness; set_read_handle refuses a wait
\* on a resource that is closing.
Register == /\ tracked' = TRUE /\ ready' = FALSE
            /\ IF opc = "closing" THEN rpc' = "idle" /\ UNCHANGED waiter
               ELSE IF ready THEN rpc' = "try" /\ UNCHANGED waiter
               ELSE rpc' = "waiting" /\ waiter' = TRUE

\* The reader: the system call, and if it would block the wait for an event,
\* which is registered at once if the reader is on the reactor thread, and
\* after a hop if it is not.
Read == /\ opc = "use" /\ rpc = "idle" /\ rpc' = "try"
        /\ UNCHANGED <<commonVars, epollVars, foreign, loopVars, registryVars, opc, data, stale, dropped>>
Try == /\ rpc = "try"
       /\ IF opc = "closing" THEN rpc' = "idle" /\ UNCHANGED <<data, posted, registryVars>>
          ELSE IF data THEN rpc' = "idle" /\ data' \in BOOLEAN /\ UNCHANGED <<posted, registryVars>>
          ELSE \/ /\ rpc' = "hop" /\ posted' = Append(posted, "register")
                  /\ UNCHANGED <<data, registryVars>>
               \/ /\ stage = "posted" /\ ReactorFree
                  /\ Register /\ UNCHANGED <<data, posted>>
       /\ UNCHANGED <<commonVars, epollVars, foreign, stage, left, vector, opc, stale, dropped>>

\* Bytes arrive at the open file, or it fails or hangs up.
Arrive == /\ Edge /\ data' = TRUE
          /\ UNCHANGED <<foreign, loopVars, registryVars, opc, rpc, stale, dropped>>

-----------------------------------------------------------------------------
\* posted_queue::process, with the callbacks in the order of the queue.
RunPosted == /\ stage = "posted" /\ left > 0 /\ ReactorFree
             /\ left' = left - 1 /\ posted' = Tail(posted)
             /\ CASE Head(posted) = "track" -> tracked' = TRUE /\ UNCHANGED <<waiter, ready, opc, rpc>>
                  [] Head(posted) = "register" -> Register /\ UNCHANGED opc
                  [] Head(posted) = "cancel" -> CancelWait /\ UNCHANGED <<tracked, ready, opc>>
                  [] Head(posted) = "remove" -> Deregister /\ UNCHANGED rpc
             /\ UNCHANGED <<commonVars, epollVars, foreign, stage, vector, data, stale, dropped>>

ToWait == /\ stage = "posted" /\ left = 0 /\ ReactorFree /\ stage' = "wait"
          /\ UNCHANGED <<commonVars, epollVars, foreign, left, posted, vector, registryVars, opc, rpc, data, stale, dropped>>

\* backend_->wait.  An interrupted epoll_wait returns before out.clear().
Wait == /\ stage = "wait"
        /\ \/ EpollWait /\ vector' = {} /\ UNCHANGED stage
           \/ \E e \in batch : /\ EpollEvent(e) /\ UNCHANGED stage
                               /\ vector' = IF Passes(e) THEN vector \cup {e.file} ELSE vector
           \/ EpollReturn /\ stage' = "dispatch" /\ UNCHANGED vector
        /\ UNCHANGED <<foreign, left, posted, registryVars, opc, rpc, data, stale, dropped>>
Interrupted == /\ stage = "wait" /\ lpc = "out" /\ stage' = "dispatch"
               /\ stale' = (vector # {})
               /\ UNCHANGED <<commonVars, epollVars, foreign, left, posted, vector, registryVars, opc, rpc, data, dropped>>

\* The loop over backend_events_: take_ready, then on_complete, or on_abort
\* for an error, which leaves the coroutine to be resumed.
DropReadiness == FALSE
Latch == TRUE
Dispatch == /\ stage = "dispatch" /\ stage' = "posted" /\ left' = Len(posted) /\ stale' = FALSE
            /\ IF vector = {} THEN UNCHANGED <<waiter, ready, rpc, dropped>>
               ELSE IF ~tracked THEN dropped' = TRUE /\ UNCHANGED <<waiter, ready, rpc>>
               ELSE IF waiter THEN waiter' = FALSE /\ rpc' \in {"try", "idle"} /\ UNCHANGED <<ready, dropped>>
               ELSE ready' = Latch /\ UNCHANGED <<waiter, rpc, dropped>>
            /\ UNCHANGED <<commonVars, epollVars, foreign, posted, vector, tracked, opc, data>>

ReactorLoop == RunPosted \/ ToWait \/ Wait \/ Dispatch
ReactorNext == OwnerStep \/ Read \/ Try \/ Arrive \/ ReactorLoop \/ Interrupted

\* The reactor thread keeps running, signals do not interrupt its every wait,
\* and the reader's executor runs it.
epollReactorVars == <<commonVars, epollVars, reactorVars>>
ReactorFairness == /\ WF_epollReactorVars(ReactorLoop \/ BackendRemoves) /\ WF_epollReactorVars(Try)
                   /\ SF_epollReactorVars(Wait)

-----------------------------------------------------------------------------
\* Every variable stays in its range.
ReactorTypeOK ==
  /\ {foreign, tracked, waiter, ready, data, stale, dropped} \subseteq BOOLEAN
  /\ stage \in {"off", "posted", "wait", "dispatch"} /\ left \in 0..Len(posted)
  /\ posted \in Seq({"track", "register", "cancel", "remove"}) /\ vector \subseteq Files
  /\ opc \in {"adding", "use", "closing", "removing", "deregistered"}
  /\ rpc \in {"idle", "try", "hop", "waiting"} /\ (waiter => rpc = "waiting")

\* An event is dispatched to the operations of the file it is of: between the
\* backend's check of the generation and take_ready no other file can come
\* under the number, since removals happen on the reactor thread only.  An
\* interrupted wait is excepted, which dispatches the events of the wait before
\* it once more.
DispatchMatchesFile == stage = "dispatch" /\ ~stale => vector \subseteq {file}

\* An edge on its way from the kernel to the registry.
OnItsWay == \/ \E i \in item : i.file = file /\ i.hot
            \/ \E e \in batch : e.file = file /\ Passes(e)
            \/ file \in vector /\ (lpc = "batch" \/ stage = "dispatch")

\* "Edge-triggered backends can deliver readiness before the waiter is
\* registered.  Latch that readiness in the slot": a reader that was told to
\* wait, and whose file has become readable since, will be told.
ReadinessKept == rpc \in {"hop", "waiting"} /\ data => OnItsWay \/ ready

\* The same, unless an event came before the posted track() had run: take_ready
\* drops it.
ReadinessKeptIfTracked == dropped \/ ReadinessKept

\* A reader that waits while there is something to read is resumed.
ReaderServed == (rpc = "waiting" /\ data) ~> (rpc # "waiting" \/ dropped)
=============================================================================
