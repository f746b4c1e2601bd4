---------------------------- MODULE EpollBackend ----------------------------
(***************************************************************************)
(* backend_epoll: edge-triggered, one registration of the file with the    *)
(* kernel, whose data carries a generation of the number.                  *)
(***************************************************************************)
EXTENDS Backend

VARIABLES
  generation,  \* fd_generations_[fd]
  active,      \* fd_active_[fd]
  item,        \* the kernel's registrations: [file, gen, hot]; hot: an edge is unreported
  batch,       \* events[]: what epoll_wait returned and is yet to be looked at
  unseen       \* history: files with an edge that no event has told of

epollVars == <<generation, active, item, batch, unseen>>
IsEpoll == backend = "epoll"

EpollInit == generation = 0 /\ active = FALSE /\ item = {} /\ batch = {} /\ unseen = {}

\* add_fd: the generation, the flag, the registration.
AddGeneration == /\ IsEpoll /\ UGo("open", "activate")
                 /\ generation' = generation + 1
                 /\ UNCHANGED <<backend, file, opened, events, lpc, wrong, active, item, batch, unseen>>
AddActive == /\ UGo("activate", "ctl")
             /\ active' = TRUE
             /\ UNCHANGED <<backend, file, opened, events, lpc, wrong, generation, item, batch, unseen>>
OldData == generation - 1
Data == generation
AddCtl == /\ UGo("ctl", "added")
          /\ item' = item \cup {[file |-> file, gen |-> Data, hot |-> file \in unseen]}
          /\ UNCHANGED <<backend, file, opened, events, lpc, wrong, generation, active, batch, unseen>>
AddFails == /\ UGo("ctl", "removed")
            /\ UNCHANGED <<backend, file, opened, events, lpc, wrong, epollVars>>

\* remove_fd: the flag, then the registration goes.
RemoveActive == /\ IsEpoll /\ UGo("added", "del")
                /\ active' = FALSE
                /\ UNCHANGED <<backend, file, opened, events, lpc, wrong, generation, item, batch, unseen>>
RemoveCtl == /\ UGo("del", "removed")
             /\ item' = {i \in item : i.file # file}
             /\ UNCHANGED <<backend, file, opened, events, lpc, wrong, generation, active, batch, unseen>>

\* The kernel: the file becomes readable or writable, fails or hangs up.
Edge == /\ IsEpoll /\ file # NoFile /\ events < MaxEvents
        /\ events' = events + 1
        /\ unseen' = unseen \cup {file}
        /\ item' = {IF i.file = file THEN [i EXCEPT !.hot = TRUE] ELSE i : i \in item}
        /\ UNCHANGED <<backend, file, opened, upc, lpc, wrong, generation, active, batch>>

\* wait: epoll_wait returns, and each event is passed on or dropped.
EpollWait == /\ IsEpoll /\ LGo("out", "batch")
             /\ batch' = {i \in item : i.hot}
             /\ item' = {[i EXCEPT !.hot = FALSE] : i \in item}
             /\ UNCHANGED <<backend, file, opened, upc, events, wrong, generation, active, unseen>>

IgnoreGeneration(e) == active
Passes(e) == active /\ generation = e.gen
EpollEvent(e) == /\ lpc = "batch" /\ e \in batch
                 /\ batch' = batch \ {e}
                 /\ IF Passes(e) THEN Report(e.file) /\ unseen' = unseen \ {e.file}
                                 ELSE UNCHANGED <<wrong, unseen>>
                 /\ UNCHANGED <<backend, file, opened, upc, events, lpc, generation, active, item>>

EpollReturn == /\ LGo("batch", "out") /\ batch = {}
               /\ UNCHANGED <<backend, file, opened, upc, events, wrong, epollVars>>

EpollOwner == AddGeneration \/ AddActive \/ AddCtl \/ AddFails \/ RemoveActive \/ RemoveCtl
EpollLoop == EpollWait \/ (\E e \in batch : EpollEvent(e)) \/ EpollReturn

EpollTypeOK ==
  /\ generation \in Nat /\ active \in BOOLEAN
  /\ item \subseteq [file : Files, gen : Nat, hot : BOOLEAN]
  /\ batch \subseteq [file : Files, gen : Nat, hot : {TRUE}]
  /\ unseen \subseteq Files
=============================================================================
