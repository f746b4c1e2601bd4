------------------------------ MODULE Backends ------------------------------
(***************************************************************************)
(* Either backend behind backend_interface, with the owner of the number,  *)
(* and what the reactor may count on: the events it is given are of the    *)
(* file that is open, and none is withheld.                                *)
(***************************************************************************)
EXTENDS EpollBackend, UringBackend

vars == <<commonVars, epollVars, uringVars>>

Init == CommonInit /\ EpollInit /\ UringInit /\ lpc = "out"

Owner == ((Open \/ Close) /\ UNCHANGED <<epollVars, uringVars>>)
         \/ (EpollOwner /\ UNCHANGED uringVars) \/ (UringOwner /\ UNCHANGED epollVars)
Kernel == (Edge /\ UNCHANGED uringVars) \/ (\E p \in polls : Fire(p) /\ UNCHANGED epollVars)
Loop == (EpollLoop /\ UNCHANGED uringVars) \/ (UringLoop /\ UNCHANGED epollVars)

Next == Owner \/ Kernel \/ Loop
Spec == Init /\ [][Next]_vars
\* The reactor thread keeps calling wait(), and wait() does not for ever end
\* early: each call of it that add_fd or remove_fd wakes has a completion.
Fairness == /\ WF_vars(Loop) /\ SF_vars(Waits /\ UNCHANGED epollVars)
            /\ SF_vars(HandleCqe /\ UNCHANGED epollVars)
FairSpec == Spec /\ Fairness

-----------------------------------------------------------------------------
\* The state has the types of the members of both backends, and the thread
\* positions are the ones add_fd, remove_fd and wait have.
TypeOK == /\ backend \in {"epoll", "uring"} /\ file \in {NoFile} \cup Files /\ opened \in 0..MaxFiles
          /\ upc \in {"closed", "open", "activate", "ctl", "added", "del", "removed"}
          /\ events \in 0..MaxEvents /\ wrong \in BOOLEAN
          /\ lpc \in {"off", "out", "batch", "submit", "reap", "arm", "last"}
          /\ EpollTypeOK /\ UringTypeOK

\* epoll: an event that epoll_wait returned of a file that has been removed
\* and closed since is not passed on for the file that took over its number,
\* because add_fd gave that file another generation.
EventsMatchFile == IsEpoll => ~wrong

\* epoll: registrations are edge-triggered, so an edge that is dropped is
\* never repeated.  While the file is registered, every edge wait() has not
\* passed on is still in the kernel, or in the batch and will not be dropped.
EdgeNotLost == IsEpoll /\ upc = "added" /\ file \in unseen =>
                 \/ \E i \in item : i.file = file /\ i.hot
                 \/ \E e \in batch : e.file = file /\ Passes(e)

\* Every place where the request of the armed poll can be.
Requests == pendAdds \cup adds \cup arms \cup {p.gen : p \in polls} \cup {c.gen : c \in ToSet(cq)}
Outstanding == Cardinality(pendAdds) + Cardinality(adds) + Cardinality(arms) + Cardinality(polls)
               + Len(cq)
GensFit == entry.gen < GenLimit

\* io_uring: an entry of polls_ is armed exactly while one request with its
\* generation is under way: recorded, taken by a flush, about to be re-armed,
\* in the kernel, or completed and not yet handled.  There are never two,
\* though next_gen starts again at 1 whenever the entry has been erased, and
\* never none, which would leave the descriptor unwatched for good.  The
\* generation has to fit the bits pack_fd leaves it.
OneRequest == IsUring /\ GensFit =>
                IF entry.armed THEN Requests = {entry.gen} /\ Outstanding = 1
                               ELSE Requests = {} /\ ~entry.desired

\* io_uring: a poll that watches a file other than the open one is going to be
\* removed, so that its completion lets handle_cqe watch the right file.  This
\* fails once one flush submits a remove ahead of the add it cancels.
PollFollowsFile == IsUring /\ GensFit /\ ~crossed =>
                     \A p \in polls : p.file = file \/ p.gen \in pendRemoves \cup removes

\* The bookkeeping of the requests, with either backend.
RequestsConsistent == TypeOK /\ OneRequest /\ PollFollowsFile

Watched == IF IsEpoll THEN \E i \in item : i.file = file
                      ELSE \/ \E p \in polls : p.file = file
                           \/ \E k \in 1..Len(cq) : cq[k].file = file
\* Both: a file handed to add_fd is in the end watched by the kernel, however
\* its adding falls with the last steps of the file before it under the same
\* number, unless it is removed first.
AddedIsWatched == (upc = "added") ~> (Watched \/ upc # "added" \/ crossed \/ ~GensFit)
=============================================================================
