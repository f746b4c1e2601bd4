---------------------------- MODULE UringBackend ----------------------------
(***************************************************************************)
(* backend_uring: one-shot polls, each re-armed under a new generation     *)
(* when it completes.  add_fd and remove_fd only record what they want;    *)
(* the reactor thread submits it from wait().  A poll resolves the number  *)
(* to a file when it is submitted and holds on to that file.               *)
(*                                                                         *)
(* The mask is one constant, so active_mask and desired_mask are booleans  *)
(* and the branch of add_fd for an active mask that differs is never       *)
(* taken.  Completions of poll removals carry nothing and are left out.    *)
(***************************************************************************)
EXTENDS Backend

VARIABLES
  entry,                  \* polls_[fd], or NoEntry
  pendAdds, pendRemoves,  \* pending_adds_, pending_removes_, by generation
  adds, removes,          \* what flush_pending_updates has taken and not submitted
  arms,                   \* local_arms
  polls,                  \* the kernel's polls: [gen, file]
  cq,                     \* the completion queue: [gen, file, res]
  crossed                 \* history: one flush took an add and the remove that came after it

uringVars == <<entry, pendAdds, pendRemoves, adds, removes, arms, polls, cq, crossed>>
IsUring == backend = "uring"
NoEntry == [present |-> FALSE, armed |-> FALSE, cancel |-> FALSE, gen |-> 0, desired |-> FALSE,
            next |-> 1]

UringInit == /\ entry = NoEntry /\ pendAdds = {} /\ pendRemoves = {} /\ adds = {} /\ removes = {}
             /\ arms = {} /\ polls = {} /\ cq = <<>> /\ crossed = FALSE

\* A fresh generation: what add_fd and handle_cqe store to arm the entry.
Arm(st) == [st EXCEPT !.armed = TRUE, !.cancel = FALSE, !.gen = st.next, !.next = st.next + 1]
Wanted == [entry EXCEPT !.present = TRUE, !.desired = TRUE]

\* add_fd and remove_fd, under poll_mtx_.
UringAdd == /\ IsUring /\ UGo("open", "added")
            /\ IF entry.armed THEN entry' = Wanted /\ UNCHANGED pendAdds
                              ELSE entry' = Arm(Wanted) /\ pendAdds' = pendAdds \cup {Arm(Wanted).gen}
            /\ UNCHANGED <<backend, file, opened, events, lpc, wrong, pendRemoves, adds, removes, arms,
                           polls, cq, crossed>>

Removal == IF entry.cancel THEN pendRemoves ELSE pendRemoves \cup {entry.gen}

UringRemove == /\ IsUring /\ UGo("added", "removed")
               /\ IF entry.armed
                    THEN /\ entry' = [entry EXCEPT !.desired = FALSE, !.cancel = TRUE]
                         /\ pendRemoves' = Removal
                    ELSE entry' = NoEntry /\ UNCHANGED pendRemoves
               /\ UNCHANGED <<backend, file, opened, events, lpc, wrong, pendAdds, adds, removes, arms,
                              polls, cq, crossed>>

-----------------------------------------------------------------------------
\* flush_pending_updates: the swap, then removes before adds.
Flush(p, q) == /\ IsUring /\ LGo(p, q)
               /\ adds' = pendAdds /\ removes' = pendRemoves
               /\ pendAdds' = {} /\ pendRemoves' = {}
               /\ crossed' = (crossed \/ pendAdds \cap pendRemoves # {})
               /\ UNCHANGED <<backend, file, opened, upc, events, wrong, entry, arms, polls, cq>>

\* pack_fd shifts two bits of the generation out.
Packed(g) == g % GenLimit
Completion(p, res) == [gen |-> p.gen, file |-> p.file, res |-> res]
Submitting == lpc \in {"submit", "last"}

SubmitRemove(g) ==
  /\ Submitting /\ g \in removes
  /\ removes' = removes \ {g}
  /\ LET found == {p \in polls : p.gen = Packed(g)}
     IN /\ polls' = polls \ found
        /\ cq' = cq \o SetToSeq({Completion(p, "cancelled") : p \in found})
  /\ UNCHANGED <<commonVars, entry, pendAdds, pendRemoves, adds, arms, crossed>>

\* A poll of a number that is not open completes at once, with EBADF.
PollAdd(g) == LET p == [gen |-> Packed(g), file |-> file]
              IN IF file = NoFile THEN cq' = Append(cq, Completion(p, "error")) /\ UNCHANGED polls
                                  ELSE polls' = polls \cup {p} /\ UNCHANGED cq
SubmitAdd(g) ==
  /\ Submitting /\ removes = {} /\ g \in adds
  /\ adds' = adds \ {g} /\ PollAdd(g)
  /\ UNCHANGED <<commonVars, entry, pendAdds, pendRemoves, removes, arms, crossed>>

\* The kernel completes a poll: its file is ready.
Fire(p) == /\ p \in polls /\ events < MaxEvents
           /\ events' = events + 1
           /\ polls' = polls \ {p} /\ cq' = Append(cq, Completion(p, "event"))
           /\ UNCHANGED <<backend, file, opened, upc, lpc, wrong, entry, pendAdds, pendRemoves, adds,
                          removes, arms, crossed>>

-----------------------------------------------------------------------------
\* wait: submit, reap, arm, and submit once more.
Waits == /\ LGo("submit", "reap") /\ adds = {} /\ removes = {}
         /\ UNCHANGED <<backend, file, opened, upc, events, wrong, uringVars>>
\* A timeout or a signal.
WaitEndsEarly == /\ LGo("submit", "out") /\ adds = {} /\ removes = {}
                 /\ UNCHANGED <<backend, file, opened, upc, events, wrong, uringVars>>

\* handle_cqe: disarm if the generation matches, re-arm if events are wanted,
\* forget the entry if not.
Matches(c) == entry.armed /\ entry.gen = c.gen
LeftArmed(c) == [entry EXCEPT !.cancel = FALSE]
Disarmed(c) == IF Matches(c) THEN [entry EXCEPT !.armed = FALSE, !.cancel = FALSE, !.gen = 0] ELSE entry
NeverRearms(st) == FALSE
Rearms(st) == st.present /\ ~st.armed /\ st.desired

HandleCqe ==
  LET c == Head(cq)
      st == Disarmed(c)
  IN /\ lpc = "reap" /\ cq # <<>>
     /\ cq' = Tail(cq)
     /\ IF Rearms(st) THEN entry' = Arm(st) /\ arms' = arms \cup {Arm(st).gen}
                      ELSE entry' = (IF st.armed THEN st ELSE NoEntry) /\ UNCHANGED arms
     /\ IF Matches(c) /\ c.res # "cancelled" THEN Report(c.file) ELSE UNCHANGED wrong
     /\ UNCHANGED <<backend, file, opened, upc, events, lpc, pendAdds, pendRemoves, adds, removes, polls,
                    crossed>>

\* The batch ends, wherever the queue is.
Reaped == /\ LGo("reap", "arm")
          /\ UNCHANGED <<backend, file, opened, upc, events, wrong, uringVars>>

SubmitArm(g) == /\ lpc = "arm" /\ g \in arms
                /\ arms' = arms \ {g} /\ PollAdd(g)
                /\ UNCHANGED <<commonVars, entry, pendAdds, pendRemoves, adds, removes, crossed>>

UringReturn == /\ LGo("last", "out") /\ adds = {} /\ removes = {}
               /\ UNCHANGED <<backend, file, opened, upc, events, wrong, uringVars>>

UringOwner == UringAdd \/ UringRemove
UringLoop == \/ Flush("out", "submit") \/ (\E g \in removes : SubmitRemove(g))
             \/ (\E g \in adds : SubmitAdd(g)) \/ Waits \/ WaitEndsEarly \/ HandleCqe \/ Reaped
             \/ (\E g \in arms : SubmitArm(g)) \/ (arms = {} /\ Flush("arm", "last")) \/ UringReturn

Gens == 1..(2 * MaxFiles + MaxEvents)
UringTypeOK ==
  /\ entry \in [present : BOOLEAN, armed : BOOLEAN, cancel : BOOLEAN, gen : {0} \cup Gens,
                desired : BOOLEAN, next : Gens]
  /\ {pendAdds, pendRemoves, adds, removes, arms} \subseteq SUBSET Gens
  /\ polls \subseteq [gen : 0..(GenLimit - 1), file : Files]
  /\ cq \in Seq([gen : 0..(GenLimit - 1), file : Files \cup {NoFile},
                 res : {"event", "cancelled", "error"}])
  /\ crossed \in BOOLEAN
=============================================================================
