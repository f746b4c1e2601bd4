---------------------------- MODULE TypeErasure ----------------------------
(***************************************************************************)
(* The two type-erased holders under every callback and every coroutine:   *)
(* any_executor_storage (copied and moved; an executor that does not fit   *)
(* inline is shared) and unique_function (moved only; a callable that does *)
(* not fit is owned).  The lifetimes are managed by hand: placement new,   *)
(* destroy_at and a raw pointer that may point into the holder itself.     *)
(*                                                                         *)
(* mem.live counts, per holder, the objects constructed in its inline      *)
(* storage and not yet destroyed; mem.refs the owners of each heap object. *)
(* What has been destroyed holds NoValue.                                  *)
(***************************************************************************)
EXTENDS Integers, FiniteSets

CONSTANTS Holders,    \* any_executor or unique_function objects
          Small,      \* values of a type with fits_inline
          Big,        \* values of a type without
          Blocks,     \* bound: heap blocks
          NoValue     \* an empty holder

VARIABLES
  erased,     \* "executor" or "function"
  mem,        \* [ptr, cell, live, heap, refs], see Init
  meant       \* history: holder -> the value its owner put there

eraseVars == <<erased, mem, meant>>

Values == Small \cup Big
Null == [at |-> "null", which |-> 0]
Inline(h) == [at |-> "inline", which |-> h]
Block(b) == [at |-> "heap", which |-> b]
SameType(v, w) == (v \in Small) = (w \in Small)

\* Every holder is empty.  ptr is ptr_, cell what inline_storage_ contains, live
\* how many objects are alive there; is_inline_ and vtable_ follow from ptr.
Init == /\ erased \in {"executor", "function"}
        /\ mem = [ptr  |-> [h \in Holders |-> Null],
                  cell |-> [h \in Holders |-> NoValue],
                  live |-> [h \in Holders |-> 0],
                  heap |-> [b \in Blocks |-> NoValue],
                  refs |-> [b \in Blocks |-> 0]]
        /\ meant = [h \in Holders |-> NoValue]

IsInline(m, h) == m.ptr[h].at = "inline"
Target(m, h) == IF IsInline(m, h) THEN m.cell[m.ptr[h].which] ELSE m.heap[m.ptr[h].which]

-----------------------------------------------------------------------------
\* Placement new into, and destroy_at of, the inline storage of h.
Construct(m, h, v) == [m EXCEPT !.live[h] = @ + 1, !.cell[h] = v, !.ptr[h] = Inline(h)]
Destroy(m, h) == [m EXCEPT !.live[h] = @ - 1, !.cell[h] = NoValue]

\* One owner less: shared_ptr::reset, or delete of the only owner's object.
Release(m, b) == [m EXCEPT !.refs[b] = @ - 1, !.heap[b] = IF m.refs[b] = 1 THEN NoValue ELSE @]
Share(m, h, b) == [m EXCEPT !.refs[b] = @ + 1, !.ptr[h] = Block(b)]

\* reset(): destroy inline or let the heap object go.
Reset(m, h) ==
  IF m.ptr[h] = Null THEN m
  ELSE LET gone == IF IsInline(m, h) THEN Destroy(m, h) ELSE Release(m, m.ptr[h].which)
       IN  [gone EXCEPT !.ptr[h] = Null]

\* The constructor from a concrete executor or callable.
Emplace(m, h, v, b) ==
  IF v \in Small THEN Construct(m, h, v)
  ELSE [m EXCEPT !.heap[b] = v, !.refs[b] = 1, !.ptr[h] = Block(b)]

\* copy_from: only executors; the inline object is copied, the big one shared.
CopyFrom(m, h, o) ==
  IF m.ptr[o] = Null THEN [m EXCEPT !.ptr[h] = Null]
  ELSE IF IsInline(m, o) THEN Construct(m, h, Target(m, o))
  ELSE Share(m, h, m.ptr[o].which)

\* The source of a move ends empty.
KeepSource(m, o) == m
EmptySource(m, o) == [m EXCEPT !.ptr[o] = Null]

\* move_from of any_executor_storage: move_inline constructs in the target and
\* destroys the source object; a shared_ptr is handed on.
MoveFrom(m, h, o) ==
  IF m.ptr[o] = Null THEN [m EXCEPT !.ptr[h] = Null]
  ELSE IF IsInline(m, o)
  THEN EmptySource(Destroy(Construct(m, h, Target(m, o)), o), o)
  ELSE EmptySource([m EXCEPT !.ptr[h] = m.ptr[o]], o)

\* move_from of unique_function: the same, with an owning raw pointer.
TakeFrom(m, h, o) == MoveFrom(m, h, o)

-----------------------------------------------------------------------------
\* Constructing a holder from a value; b is where make_shared or new allocates.
Make(h, v) == /\ mem.ptr[h] = Null
              /\ \E b \in Blocks : mem.refs[b] = 0 /\ mem' = Emplace(mem, h, v, b)
              /\ meant' = [meant EXCEPT ![h] = v]

\* The destructor, and unique_function's assignment from nullptr.
Drop(h) == mem' = Reset(mem, h) /\ meant' = [meant EXCEPT ![h] = NoValue]

\* operator= tests for self-assignment before it resets.
AssignAlways(h, o) == TRUE
NotSelf(h, o) == h # o

\* Copy construction (h empty) and copy assignment; executors only.
CopyAssign(h, o) ==
  /\ erased = "executor"
  /\ mem' = IF NotSelf(h, o) THEN CopyFrom(Reset(mem, h), h, o) ELSE mem
  /\ meant' = [meant EXCEPT ![h] = meant[o]]

\* Move construction and move assignment of any_executor_storage.
MoveAssign(h, o) ==
  /\ erased = "executor"
  /\ mem' = IF NotSelf(h, o) THEN MoveFrom(Reset(mem, h), h, o) ELSE mem
  /\ meant' = [meant EXCEPT ![o] = NoValue, ![h] = meant[o]]

\* Move construction and move assignment of unique_function.
TakeAssign(h, o) ==
  /\ erased = "function"
  /\ mem' = IF NotSelf(h, o) THEN TakeFrom(Reset(mem, h), h, o) ELSE mem
  /\ meant' = [meant EXCEPT ![o] = NoValue, ![h] = meant[o]]

Next == /\ \/ \E h \in Holders, v \in Values : Make(h, v)
           \/ \E h \in Holders : Drop(h)
           \/ \E h, o \in Holders : CopyAssign(h, o) \/ MoveAssign(h, o) \/ TakeAssign(h, o)
        /\ UNCHANGED erased

Spec == Init /\ [][Next]_eraseVars

-----------------------------------------------------------------------------
\* operator==: both empty, or the same type and equal objects.
Equal(a, b) ==
  \/ mem.ptr[a] = Null /\ mem.ptr[b] = Null
  \/ /\ mem.ptr[a] # Null /\ mem.ptr[b] # Null
     /\ SameType(Target(mem, a), Target(mem, b)) /\ Target(mem, a) = Target(mem, b)

Owners(b) == {h \in Holders : mem.ptr[h] = Block(b)}

\* Over any sequence of copies, moves, self-assignments and destructions every
\* object is destroyed exactly once: what is alive inline is exactly what its
\* own holder points to, and a heap object has exactly its owners, one for a
\* unique_function.
DestroyedOnce ==
  /\ \A h \in Holders : mem.live[h] = IF mem.ptr[h] = Inline(h) THEN 1 ELSE 0
  /\ \A h \in Holders : IsInline(mem, h) => mem.ptr[h] = Inline(h)
  /\ \A b \in Blocks : mem.refs[b] = Cardinality(Owners(b))
  /\ erased = "function" => \A b \in Blocks : Cardinality(Owners(b)) <= 1

\* A holder reaches the value last put there, never another holder's, and two
\* holders compare equal exactly when their values are.
HoldsWhatWasPut ==
  /\ \A h \in Holders : meant[h] = IF mem.ptr[h] = Null THEN NoValue ELSE Target(mem, h)
  /\ \A a, b \in Holders : Equal(a, b) = (meant[a] = meant[b])
=============================================================================
