-------------------------- MODULE StreamAlgorithms --------------------------
(***************************************************************************)
(* io::async_read, async_write and async_read_until over a stream whose    *)
(* async_read_some and async_write_some move any positive number of bytes, *)
(* or none, or fail.  `mem` is the caller's whole buffer, with whatever    *)
(* bytes it happened to hold; only its first `at` bytes belong to the call.*)
(***************************************************************************)
EXTENDS Integers, FiniteSetsExt, SequencesExt

CONSTANTS Bytes,       \* byte values
          MaxSize,     \* bound: bytes in the caller's buffer
          MaxDelim     \* bound: bytes in a delimiter

VARIABLES
  call,        \* [op, delim, initial]: the arguments beside the buffer
  mem,         \* the caller's buffer
  at,          \* current_size; for read and write, how far buf has advanced
  searchFrom,  \* search_from
  spc,         \* "start", "loop" or "done"
  outcome,     \* what co_return returned
  stream       \* history: the bytes the stream delivered or accepted, in order

streamVars == <<call, mem, at, searchFrom, spc, outcome, stream>>

\* A result<size_t>: an error, or the number of bytes.
Ok(k) == [err |-> "none", n |-> k]
Error(e) == [err |-> e, n |-> 0]

Strings(n) == UNION {[1..k -> Bytes] : k \in 0..n}
IsUntil == call.op \in {"until", "char"}

\* Any delimiter, the empty one included, for the span overload; one byte for
\* the char overload.  initial_size may exceed the buffer.
Calls == [op : {"read", "write"}, delim : {<<>>}, initial : {0}]
         \cup [op : {"until"}, delim : Strings(MaxDelim), initial : 0..MaxSize + 1]
         \cup [op : {"char"}, delim : [1..1 -> Bytes], initial : 0..MaxSize + 1]

Init == /\ call \in Calls /\ mem \in Strings(MaxSize)
        /\ at = 0 /\ searchFrom = 0 /\ spc = "start" /\ outcome = Ok(0) /\ stream = <<>>

-----------------------------------------------------------------------------
\* std::search and memchr: the offset of the first occurrence of d in s.
Matches(s, d) == {i \in 0..Len(s) - Len(d) : SubSeq(s, i + 1, i + Len(d)) = d}
NoMatch == -1
Find(s, d) == IF Matches(s, d) = {} THEN NoMatch ELSE Min(Matches(s, d))

\* Where a delimiter that is not yet complete after n bytes may begin.
SearchNewOnly(n) == n
Overlap(n) == IF n > Len(call.delim) - 1 THEN n - (Len(call.delim) - 1) ELSE 0
\* The char overload: a delimiter of one byte crosses no boundary.
NextSearch(n) == IF call.op = "char" THEN n ELSE Overlap(n)

Return(r) == spc' = "done" /\ outcome' = r

\* The bytes of the buffer that are searched: those received, from search_from.
SearchWhole(m, n) == SubSeq(m, searchFrom + 1, Len(m))
Searched(m, n) == SubSeq(m, searchFrom + 1, n)

\* async_read_until before its first co_await: the argument checks and the
\* search of the initial bytes.
Found(p) == Ok(p + Len(call.delim))
UntilStart ==
  LET initialBytes == SubSeq(mem, 1, call.initial)
  IN  /\ spc = "start" /\ IsUntil
      /\ IF call.delim = <<>> \/ call.initial > Len(mem)
         THEN Return(Error("invalid_argument")) /\ UNCHANGED <<at, searchFrom>>
         ELSE /\ at' = call.initial
              /\ IF Find(initialBytes, call.delim) # NoMatch
                 THEN Return(Found(Find(initialBytes, call.delim))) /\ UNCHANGED searchFrom
                 ELSE spc' = "loop" /\ searchFrom' = NextSearch(call.initial) /\ UNCHANGED outcome
      /\ UNCHANGED <<call, mem, stream>>

\* async_read and async_write have nothing to do before their loop.
TransferStart == /\ spc = "start" /\ ~IsUntil /\ spc' = "loop"
                 /\ UNCHANGED <<call, mem, at, searchFrom, outcome, stream>>

\* The stream stores s in the unfilled part of the buffer; async_read goes on.
Stored(m, n, s) == [i \in 1..Len(m) |-> IF i \in n + 1..n + Len(s) THEN s[i - n] ELSE m[i]]
Receive(s) == /\ s # <<>> /\ at + Len(s) <= Len(mem)
              /\ mem' = Stored(mem, at, s) /\ at' = at + Len(s) /\ stream' = stream \o s
ReadSome == /\ spc = "loop" /\ call.op = "read"
            /\ \E s \in Strings(Len(mem) - at) : Receive(s)
            /\ UNCHANGED <<call, searchFrom, spc, outcome>>

\* async_write_some takes some of the bytes the span still covers.
WriteSome == /\ spc = "loop" /\ call.op = "write"
             /\ \E n \in 1..Len(mem) - at :
                  at' = at + n /\ stream' = stream \o SubSeq(mem, at + 1, at + n)
             /\ UNCHANGED <<call, mem, searchFrom, spc, outcome>>

\* async_read_until searches what the new bytes can have completed.
UntilRead == /\ spc = "loop" /\ IsUntil
             /\ \E s \in Strings(Len(mem) - at) : Receive(s)
             /\ LET p == Find(Searched(mem', at'), call.delim)
                IN  IF p # NoMatch
                    THEN Return(Found(searchFrom + p)) /\ UNCHANGED searchFrom
                    ELSE searchFrom' = NextSearch(at') /\ UNCHANGED <<spc, outcome>>
             /\ UNCHANGED call

\* The stream moves no byte, or fails with an error that is passed on.
NoneMoved == IF call.op = "write" THEN "broken_pipe" ELSE "eof"
StreamEnds == /\ spc = "loop" /\ at < Len(mem)
              /\ Return(Error(NoneMoved)) \/ Return(Error("stream_error"))
              /\ UNCHANGED <<call, mem, at, searchFrom, stream>>

\* The loop condition fails: the buffer is done with.
Complete == /\ spc = "loop" /\ at = Len(mem)
            /\ Return(IF IsUntil THEN Error("message_size") ELSE Ok(Len(mem)))
            /\ UNCHANGED <<call, mem, at, searchFrom, stream>>

Next == \/ UntilStart \/ TransferStart \/ ReadSome \/ WriteSome \/ UntilRead
        \/ StreamEnds \/ Complete

Spec == Init /\ [][Next]_streamVars

-----------------------------------------------------------------------------
\* Every field stays in its range.
TypeOK == /\ call \in Calls /\ mem \in Strings(MaxSize) /\ at \in 0..MaxSize
          /\ searchFrom \in 0..MaxSize /\ spc \in {"start", "loop", "done"}
          /\ outcome \in [err : {"none", "invalid_argument", "eof", "broken_pipe", "stream_error",
                                 "message_size"}, n : 0..MaxSize]
          /\ stream \in Strings(MaxSize)

\* The reference for async_read_until: the length of the shortest prefix of s
\* that ends with d.
Ends(s, d) == {n \in Len(d)..Len(s) : SubSeq(s, n - Len(d) + 1, n) = d}

\* What the caller knows to be in the buffer: its own initial bytes followed by
\* what the stream delivered since.
Received == SubSeq(mem, 1, at)

\* async_read_until, whatever the sizes of the reads and whatever the rest of
\* the buffer held: it returns the end of the FIRST occurrence of the
\* delimiter, also when reads split it; it reads no further once it has one; it
\* reports eof, message_size or the stream's error only without one, and
\* message_size only with a full buffer.
UntilReturnsFirst ==
  IsUntil /\ spc # "start" /\ outcome.err # "invalid_argument" =>
    LET ends == Ends(Received, call.delim)
    IN  IF ends # {}
        THEN spc = "done" /\ outcome = Ok(Min(ends))
        ELSE spc = "done" => \/ outcome.err \in {"eof", "stream_error"}
                             \/ outcome.err = "message_size" /\ at = Len(mem)

\* async_read and async_write move the whole buffer or report why not, and the
\* bytes reach the other side in order, none twice and none skipped.
TransfersWhole ==
  /\ stream = SubSeq(mem, call.initial + 1, at)
  /\ ~IsUntil /\ spc = "done" =>
       (outcome = Ok(Len(mem)) /\ at = Len(mem)) # (outcome.err # "none" /\ at < Len(mem))
=============================================================================
