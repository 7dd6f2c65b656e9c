----------------------------- MODULE OrderedRun -----------------------------
(***************************************************************************)
(* What `smash2 run` promises of its event loop, with no threads in it     *)
(* (the contract stated at the head of run_streaming): the input is cut    *)
(* into chunks of ChunkEvents consecutive events, the chunks are folded in *)
(* file order and only in file order, the loop stops at the first chunk    *)
(* that cannot be folded, and the outcome is a function of the file alone. *)
(*                                                                         *)
(* A file is a sequence of line kinds: an event line that passes or fails  *)
(* the one region counted here, a blank line, a malformed line, or a line  *)
(* whose read fails.  Floating-point sums are not associative, so an       *)
(* accumulator is the sequence of the partials merged into it, each one    *)
(* the sequence of event ordinals it was filled with: two accumulators are *)
(* equal exactly when every addition was made in the same order.           *)
(***************************************************************************)
EXTENDS Integers, FiniteSets, Sequences

CONSTANTS ChunkEvents,   \* events per chunk, at least 1 (4096 in the code)
          Files          \* the inputs considered, sequences of line kinds

VARIABLES file,      \* the input, fixed for the run
          acc,       \* the master accumulator: partials in merge order
          out,       \* ordinals of the events whose line was written
          passed,    \* pass count of the region
          outcome    \* "running", or what run_streaming returned

orderedVars == <<file, acc, out, passed, outcome>>

Running == [kind |-> "running", line |-> 0]
Done == [kind |-> "ok", line |-> 0]
IoError == [kind |-> "io", line |-> 0]
BadLine(n) == [kind |-> "bad", line |-> n]

-----------------------------------------------------------------------------
(* The file, read as a whole. *)

\* Lines before the first one whose read fails.
Readable(f) == {i \in 1..Len(f) : \A j \in 1..i : f[j] # "ioerr"}
EventLines(f) == {i \in Readable(f) : f[i] # "blank"}

\* 0-based dense ordinal of an event line.
Ordinal(f, i) == Cardinality({j \in EventLines(f) : j < i})

ReadFails(f) == \E i \in 1..Len(f) : f[i] = "ioerr"

\* A failed read loses the chunk being filled; the end of the file does not.
ChunkCount(f) ==
  LET n == Cardinality(EventLines(f))
  IN  IF ReadFails(f) THEN n \div ChunkEvents
      ELSE (n + ChunkEvents - 1) \div ChunkEvents

ChunkLines(f, k) == {i \in EventLines(f) : Ordinal(f, i) \div ChunkEvents = k}

FirstOrdinal(k) == k * ChunkEvents

\* The ordinals of chunk k in order: they are consecutive.
ChunkOrdinals(f, k) ==
  [i \in 1..Cardinality(ChunkLines(f, k)) |-> FirstOrdinal(k) + i - 1]

ChunkPasses(f, k) == Cardinality({i \in ChunkLines(f, k) : f[i] = "pass"})

WellFormed(f, k) == \A i \in ChunkLines(f, k) : f[i] # "bad"

BadLines(f) ==
  {i \in EventLines(f) : f[i] = "bad" /\ Ordinal(f, i) \div ChunkEvents < ChunkCount(f)}

\* The malformed line reported is the earliest one in any complete chunk.
Outcome(f) ==
  IF BadLines(f) # {}
  THEN BadLine(CHOOSE i \in BadLines(f) : \A j \in BadLines(f) : i <= j)
  ELSE IF ReadFails(f) THEN IoError ELSE Done

-----------------------------------------------------------------------------
Init == /\ file \in Files
        /\ acc = <<>> /\ out = <<>> /\ passed = 0
        /\ outcome = Running

\* The next chunk of the file, and no other, enters the accumulators.
FoldChunk ==
  LET k == Len(acc)
  IN  /\ outcome = Running
      /\ k < ChunkCount(file)
      /\ WellFormed(file, k)
      /\ acc' = Append(acc, ChunkOrdinals(file, k))
      /\ out' = out \o ChunkOrdinals(file, k)
      /\ passed' = passed + ChunkPasses(file, k)
      /\ UNCHANGED <<file, outcome>>

\* Nothing more can be folded: the loop returns.
Finish ==
  LET k == Len(acc)
  IN  /\ outcome = Running
      /\ k = ChunkCount(file) \/ ~WellFormed(file, k)
      /\ outcome' = Outcome(file)
      /\ UNCHANGED <<file, acc, out, passed>>

Next == FoldChunk \/ Finish

\* What may be returned.  That the loop returns is Termination, of RunStreaming:
\* with it WF_orderedVars(Next) holds, as an outcome disables Next.
Spec == Init /\ [][Next]_orderedVars
=============================================================================
