---------------------------- MODULE RunStreaming ----------------------------
(***************************************************************************)
(* The parallel event loop of `smash2 run` (adl-cli/src/cmd/parallel.rs)   *)
(* over the chunk reader of adl-interp/src/event.rs.                       *)
(*                                                                         *)
(* Workers share a RawChunkReader behind a mutex, parse and evaluate the   *)
(* chunk they pulled with no lock held, and send the partial result down   *)
(* an mpsc channel.  The main thread parks results in a reorder buffer and *)
(* merges them in ascending chunk index.  A malformed chunk is dropped and *)
(* its earliest bad line kept in firstErr; a failed read ends the reader.  *)
(***************************************************************************)
EXTENDS Integers, FiniteSets, Sequences, SequencesExt

CONSTANTS Workers,       \* one per --jobs
          ChunkEvents,   \* CHUNK_EVENTS
          Files          \* inputs the run may be given

LineKind == {"pass", "fail", "blank", "bad", "ioerr"}

ASSUME WorkersAssumption == Workers # {}
ASSUME ChunkEventsAssumption == ChunkEvents \in Nat \ {0}
ASSUME FilesAssumption == Files \subseteq Seq(LineKind)

VARIABLES file,       \* the input lines
          reader,     \* RawChunkReader: pos, nextIndex, nextOrdinal, done
          pc,         \* control state of each worker
          held,       \* the raw chunk each worker works on
          firstErr,   \* Mutex<Option<(usize, StreamError)>>
          chan,       \* results sent and not yet received
          reorder,    \* results parked until their turn
          next,       \* index of the chunk to merge next
          acc,        \* master accumulators: partials in merge order
          out,        \* ordinals of the event lines written
          passed,     \* pass_counts of the one region modelled
          outcome     \* what run_streaming returned

vars == <<file, reader, pc, held, firstErr, chan, reorder, next, acc, out,
          passed, outcome>>

Running == [kind |-> "running", line |-> 0]
Done == [kind |-> "ok", line |-> 0]
IoError == [kind |-> "io", line |-> 0]
BadLine(n) == [kind |-> "bad", line |-> n]

NoErr == [key |-> 0, err |-> Done]
NoChunk == [index |-> -1, first |-> 0, lines |-> {}]

\* usize::MAX, the key of an I/O error: after every line of the file.
IoKey == Len(file) + 1

-----------------------------------------------------------------------------
(* RawChunkReader::next *)

NonBlank(a, b) == {i \in a..b : file[i] \notin {"blank", "ioerr"}}

\* The line at which one call of next() stops: the read that fails, the line
\* that fills the chunk, or the end of the file.
Stops(pos) ==
  {i \in pos+1..Len(file) : \/ file[i] = "ioerr"
                            \/ Cardinality(NonBlank(pos+1, i)) = ChunkEvents}
StopLine(pos) ==
  IF Stops(pos) = {} THEN Len(file)
  ELSE CHOOSE i \in Stops(pos) : \A j \in Stops(pos) : i <= j

ReadError(pos) == \E i \in pos+1..Len(file) : i = StopLine(pos) /\ file[i] = "ioerr"

\* The non-blank lines one call of next() takes.
Taken(pos) == NonBlank(pos+1, StopLine(pos))

-----------------------------------------------------------------------------
(* RawChunk::parse, and what evaluating a parsed chunk yields *)

BadIn(chunk) == {i \in chunk.lines : file[i] = "bad"}

\* Mutation: ordinals counted from one before the chunk's first.
PartialOffByOne(chunk) ==
  [i \in 1..Cardinality(chunk.lines) |-> chunk.first + i - 2]

\* Events are evaluated in line order: their ordinals are consecutive.
Partial(chunk) ==
  [i \in 1..Cardinality(chunk.lines) |-> chunk.first + i - 1]

ChunkResult(chunk) ==
  [index |-> chunk.index,
   part |-> Partial(chunk),
   pass |-> Cardinality({i \in chunk.lines : file[i] = "pass"})]

\* Mutation: the entry with the largest key is kept.
RecordLatestErr(key, err) ==
  IF firstErr # NoErr /\ firstErr.key >= key
  THEN UNCHANGED firstErr
  ELSE firstErr' = [key |-> key, err |-> err]

\* record_err keeps the entry with the smallest key, the older one on a tie.
RecordErr(key, err) ==
  IF firstErr # NoErr /\ firstErr.key <= key
  THEN UNCHANGED firstErr
  ELSE firstErr' = [key |-> key, err |-> err]

-----------------------------------------------------------------------------
Init ==
  /\ file \in Files
  /\ reader = [pos |-> 0, nextIndex |-> 0, nextOrdinal |-> 0, done |-> FALSE]
  /\ pc = [w \in Workers |-> "pull"]
  /\ held = [w \in Workers |-> NoChunk]
  /\ firstErr = NoErr
  /\ chan = <<>> /\ reorder = {} /\ next = 0
  /\ acc = <<>> /\ out = <<>> /\ passed = 0
  /\ outcome = Running

fold == <<reorder, next, acc, out, passed, outcome>>

\* Mutation: the chunk index is not advanced under the lock.
PullSameIndex(w) ==
  /\ pc[w] = "pull"
  /\ ~reader.done /\ ~ReadError(reader.pos) /\ Taken(reader.pos) # {}
  /\ held' = [held EXCEPT ![w] = [index |-> reader.nextIndex,
                                  first |-> reader.nextOrdinal,
                                  lines |-> Taken(reader.pos)]]
  /\ reader' = [reader EXCEPT
                  !.pos = StopLine(reader.pos),
                  !.nextOrdinal = @ + Cardinality(Taken(reader.pos))]
  /\ pc' = [pc EXCEPT ![w] = "work"]
  /\ UNCHANGED <<file, firstErr, chan, fold>>

\* next() yields a chunk: the worker leaves the reader lock holding it.
PullChunk(w) ==
  /\ pc[w] = "pull"
  /\ ~reader.done
  /\ ~ReadError(reader.pos)
  /\ Taken(reader.pos) # {}
  /\ held' = [held EXCEPT ![w] = [index |-> reader.nextIndex,
                                  first |-> reader.nextOrdinal,
                                  lines |-> Taken(reader.pos)]]
  /\ reader' = [reader EXCEPT
                  !.pos = StopLine(reader.pos),
                  !.nextIndex = @ + 1,
                  !.nextOrdinal = @ + Cardinality(Taken(reader.pos))]
  /\ pc' = [pc EXCEPT ![w] = "work"]
  /\ UNCHANGED <<file, firstErr, chan, fold>>

\* The read fails: the lines of the chunk being filled are lost with it.
PullReadError(w) ==
  /\ pc[w] = "pull"
  /\ ~reader.done
  /\ ReadError(reader.pos)
  /\ reader' = [reader EXCEPT
                  !.pos = StopLine(reader.pos),
                  !.nextOrdinal = @ + Cardinality(Taken(reader.pos)),
                  !.done = TRUE]
  /\ RecordErr(IoKey, IoError)
  /\ pc' = [pc EXCEPT ![w] = "exited"]
  /\ UNCHANGED <<file, held, chan, fold>>

\* The file is exhausted: next() yields None and the worker leaves.
PullEnd(w) ==
  /\ pc[w] = "pull"
  /\ \/ reader.done
     \/ ~ReadError(reader.pos) /\ Taken(reader.pos) = {}
  /\ reader' = [reader EXCEPT !.done = TRUE,
                              !.pos = IF reader.done THEN @ ELSE StopLine(@)]
  /\ pc' = [pc EXCEPT ![w] = "exited"]
  /\ UNCHANGED <<file, held, firstErr, chan, fold>>

\* A well-formed chunk is evaluated into fresh partials and sent.
EvaluateAndSend(w) ==
  /\ pc[w] = "work"
  /\ BadIn(held[w]) = {}
  /\ chan' = Append(chan, ChunkResult(held[w]))
  /\ held' = [held EXCEPT ![w] = NoChunk]
  /\ pc' = [pc EXCEPT ![w] = "pull"]
  /\ UNCHANGED <<file, reader, firstErr, fold>>

\* A malformed chunk is dropped; the worker goes on with the next one.
RejectChunk(w) ==
  /\ pc[w] = "work"
  /\ BadIn(held[w]) # {}
  /\ LET n == CHOOSE i \in BadIn(held[w]) : \A j \in BadIn(held[w]) : i <= j
     IN  RecordErr(n, BadLine(n))
  /\ held' = [held EXCEPT ![w] = NoChunk]
  /\ pc' = [pc EXCEPT ![w] = "pull"]
  /\ UNCHANGED <<file, reader, chan, fold>>

Worker(w) == \/ PullChunk(w) \/ PullReadError(w) \/ PullEnd(w)
             \/ EvaluateAndSend(w) \/ RejectChunk(w)

-----------------------------------------------------------------------------
(* The main thread *)

Parked == {r.index : r \in reorder}

\* rx yields a result, which is parked.
Receive ==
  /\ outcome = Running
  /\ next \notin Parked
  /\ chan # <<>>
  /\ reorder' = reorder \cup {Head(chan)}
  /\ chan' = Tail(chan)
  /\ UNCHANGED <<file, reader, pc, held, firstErr, next, acc, out, passed, outcome>>

\* Mutation: results are merged as they arrive.
MergeAnyOrder ==
  /\ outcome = Running
  /\ \E r \in reorder :
       /\ reorder' = reorder \ {r}
       /\ acc' = Append(acc, r.part)
       /\ out' = out \o r.part
       /\ passed' = passed + r.pass
  /\ next' = next + 1
  /\ UNCHANGED <<file, reader, pc, held, firstErr, chan, outcome>>

\* reorder.remove(&next) finds the chunk whose turn it is: merge it.
MergeNext ==
  /\ outcome = Running
  /\ \E r \in reorder :
       /\ r.index = next
       /\ reorder' = reorder \ {r}
       /\ acc' = Append(acc, r.part)
       /\ out' = out \o r.part
       /\ passed' = passed + r.pass
  /\ next' = next + 1
  /\ UNCHANGED <<file, reader, pc, held, firstErr, chan, outcome>>

\* Mutation: the fold stops with results still in the channel.
ReturnUndrained ==
  /\ outcome = Running
  /\ \A w \in Workers : pc[w] = "exited"
  /\ outcome' = firstErr.err
  /\ UNCHANGED <<file, reader, pc, held, firstErr, chan, reorder, next, acc, out, passed>>

\* Mutation: the fold waits for every chunk the reader handed out.
ReturnWhenAllMerged ==
  /\ outcome = Running
  /\ next = reader.nextIndex
  /\ chan = <<>>
  /\ \A w \in Workers : pc[w] = "exited"
  /\ outcome' = firstErr.err
  /\ UNCHANGED <<file, reader, pc, held, firstErr, chan, reorder, next, acc, out, passed>>

\* Every sender is gone and the channel is drained: the scope ends.
Return ==
  /\ outcome = Running
  /\ next \notin Parked
  /\ chan = <<>>
  /\ \A w \in Workers : pc[w] = "exited"
  /\ outcome' = firstErr.err
  /\ UNCHANGED <<file, reader, pc, held, firstErr, chan, reorder, next, acc, out, passed>>

Main == Receive \/ MergeNext \/ Return

Terminated == outcome # Running /\ UNCHANGED vars

Next == (\E w \in Workers : Worker(w)) \/ Main \/ Terminated

\* The operating system runs every thread that can run.
Fairness == (\A w \in Workers : WF_vars(Worker(w))) /\ WF_vars(Main)

Spec == Init /\ [][Next]_vars
FairSpec == Spec /\ Fairness

-----------------------------------------------------------------------------
(* Properties *)

Lines == 1..Len(file)
Indices == 0..reader.nextIndex-1
Holding == {w \in Workers : pc[w] = "work"}
InFlight == {held[w].index : w \in Holding}
Sent == {chan[i].index : i \in DOMAIN chan}
Merged == 0..next-1

RawChunk == [index : Int, first : Nat, lines : SUBSET Lines]
Result == [index : Int, part : Seq(Nat), pass : Nat]
ErrorSlot == [key : Nat, err : [kind : {"ok", "io", "bad"}, line : Nat]]

\* The variables range over the values the Rust types allow.
TypeOK ==
  /\ file \in Files
  /\ reader \in [pos : Nat, nextIndex : Nat, nextOrdinal : Nat, done : BOOLEAN]
  /\ pc \in [Workers -> {"pull", "work", "exited"}]
  /\ held \in [Workers -> RawChunk]
  /\ firstErr \in ErrorSlot
  /\ chan \in Seq(Result)
  /\ reorder \subseteq Result
  /\ next \in Nat
  /\ acc \in Seq(Seq(Nat)) /\ out \in Seq(Nat) /\ passed \in Nat
  /\ outcome \in [kind : {"running", "ok", "io", "bad"}, line : Nat]

\* No chunk is in two places: a chunk the reader has handed out is with one
\* worker, or in the channel once, or parked once, or merged, and what is
\* parked or merged was handed out (the index is taken under the reader lock,
\* moved by the send and by reorder.remove).
OnePlace ==
  /\ \A v, w \in Holding : held[v].index = held[w].index => v = w
  /\ \A i, j \in DOMAIN chan : chan[i].index = chan[j].index => i = j
  /\ \A r, s \in reorder : r.index = s.index => r = s
  /\ InFlight \cap Sent = {} /\ InFlight \cap Parked = {} /\ Sent \cap Parked = {}
  /\ (InFlight \cup Sent \cup Parked) \cap Merged = {}
  /\ InFlight \cup Sent \cup Parked \cup Merged \subseteq Indices

\* The same file and accumulators, read with no threads in between.
Ordered == INSTANCE OrderedRun WITH acc <- acc, out <- out, passed <- passed, outcome <- outcome

\* The malformed lines of chunk k of the file.
Malformed(k) == {i \in Ordered!ChunkLines(file, k) : file[i] = "bad"}

\* A chunk is missing from every place only when one of its lines is bad, and
\* then the error on record is that of its first bad line or of an earlier
\* line: of two chunks dropped in any order neither loses its error to a later
\* one, and no event vanishes from a run that reports success (process_chunk,
\* record_err).
NothingVanishes ==
  \A k \in Indices \ (InFlight \cup Sent \cup Parked \cup Merged) :
    /\ Malformed(k) # {}
    /\ firstErr # NoErr /\ firstErr.err = BadLine(firstErr.key)
    /\ \A i \in Malformed(k) : firstErr.key <= i

\* The recorded error is that of a line: a bad one, or the failing read, which
\* no line comes after (supports NothingVanishes).
ErrorShape ==
  \/ firstErr = NoErr
  \/ firstErr.key \in Lines /\ firstErr.err.kind = "bad"
  \/ firstErr.key = IoKey /\ firstErr.err = IoError

\* A run that reports success printed every event of the file exactly once,
\* in input order, and left nothing parked (the fold reaches the last chunk).
SuccessIsComplete ==
  outcome = Done =>
    /\ reorder = {}
    /\ next = reader.nextIndex
    /\ out = [i \in 1..reader.nextOrdinal |-> i - 1]
    /\ reader.nextOrdinal = Cardinality({i \in Lines : file[i] \in {"pass", "fail"}})

\* Once an error is recorded it can only be replaced by one of an earlier
\* line, and what was printed is never taken back (record_err, writeln!).
ErrorsOnlyImprove ==
  [][/\ firstErr # NoErr => firstErr'.key <= firstErr.key /\ firstErr' # NoErr
     /\ IsPrefix(out, out')]_vars

\* The loop ends on every input: no worker, and no fold, waits for ever.
Termination == <>(outcome # Running)

\* The threads implement the single-threaded contract: every accumulator, the
\* printed lines, the pass counts and the outcome are those of the ordered
\* run, whatever the number of workers and their interleaving.
ImplementsOrdered == Ordered!Spec
=============================================================================
