------------------------- MODULE RunStreamingProofs -------------------------
(***************************************************************************)
(* Safety of the parallel event loop for every number of workers, every    *)
(* chunk size and every input: its types, that a chunk is in one place at a *)
(* time, that the recorded error only improves, and that a run that reports *)
(* success printed every event once and in order.                          *)
(***************************************************************************)
EXTENDS RunStreaming, CommonLemmas

-----------------------------------------------------------------------------
(* Types *)

\* What one call of next() takes from the file: a finite set of its lines,
\* up to a line of the file.
LEMMA StopLineType ==
  ASSUME file \in Seq(LineKind), NEW pos \in Nat
  PROVE  /\ StopLine(pos) \in Nat
         /\ Taken(pos) \subseteq Lines
         /\ IsFiniteSet(Taken(pos))
         /\ Cardinality(Taken(pos)) \in Nat
<1>1. Len(file) \in Nat
  BY LenProperties
<1>2. /\ StopLine(pos) \in Nat
      /\ StopLine(pos) <= Len(file)
  <2>1. CASE Stops(pos) = {}
    BY <2>1, <1>1 DEF StopLine
  <2>2. CASE Stops(pos) # {}
    <3>1. Stops(pos) \subseteq Nat /\ \A i \in Stops(pos) : i <= Len(file)
      BY <1>1 DEF Stops
    <3>2. \E i \in Stops(pos) : \A j \in Stops(pos) : i <= j
      BY <2>2, <3>1, LeastNatural
    <3>3. StopLine(pos) \in Stops(pos)
      BY <2>2, <3>2 DEF StopLine
    <3>4. QED  BY <3>1, <3>3
  <2>3. QED  BY <2>1, <2>2
<1>3. Taken(pos) \subseteq Lines
  BY <1>1, <1>2 DEF Taken, NonBlank, Lines
<1>4. IsFiniteSet(Lines)
  BY <1>1, FS_Interval DEF Lines
<1>5. QED
  BY <1>2, <1>3, <1>4, FS_Subset, FS_CardinalityType

\* The input is a finite sequence of line kinds.
LEMMA FileType == TypeOK => file \in Seq(LineKind) /\ Len(file) \in Nat
BY FilesAssumption, LenProperties DEF TypeOK

\* The earliest bad line of a chunk is a line of the file.
LEMMA EarliestBadType ==
  ASSUME TypeOK, NEW w \in Workers, BadIn(held[w]) # {}
  PROVE  (CHOOSE i \in BadIn(held[w]) : \A j \in BadIn(held[w]) : i <= j) \in Lines
<1>1. BadIn(held[w]) \subseteq Lines /\ Lines \subseteq Nat
  <2>1. held[w] \in RawChunk
    BY DEF TypeOK
  <2>2. QED
    BY <2>1, FileType DEF BadIn, RawChunk, Lines
<1>2. \E i \in BadIn(held[w]) : \A j \in BadIn(held[w]) : i <= j
  BY <1>1, LeastNatural
<1>3. QED
  BY <1>1, <1>2

\* Evaluating a chunk of the file yields a well-typed result.
LEMMA ChunkResultType ==
  ASSUME TypeOK, NEW w \in Workers
  PROVE  ChunkResult(held[w]) \in Result
<1>1. /\ held[w].index \in Int /\ held[w].first \in Nat
      /\ held[w].lines \subseteq Lines
  BY DEF TypeOK, RawChunk
<1>2. IsFiniteSet(Lines)
  BY FileType, FS_Interval DEF Lines
<1>3. Cardinality(held[w].lines) \in Nat
  BY <1>1, <1>2, FS_Subset, FS_CardinalityType
<1>4. Cardinality({i \in held[w].lines : file[i] = "pass"}) \in Nat
  BY <1>1, <1>2, FS_Subset, FS_CardinalityType
<1>5. Partial(held[w]) \in Seq(Nat)
  <2>1. \A i \in 1..Cardinality(held[w].lines) : held[w].first + i - 1 \in Nat
    BY <1>1, <1>3
  <2>2. QED  BY <1>3, <2>1, IsASeq DEF Partial
<1>6. QED
  BY <1>1, <1>4, <1>5 DEF ChunkResult, Result

\* record_err leaves a well-typed entry that only improves.
LEMMA RecordErrType ==
  ASSUME TypeOK, NEW key \in Nat, NEW e \in [kind : {"ok", "io", "bad"}, line : Nat],
         RecordErr(key, e)
  PROVE  firstErr' \in ErrorSlot
BY DEF RecordErr, TypeOK, ErrorSlot

\* Every run starts typed.
LEMMA TypeInit == Init => TypeOK
<1> SUFFICES ASSUME Init PROVE TypeOK
  OBVIOUS
<1>1. file \in Seq(LineKind) /\ Len(file) \in Nat
  BY FilesAssumption, LenProperties DEF Init
<1>2. QED
  BY <1>1 DEF Init, TypeOK, NoErr, NoChunk, Done, Running, Lines, RawChunk, ErrorSlot

\* Every step of the workers and of the fold keeps the types.
LEMMA TypeStep == TypeOK /\ [Next]_vars => TypeOK'
<1> SUFFICES ASSUME TypeOK, [Next]_vars PROVE TypeOK'
  OBVIOUS
<1>a. file \in Seq(LineKind) /\ Len(file) \in Nat
  BY FileType
<1>b. reader.pos \in Nat
  BY DEF TypeOK
<1>c. NoChunk \in RawChunk
  BY DEF NoChunk, RawChunk
<1>d. file' = file => RawChunk' = RawChunk
  BY DEF RawChunk, Lines
<1>1. CASE UNCHANGED vars
  BY <1>1, <1>d DEF TypeOK, vars
<1>2. ASSUME NEW w \in Workers, PullChunk(w) PROVE TypeOK'
  <2> DEFINE T == Taken(reader.pos)
  <2>1. /\ StopLine(reader.pos) \in Nat /\ T \subseteq Lines /\ Cardinality(T) \in Nat
    BY <1>a, <1>b, StopLineType
  <2> HIDE DEF T
  <2>2. [index |-> reader.nextIndex, first |-> reader.nextOrdinal, lines |-> T] \in RawChunk
    BY <2>1 DEF RawChunk, TypeOK
  <2>3. held' \in [Workers -> RawChunk]
    BY <1>2, <2>2 DEF PullChunk, TypeOK, T
  <2>4. reader' \in [pos : Nat, nextIndex : Nat, nextOrdinal : Nat, done : BOOLEAN]
    <3>1. /\ reader.nextIndex + 1 \in Nat
          /\ reader.nextOrdinal + Cardinality(T) \in Nat
      BY <2>1 DEF TypeOK
    <3>2. reader' = [reader EXCEPT !.pos = StopLine(reader.pos),
                                   !.nextIndex = reader.nextIndex + 1,
                                   !.nextOrdinal = reader.nextOrdinal + Cardinality(T)]
      BY <1>2 DEF PullChunk, T
    <3>3. QED
      BY <2>1, <3>1, <3>2 DEF TypeOK
  <2>5. QED
    BY <1>2, <1>d, <2>3, <2>4 DEF PullChunk, TypeOK, fold
<1>3. ASSUME NEW w \in Workers, PullReadError(w) PROVE TypeOK'
  <2>1. IoKey \in Nat /\ IoError \in [kind : {"ok", "io", "bad"}, line : Nat]
    BY <1>a DEF IoKey, IoError
  <2>2. firstErr' \in ErrorSlot
    BY <1>3, <2>1, RecordErrType DEF PullReadError
  <2>3. reader' \in [pos : Nat, nextIndex : Nat, nextOrdinal : Nat, done : BOOLEAN]
    <3> DEFINE T == Taken(reader.pos)
    <3>1. StopLine(reader.pos) \in Nat /\ Cardinality(T) \in Nat
      BY <1>a, <1>b, StopLineType
    <3> HIDE DEF T
    <3>2. reader.nextOrdinal + Cardinality(T) \in Nat
      BY <3>1 DEF TypeOK
    <3>3. reader' = [reader EXCEPT !.pos = StopLine(reader.pos),
                                   !.nextOrdinal = reader.nextOrdinal + Cardinality(T),
                                   !.done = TRUE]
      BY <1>3 DEF PullReadError, T
    <3>4. QED
      BY <3>1, <3>2, <3>3 DEF TypeOK
  <2>4. QED
    BY <1>3, <1>d, <2>2, <2>3 DEF PullReadError, TypeOK, fold
<1>4. ASSUME NEW w \in Workers, PullEnd(w) PROVE TypeOK'
  <2>1. (IF reader.done THEN reader.pos ELSE StopLine(reader.pos)) \in Nat
    BY <1>a, <1>b, StopLineType
  <2>2. reader' \in [pos : Nat, nextIndex : Nat, nextOrdinal : Nat, done : BOOLEAN]
    BY <1>4, <2>1 DEF PullEnd, TypeOK
  <2>3. QED
    BY <1>4, <1>d, <2>2 DEF PullEnd, TypeOK, fold
<1>5. ASSUME NEW w \in Workers, EvaluateAndSend(w) PROVE TypeOK'
  <2>1. chan' \in Seq(Result)
    BY <1>5, ChunkResultType, AppendProperties DEF EvaluateAndSend, TypeOK
  <2>2. held' \in [Workers -> RawChunk]
    BY <1>5, <1>c DEF EvaluateAndSend, TypeOK
  <2>3. QED
    BY <1>5, <1>d, <2>1, <2>2 DEF EvaluateAndSend, TypeOK, fold
<1>6. ASSUME NEW w \in Workers, RejectChunk(w) PROVE TypeOK'
  <2> DEFINE n == CHOOSE i \in BadIn(held[w]) : \A j \in BadIn(held[w]) : i <= j
  <2>1. n \in Nat /\ RecordErr(n, BadLine(n))
    <3>1. BadIn(held[w]) # {}
      BY <1>6 DEF RejectChunk
    <3>2. n \in Lines
      BY <3>1, EarliestBadType
    <3>3. RecordErr(n, BadLine(n))
      BY <1>6 DEF RejectChunk
    <3>4. QED
      BY <1>a, <3>2, <3>3 DEF Lines
  <2> HIDE DEF n
  <2>2. BadLine(n) \in [kind : {"ok", "io", "bad"}, line : Nat]
    BY <2>1 DEF BadLine
  <2>3. firstErr' \in ErrorSlot
    BY <2>1, <2>2, RecordErrType
  <2>4. held' \in [Workers -> RawChunk]
    BY <1>6, <1>c DEF RejectChunk, TypeOK
  <2>5. QED
    BY <1>6, <1>d, <2>3, <2>4 DEF RejectChunk, TypeOK, fold
<1>7. CASE Receive
  <2>1. Head(chan) \in Result /\ Tail(chan) \in Seq(Result)
    BY <1>7, HeadTailProperties DEF Receive, TypeOK
  <2>2. QED
    BY <1>7, <1>d, <2>1 DEF Receive, TypeOK
<1>8. CASE MergeNext
  <2>1. PICK r \in reorder : /\ acc' = Append(acc, r.part) /\ out' = out \o r.part
                             /\ passed' = passed + r.pass /\ reorder' = reorder \ {r}
    BY <1>8 DEF MergeNext
  <2>2. r.part \in Seq(Nat) /\ r.pass \in Nat
    BY DEF TypeOK, Result
  <2>3. acc' \in Seq(Seq(Nat)) /\ out' \in Seq(Nat) /\ passed' \in Nat
    BY <2>1, <2>2, AppendProperties, ConcatProperties DEF TypeOK
  <2>4. reorder' \subseteq Result /\ next' \in Nat
    BY <1>8, <2>1 DEF MergeNext, TypeOK
  <2>5. QED
    BY <1>8, <1>d, <2>3, <2>4 DEF MergeNext, TypeOK
<1>9. CASE Return
  <2>1. outcome' \in [kind : {"running", "ok", "io", "bad"}, line : Nat]
    BY <1>9 DEF Return, TypeOK, ErrorSlot
  <2>2. QED
    BY <1>9, <1>d, <2>1 DEF Return, TypeOK
<1>10. CASE Terminated
  BY <1>10, <1>d DEF Terminated, TypeOK, vars
<1>11. QED
  BY <1>1, <1>2, <1>3, <1>4, <1>5, <1>6, <1>7, <1>8, <1>9, <1>10 DEF Next, Worker, Main

\* The type invariant holds for every instance of the constants.
THEOREM TypeCorrect == Spec => []TypeOK
<1>1. Init => TypeOK
  BY TypeInit
<1>2. TypeOK /\ [Next]_vars => TypeOK'
  BY TypeStep
<1>3. QED
  BY <1>1, <1>2, PTL DEF Spec

-----------------------------------------------------------------------------
(* Conservation of chunks: where each index is, action by action. *)

Placed == InFlight \cup Sent \cup Parked \cup Merged

\* The part of NothingVanishes that needs nothing of the file: what is gone left
\* a bad line on record (which one is shown in RunOrderedProofs).
GoneReported == Indices \ Placed # {} => firstErr # NoErr /\ firstErr.err.kind = "bad"

Unique == OnePlace /\ GoneReported /\ ErrorShape

\* A step that only moves the control state of a worker holding no chunk, or
\* nothing at all, moves no chunk.
LEMMA PlacesUnchanged ==
  ASSUME OnePlace, held' = held, Holding' = Holding,
         chan' = chan, reorder' = reorder, next' = next,
         reader'.nextIndex = reader.nextIndex
  PROVE  OnePlace' /\ Placed' = Placed /\ Indices' = Indices
<1>1. /\ InFlight' = InFlight /\ Sent' = Sent /\ Parked' = Parked
      /\ Merged' = Merged /\ Indices' = Indices
  BY DEF InFlight, Sent, Parked, Merged, Indices
<1>2. QED
  BY <1>1 DEF OnePlace, Placed

\* Handing out a chunk adds the fresh index to the workers' and to Indices.
LEMMA PullPlaces ==
  ASSUME TypeOK, OnePlace, NEW w \in Workers, PullChunk(w)
  PROVE  OnePlace' /\ Placed' = Placed \cup {reader.nextIndex}
         /\ Indices' = Indices \cup {reader.nextIndex} /\ reader.nextIndex \notin Indices
<1> DEFINE n == reader.nextIndex
<1>1. n \in Nat /\ reader'.nextIndex = n + 1
  BY DEF PullChunk, TypeOK
<1>2. Indices' = Indices \cup {n} /\ n \notin Indices
  BY <1>1 DEF Indices
<1>3. /\ Holding' = Holding \cup {w} /\ w \notin Holding
      /\ held'[w].index = n
      /\ \A v \in Holding : held'[v] = held[v]
  BY DEF PullChunk, TypeOK, Holding
<1>4. InFlight' = InFlight \cup {n}
  BY <1>3 DEF InFlight
<1>5. Sent' = Sent /\ Parked' = Parked /\ Merged' = Merged
  BY DEF PullChunk, fold, Sent, Parked, Merged
<1>6. chan' = chan /\ reorder' = reorder
  BY DEF PullChunk, fold
<1> HIDE DEF n
<1>7. \A u, v \in Holding' : held'[u].index = held'[v].index => u = v
  <2>1. \A v \in Holding : held[v].index # n
    BY <1>2 DEF OnePlace, InFlight
  <2>2. QED
    BY <1>3, <2>1 DEF OnePlace
<1>8. QED
  BY <1>2, <1>4, <1>5, <1>6, <1>7 DEF OnePlace, Placed, n

\* What a worker that lets go of its chunk leaves behind.
LEMMA ReleasePlaces ==
  ASSUME TypeOK, OnePlace, NEW w \in Workers, pc[w] = "work",
         held' = [held EXCEPT ![w] = NoChunk], pc' = [pc EXCEPT ![w] = "pull"]
  PROVE  /\ InFlight' = InFlight \ {held[w].index}
         /\ held[w].index \in InFlight
         /\ \A u, v \in Holding' : held'[u].index = held'[v].index => u = v
<1>1. /\ Holding' = Holding \ {w} /\ w \in Holding
      /\ \A v \in Holding' : held'[v] = held[v]
  BY DEF TypeOK, Holding
<1>2. \A v \in Holding : held[v].index = held[w].index => v = w
  BY <1>1 DEF OnePlace
<1>3. QED
  BY <1>1, <1>2 DEF OnePlace, InFlight

\* Sending moves the index from the worker to the channel.
LEMMA SendPlaces ==
  ASSUME TypeOK, OnePlace, NEW w \in Workers, EvaluateAndSend(w)
  PROVE  OnePlace' /\ Placed' = Placed /\ Indices' = Indices
<1> DEFINE r == ChunkResult(held[w])
<1>1. r \in Result /\ r.index = held[w].index
  BY ChunkResultType DEF ChunkResult
<1>2. chan \in Seq(Result) /\ chan' = Append(chan, r)
  BY DEF EvaluateAndSend, TypeOK
<1>3. /\ DOMAIN chan' = DOMAIN chan \cup {Len(chan) + 1}
      /\ Len(chan) + 1 \notin DOMAIN chan
      /\ chan'[Len(chan) + 1] = r
      /\ \A i \in DOMAIN chan : chan'[i] = chan[i]
  BY <1>1, <1>2, AppendProperties, LenProperties
<1> HIDE DEF r
<1>4. Sent' = Sent \cup {held[w].index}
  BY <1>1, <1>3 DEF Sent
<1>5. /\ InFlight' = InFlight \ {held[w].index} /\ held[w].index \in InFlight
      /\ \A u, v \in Holding' : held'[u].index = held'[v].index => u = v
  BY ReleasePlaces DEF EvaluateAndSend
<1>6. Parked' = Parked /\ Merged' = Merged /\ Indices' = Indices /\ reorder' = reorder
  BY DEF EvaluateAndSend, fold, Parked, Merged, Indices
<1>7. \A i, j \in DOMAIN chan' : chan'[i].index = chan'[j].index => i = j
  <2>1. \A i \in DOMAIN chan : chan[i].index # held[w].index
    BY <1>5 DEF OnePlace, Sent
  <2>2. QED
    BY <1>1, <1>3, <2>1 DEF OnePlace
<1>8. QED
  BY <1>4, <1>5, <1>6, <1>7 DEF OnePlace, Placed

\* Receiving moves the index from the channel to the reorder buffer.
LEMMA ReceivePlaces ==
  ASSUME TypeOK, OnePlace, Receive
  PROVE  OnePlace' /\ Placed' = Placed /\ Indices' = Indices
<1> DEFINE h == Head(chan)
<1>1. chan \in Seq(Result) /\ chan # <<>> /\ chan' = Tail(chan) /\ reorder' = reorder \cup {h}
  BY DEF Receive, TypeOK
<1>2. /\ Len(chan) \in Nat \ {0} /\ DOMAIN chan = 1..Len(chan)
      /\ DOMAIN chan' = 1..(Len(chan) - 1) /\ h = chan[1]
      /\ \A i \in DOMAIN chan' : chan'[i] = chan[i+1]
  BY <1>1, HeadTailProperties, LenProperties, EmptySeq
<1> HIDE DEF h
<1>3. \A i \in DOMAIN chan : chan[i].index = h.index => i = 1
  BY <1>2 DEF OnePlace
<1>4. Sent' = Sent \ {h.index} /\ h.index \in Sent
  <2>1. \A i \in DOMAIN chan : i # 1 => i - 1 \in DOMAIN chan' /\ chan'[i-1] = chan[i]
    BY <1>2
  <2>2. \A i \in DOMAIN chan' : i + 1 \in DOMAIN chan /\ i + 1 # 1
    BY <1>2
  <2>3. 1 \in DOMAIN chan
    BY <1>2
  <2>4. QED
    <3>1. h.index \in Sent
      BY <1>2, <2>3 DEF Sent
    <3>2. ASSUME NEW i \in DOMAIN chan' PROVE chan'[i].index \in Sent \ {h.index}
      BY <1>2, <1>3, <2>2 DEF Sent
    <3>3. ASSUME NEW i \in DOMAIN chan, chan[i].index # h.index
          PROVE  chan[i].index \in Sent'
      <4>1. i # 1
        BY <3>3, <1>2
      <4>2. i - 1 \in DOMAIN chan' /\ chan'[i-1] = chan[i]
        BY <4>1, <2>1
      <4>3. QED
        BY <4>2 DEF Sent
    <3>4. QED
      BY <3>1, <3>2, <3>3 DEF Sent
<1>5. \A i, j \in DOMAIN chan' : chan'[i].index = chan'[j].index => i = j
  <2>1. \A i \in DOMAIN chan' : i \in Int /\ i + 1 \in DOMAIN chan
    BY <1>2
  <2>2. QED
    BY <1>2, <2>1 DEF OnePlace
<1>6. Parked' = Parked \cup {h.index} /\ h.index \notin Parked
  BY <1>1, <1>4 DEF Parked, OnePlace
<1>7. \A r, s \in reorder' : r.index = s.index => r = s
  BY <1>1, <1>6 DEF OnePlace, Parked
<1>8. /\ InFlight' = InFlight /\ Merged' = Merged /\ Indices' = Indices
      /\ Holding' = Holding /\ held' = held
  BY DEF Receive, InFlight, Holding, Merged, Indices
<1>9. QED
  BY <1>4, <1>5, <1>6, <1>7, <1>8 DEF OnePlace, Placed

\* Merging moves the index from the reorder buffer to the merged prefix.
LEMMA MergePlaces ==
  ASSUME TypeOK, OnePlace, MergeNext
  PROVE  OnePlace' /\ Placed' = Placed /\ Indices' = Indices
<1>1. PICK r \in reorder : r.index = next /\ reorder' = reorder \ {r}
  BY DEF MergeNext
<1>2. next \in Nat /\ next' = next + 1
  BY DEF MergeNext, TypeOK
<1>3. Merged' = Merged \cup {next}
  BY <1>2 DEF Merged
<1>4. Parked' = Parked \ {next} /\ next \in Parked
  BY <1>1 DEF Parked, OnePlace
<1>5. /\ InFlight' = InFlight /\ Sent' = Sent /\ Indices' = Indices
      /\ Holding' = Holding /\ held' = held /\ chan' = chan
  BY DEF MergeNext, InFlight, Holding, Sent, Indices
<1>6. \A u, v \in reorder' : u.index = v.index => u = v
  BY <1>1 DEF OnePlace
<1>7. QED
  BY <1>3, <1>4, <1>5, <1>6 DEF OnePlace, Placed

\* Rejecting takes the index out of every place.
LEMMA RejectPlaces ==
  ASSUME TypeOK, OnePlace, NEW w \in Workers, RejectChunk(w)
  PROVE  OnePlace' /\ Indices' = Indices
<1>1. /\ InFlight' = InFlight \ {held[w].index}
      /\ \A u, v \in Holding' : held'[u].index = held'[v].index => u = v
  BY ReleasePlaces DEF RejectChunk
<1>2. /\ Sent' = Sent /\ Parked' = Parked /\ Merged' = Merged /\ Indices' = Indices
      /\ chan' = chan /\ reorder' = reorder
  BY DEF RejectChunk, fold, Sent, Parked, Merged, Indices
<1>3. QED
  BY <1>1, <1>2 DEF OnePlace

-----------------------------------------------------------------------------
(* The recorded error. *)

\* record_err never lets an error go, and never puts a later one in its place.
LEMMA RecordErrImproves ==
  ASSUME TypeOK, NEW key \in Nat, NEW e, RecordErr(key, e), e # Done
  PROVE  /\ firstErr # NoErr => firstErr'.key <= firstErr.key
         /\ firstErr' # NoErr
         /\ firstErr' = firstErr \/ firstErr' = [key |-> key, err |-> e]
<1>1. firstErr.key \in Nat
  BY DEF TypeOK, ErrorSlot
<1>2. [key |-> key, err |-> e] # NoErr
  BY DEF NoErr
<1>3. QED
  BY <1>1, <1>2 DEF RecordErr

\* A failed read never displaces the error of a bad line.
LEMMA ReadErrorRecord ==
  ASSUME TypeOK, ErrorShape, NEW w \in Workers, PullReadError(w)
  PROVE  /\ ErrorShape'
         /\ firstErr # NoErr => firstErr' = firstErr
<1>1. Len(file) \in Nat /\ file' = file
  BY FileType DEF PullReadError
<1>2. RecordErr(IoKey, IoError) /\ IoKey \in Nat
  BY <1>1 DEF PullReadError, IoKey
<1>3. firstErr # NoErr => firstErr.key <= IoKey
  BY <1>1 DEF ErrorShape, Lines, IoKey
<1>4. QED
  BY <1>1, <1>2, <1>3 DEF RecordErr, ErrorShape, Lines, IoKey

\* Rejecting a chunk leaves the error of a bad line behind.
LEMMA RejectRecord ==
  ASSUME TypeOK, ErrorShape, NEW w \in Workers, RejectChunk(w)
  PROVE  /\ ErrorShape'
         /\ firstErr' # NoErr /\ firstErr'.err.kind = "bad"
         /\ firstErr # NoErr => firstErr'.key <= firstErr.key
<1> DEFINE n == CHOOSE i \in BadIn(held[w]) : \A j \in BadIn(held[w]) : i <= j
<1>1. BadIn(held[w]) # {} /\ RecordErr(n, BadLine(n)) /\ file' = file
  BY DEF RejectChunk
<1>2. n \in Lines /\ Len(file) \in Nat
  BY <1>1, EarliestBadType, FileType
<1> HIDE DEF n
<1>3. n \in Nat /\ IoKey \in Nat /\ n < IoKey
  BY <1>2 DEF Lines, IoKey
<1>4. BadLine(n) # Done /\ BadLine(n).kind = "bad"
  BY DEF BadLine, Done
<1>5. /\ firstErr # NoErr => firstErr'.key <= firstErr.key
      /\ firstErr' # NoErr
      /\ firstErr' = firstErr \/ firstErr' = [key |-> n, err |-> BadLine(n)]
  BY <1>1, <1>3, <1>4, RecordErrImproves
<1>6. CASE firstErr' = [key |-> n, err |-> BadLine(n)]
  BY <1>1, <1>2, <1>4, <1>5, <1>6 DEF ErrorShape, Lines
<1>7. CASE firstErr' = firstErr /\ firstErr # NoErr
  <2>1. firstErr.key = IoKey => firstErr' = [key |-> n, err |-> BadLine(n)]
    BY <1>1, <1>3 DEF RecordErr
  <2>2. firstErr.key # IoKey
    BY <2>1, <1>3, <1>7
  <2>3. firstErr.key \in Lines /\ firstErr.err.kind = "bad"
    BY <2>2, <1>7 DEF ErrorShape
  <2>4. QED
    BY <2>3, <1>1, <1>5, <1>7 DEF ErrorShape, Lines
<1>8. QED
  BY <1>5, <1>6, <1>7

-----------------------------------------------------------------------------
\* Before the first pull every chunk is in the file and nowhere else.
LEMMA UniqueInit == Init => Unique
<1> SUFFICES ASSUME Init PROVE Unique
  OBVIOUS
<1>1. Holding = {} /\ Sent = {} /\ Parked = {} /\ Merged = {} /\ Indices = {}
  BY DEF Init, Holding, Sent, Parked, Merged, Indices
<1>2. QED
  BY <1>1 DEF Init, Unique, OnePlace, GoneReported, Placed, ErrorShape, InFlight

\* No step puts a chunk in a second place.
LEMMA UniqueStep == TypeOK /\ Unique /\ [Next]_vars => Unique'
<1> SUFFICES ASSUME TypeOK, Unique, [Next]_vars PROVE Unique'
  OBVIOUS
<1>a. OnePlace /\ GoneReported /\ ErrorShape
  BY DEF Unique
\* A step that leaves the same indices unplaced, and the error alone.
<1>b. ASSUME OnePlace', firstErr' = firstErr, file' = file,
             Indices' \ Placed' = Indices \ Placed
      PROVE  Unique'
  BY <1>a, <1>b DEF Unique, GoneReported, ErrorShape, Placed, Lines, IoKey
<1>1. CASE UNCHANGED vars
  <2>1. Holding' = Holding
    BY <1>1 DEF vars, Holding
  <2>2. QED
    BY <1>1, <1>a, <1>b, <2>1, PlacesUnchanged DEF vars
<1>2. ASSUME NEW w \in Workers, PullChunk(w) PROVE Unique'
  <2>1. firstErr' = firstErr /\ file' = file
    BY <1>2 DEF PullChunk
  <2>2. QED
    <3>1. /\ OnePlace' /\ Placed' = Placed \cup {reader.nextIndex}
          /\ Indices' = Indices \cup {reader.nextIndex}
          /\ reader.nextIndex \notin Indices
      BY <1>2, <1>a, PullPlaces
    <3>2. Indices' \ Placed' = Indices \ Placed
      BY <3>1
    <3>3. QED
      BY <1>b, <2>1, <3>1, <3>2
<1>3. ASSUME NEW w \in Workers, PullReadError(w) PROVE Unique'
  <2>1. Holding' = Holding /\ held' = held /\ chan' = chan /\ reorder' = reorder
        /\ next' = next /\ reader'.nextIndex = reader.nextIndex
    BY <1>3 DEF PullReadError, TypeOK, Holding, fold
  <2>2. OnePlace' /\ Placed' = Placed /\ Indices' = Indices
    BY <1>a, <2>1, PlacesUnchanged
  <2>3. ErrorShape' /\ (firstErr # NoErr => firstErr' = firstErr)
    BY <1>3, <1>a, ReadErrorRecord
  <2>4. QED
    BY <1>a, <2>2, <2>3 DEF Unique, GoneReported, Placed
<1>4. ASSUME NEW w \in Workers, PullEnd(w) PROVE Unique'
  <2>1. Holding' = Holding /\ held' = held /\ chan' = chan /\ reorder' = reorder
        /\ next' = next /\ reader'.nextIndex = reader.nextIndex
    BY <1>4 DEF PullEnd, TypeOK, Holding, fold
  <2>2. firstErr' = firstErr /\ file' = file
    BY <1>4 DEF PullEnd
  <2>3. QED
    BY <1>a, <1>b, <2>1, <2>2, PlacesUnchanged
<1>5. ASSUME NEW w \in Workers, EvaluateAndSend(w) PROVE Unique'
  <2>1. firstErr' = firstErr /\ file' = file
    BY <1>5 DEF EvaluateAndSend
  <2>2. QED
    BY <1>5, <1>a, <1>b, <2>1, SendPlaces
<1>6. ASSUME NEW w \in Workers, RejectChunk(w) PROVE Unique'
  BY <1>6, <1>a, RejectPlaces, RejectRecord DEF Unique, GoneReported
<1>7. CASE Receive
  <2>1. firstErr' = firstErr /\ file' = file
    BY <1>7 DEF Receive
  <2>2. QED
    BY <1>7, <1>a, <1>b, <2>1, ReceivePlaces
<1>8. CASE MergeNext
  <2>1. firstErr' = firstErr /\ file' = file
    BY <1>8 DEF MergeNext
  <2>2. QED
    BY <1>8, <1>a, <1>b, <2>1, MergePlaces
<1>9. CASE Return
  <2>1. Holding' = Holding /\ held' = held /\ chan' = chan /\ reorder' = reorder
        /\ next' = next /\ reader'.nextIndex = reader.nextIndex
    BY <1>9 DEF Return, Holding
  <2>2. firstErr' = firstErr /\ file' = file
    BY <1>9 DEF Return
  <2>3. QED
    BY <1>a, <1>b, <2>1, <2>2, PlacesUnchanged
<1>10. CASE Terminated
  BY <1>1, <1>10 DEF Terminated
<1>11. QED
  BY <1>1, <1>2, <1>3, <1>4, <1>5, <1>6, <1>7, <1>8, <1>9, <1>10 DEF Next, Worker, Main

\* No chunk is ever in two places or merged twice, for any number of workers.
THEOREM ChunksInOnePlace == Spec => []OnePlace
<1>1. Init => TypeOK /\ Unique
  BY TypeInit, UniqueInit
<1>2. TypeOK /\ Unique /\ [Next]_vars => TypeOK' /\ Unique'
  BY TypeStep, UniqueStep
<1>3. TypeOK /\ Unique => OnePlace
  BY DEF Unique
<1>4. QED
  BY <1>1, <1>2, <1>3, PTL DEF Spec

\* An error, once recorded, gives way only to that of an earlier line, and no
\* printed line is taken back.
THEOREM ErrorsImprove == Spec => ErrorsOnlyImprove
<1> DEFINE Improves == /\ firstErr # NoErr => firstErr'.key <= firstErr.key /\ firstErr' # NoErr
                       /\ IsPrefix(out, out')
<1>1. TypeOK /\ Unique /\ [Next]_vars => Improves \/ UNCHANGED vars
  <2> SUFFICES ASSUME TypeOK, Unique, [Next]_vars PROVE Improves \/ UNCHANGED vars
    OBVIOUS
  <2>a. firstErr.key \in Nat /\ out \in Seq(Nat)
    BY DEF TypeOK, ErrorSlot
  <2>b. firstErr' = firstErr => (firstErr # NoErr => firstErr'.key <= firstErr.key /\ firstErr' # NoErr)
    BY <2>a
  <2>c. out' = out => IsPrefix(out, out')
    BY <2>a, LenProperties DEF IsPrefix
  <2>1. ASSUME NEW w \in Workers, Worker(w) PROVE Improves
    <3>1. out' = out
      BY <2>1 DEF Worker, PullChunk, PullReadError, PullEnd, EvaluateAndSend, RejectChunk, fold
    <3>2. firstErr # NoErr => firstErr'.key <= firstErr.key /\ firstErr' # NoErr
      <4>1. CASE PullReadError(w)
        BY <4>1, <2>b, ReadErrorRecord DEF Unique
      <4>2. CASE RejectChunk(w)
        BY <4>2, RejectRecord DEF Unique
      <4>3. CASE PullChunk(w) \/ PullEnd(w) \/ EvaluateAndSend(w)
        BY <4>3, <2>b DEF PullChunk, PullEnd, EvaluateAndSend
      <4>4. QED
        BY <2>1, <4>1, <4>2, <4>3 DEF Worker
    <3>3. QED
      BY <3>1, <3>2, <2>c
  <2>2. CASE MergeNext
    <3>1. PICK r \in reorder : out' = out \o r.part
      BY <2>2 DEF MergeNext
    <3>2. r.part \in Seq(Nat)
      BY DEF TypeOK, Result
    <3>3. Len(out) <= Len(out') /\ SubSeq(out, 1, Len(out)) = SubSeq(out', 1, Len(out))
      <4>1. CASE Len(out) = 0
        BY <4>1, <2>a, <3>1, <3>2, ConcatProperties, LenProperties, SubSeqEmpty
      <4>2. CASE Len(out) # 0
        BY <4>2, <2>a, <3>1, <3>2, ConcatProperties, LenProperties, SubSeqOfConcat1
      <4>3. QED  BY <4>1, <4>2
    <3>4. firstErr' = firstErr
      BY <2>2 DEF MergeNext
    <3>5. QED
      BY <3>3, <3>4, <2>b DEF IsPrefix
  <2>3. CASE Receive \/ Return
    <3>1. out' = out /\ firstErr' = firstErr
      BY <2>3 DEF Receive, Return
    <3>2. QED  BY <3>1, <2>b, <2>c
  <2>4. CASE Terminated \/ UNCHANGED vars
    BY <2>4 DEF Terminated
  <2>5. QED
    BY <2>1, <2>2, <2>3, <2>4 DEF Next, Main
<1>2. Init => TypeOK /\ Unique
  BY TypeInit, UniqueInit
<1>3. TypeOK /\ Unique /\ [Next]_vars => TypeOK' /\ Unique'
  BY TypeStep, UniqueStep
<1>4. QED
  BY <1>1, <1>2, <1>3, PTL DEF Spec, ErrorsOnlyImprove

-----------------------------------------------------------------------------
(***************************************************************************)
(* Success is complete.  The argument: every chunk but the last is full,   *)
(* so the ordinals of chunk k start at k * ChunkEvents, and what has been  *)
(* printed is the ordinals below the start of the chunk whose turn it is.  *)
(* What the reader counted are the lines it passed, and a malformed one is *)
(* in the hands of a worker until its error is on record.                  *)
(***************************************************************************)

\* The ordinal of a chunk's first event.
Start == [k \in Nat |-> k * ChunkEvents]

\* A chunk of n events with index k is full, or the last so far.
Sized(k, n) ==
  /\ k + 1 < reader.nextIndex => n = ChunkEvents
  /\ k + 1 = reader.nextIndex => Start[k] + n = reader.nextOrdinal

Whole(r) == /\ Sized(r.index, Len(r.part))
            /\ r.part = [i \in 1..Len(r.part) |-> Start[r.index] + i - 1]

Chunked ==
  /\ reader.pos < Len(file) => reader.nextOrdinal = Start[reader.nextIndex]
  /\ \A w \in Holding : /\ held[w].first = Start[held[w].index]
                        /\ Sized(held[w].index, Cardinality(held[w].lines))
  /\ \A i \in DOMAIN chan : Whole(chan[i])
  /\ \A r \in reorder : Whole(r)

Printed ==
  /\ out = [i \in 1..Len(out) |-> i - 1]
  /\ next < reader.nextIndex => Len(out) = Start[next]
  /\ next = reader.nextIndex => Len(out) = reader.nextOrdinal

Counted ==
  /\ reader.pos <= Len(file)
  /\ reader.done => reader.pos = Len(file)
  /\ reader.nextOrdinal = Cardinality(NonBlank(1, reader.pos))
  /\ \A i \in 1..reader.pos : file[i] # "ioerr"
  /\ \A i \in 1..reader.pos : file[i] = "bad" => \E w \in Holding : i \in held[w].lines

Stopped ==
  outcome # Running =>
    /\ \A w \in Workers : pc[w] = "exited"
    /\ outcome = Done => firstErr = NoErr /\ chan = <<>> /\ next \notin Parked

Complete == (firstErr = NoErr => Chunked /\ Printed /\ Counted) /\ Stopped
-----------------------------------------------------------------------------
LEMMA StartIs ==
  /\ Start[0] = 0
  /\ \A k \in Nat : Start[k] \in Nat /\ Start[k + 1] = Start[k] + ChunkEvents
BY ChunkEventsAssumption DEF Start

\* What a call of next() that hits no failing read passes and takes.
LEMMA Pulled ==
  ASSUME file \in Seq(LineKind), NEW pos \in Nat, pos <= Len(file), ~ReadError(pos)
  PROVE  /\ StopLine(pos) \in Nat /\ pos <= StopLine(pos) /\ StopLine(pos) <= Len(file)
         /\ Taken(pos) \subseteq pos + 1 .. StopLine(pos)
         /\ \A i \in pos + 1 .. StopLine(pos) : file[i] # "ioerr"
         /\ Cardinality(Taken(pos)) = ChunkEvents \/ StopLine(pos) = Len(file)
         /\ Taken(pos) # {} => pos < Len(file)
         /\ Taken(pos) = {} => StopLine(pos) = Len(file)
<1> DEFINE s == StopLine(pos)
<1>1. Len(file) \in Nat
  BY LenProperties
<1>2. Stops(pos) # {} => s \in Stops(pos) /\ \A j \in Stops(pos) : s <= j
  <2> SUFFICES ASSUME Stops(pos) # {} PROVE s \in Stops(pos) /\ \A j \in Stops(pos) : s <= j
    OBVIOUS
  <2>1. Stops(pos) \subseteq Nat
    BY <1>1 DEF Stops
  <2>2. \E i \in Stops(pos) : \A j \in Stops(pos) : i <= j
    BY <2>1, LeastNatural
  <2>3. QED  BY <2>2 DEF StopLine
<1>3. Stops(pos) = {} => s = Len(file)
  BY DEF StopLine
<1>4. s \in Nat /\ pos <= s /\ s <= Len(file)
  BY <1>1, <1>2, <1>3 DEF Stops
<1>5. Taken(pos) \subseteq pos + 1 .. s
  BY <1>4 DEF Taken, NonBlank
<1>6. s \in pos + 1 .. Len(file) => file[s] # "ioerr"
  BY DEF ReadError
<1>7. \A i \in pos + 1 .. s : file[i] # "ioerr"
  <2> SUFFICES ASSUME NEW i \in pos + 1 .. s, file[i] = "ioerr" PROVE FALSE
    OBVIOUS
  <2>1. i \in Stops(pos)
    BY <1>1, <1>4 DEF Stops
  <2>2. s <= i /\ i = s
    BY <1>2, <1>4, <2>1
  <2>3. QED  BY <1>4, <1>6, <2>2
<1>8. Stops(pos) # {} => Cardinality(Taken(pos)) = ChunkEvents
  <2> SUFFICES ASSUME Stops(pos) # {} PROVE Cardinality(Taken(pos)) = ChunkEvents
    OBVIOUS
  <2>1. s \in pos + 1 .. Len(file) /\ (file[s] = "ioerr" \/ Cardinality(NonBlank(pos + 1, s)) = ChunkEvents)
    BY <1>2 DEF Stops
  <2>2. QED  BY <1>6, <2>1 DEF Taken
<1>9. Taken(pos) = {} => Stops(pos) = {}
  BY <1>8, FS_EmptySet, ChunkEventsAssumption
<1>10. QED
  BY <1>1, <1>3, <1>4, <1>5, <1>7, <1>8, <1>9

\* The reader counts each line once.
LEMMA PassedLines ==
  ASSUME file \in Seq(LineKind), NEW pos \in Nat, pos <= Len(file), ~ReadError(pos)
  PROVE  /\ NonBlank(1, StopLine(pos)) = NonBlank(1, pos) \cup Taken(pos)
         /\ Cardinality(NonBlank(1, StopLine(pos)))
              = Cardinality(NonBlank(1, pos)) + Cardinality(Taken(pos))
<1> DEFINE s == StopLine(pos)
           A == NonBlank(1, pos)
           T == Taken(pos)
<1>1. s \in Nat /\ pos <= s
  BY Pulled
<1>2. T = NonBlank(pos + 1, s)
  BY DEF Taken
<1> HIDE DEF s, T
<1>3. NonBlank(1, s) = A \cup T
  BY <1>1, <1>2 DEF NonBlank
<1>4. A \cap T = {}
  BY <1>1, <1>2 DEF NonBlank
<1>5. IsFiniteSet(A) /\ IsFiniteSet(T)
  <2>1. IsFiniteSet(1 .. pos) /\ IsFiniteSet(pos + 1 .. s)
    BY <1>1, FS_Interval
  <2>2. A \subseteq 1 .. pos /\ T \subseteq pos + 1 .. s
    BY <1>2 DEF NonBlank
  <2>3. QED  BY <2>1, <2>2, FS_Subset
<1> HIDE DEF A
<1>6. Cardinality(A \cup T) = Cardinality(A) + Cardinality(T) - Cardinality({})
  BY <1>4, <1>5, FS_Union
<1>7. Cardinality(A) \in Nat /\ Cardinality(T) \in Nat /\ Cardinality({}) = 0
  BY <1>5, FS_CardinalityType, FS_EmptySet
<1>8. Cardinality(NonBlank(1, s)) = Cardinality(A) + Cardinality(T)
  <2>1. Cardinality(NonBlank(1, s)) = Cardinality(A \cup T)
    BY <1>3, Zenon
  <2>2. QED  BY <1>6, <1>7, <2>1
<1>9. QED
  BY <1>3, <1>8, Zenon DEF A, T, s

LEMMA Handed ==
  ASSUME TypeOK, OnePlace
  PROVE  /\ next \in Nat /\ reader.nextIndex \in Nat /\ next <= reader.nextIndex
         /\ \A w \in Holding : held[w].index \in 0 .. reader.nextIndex - 1
         /\ \A i \in DOMAIN chan : chan[i].index \in 0 .. reader.nextIndex - 1
         /\ \A r \in reorder : r.index \in 0 .. reader.nextIndex - 1
<1>1. next \in Nat /\ reader.nextIndex \in Nat
  BY DEF TypeOK
<1>2. Merged \subseteq Indices
  BY DEF OnePlace
<1>3. next # 0 => next - 1 \in Merged
  BY <1>1 DEF Merged
<1>4. next <= reader.nextIndex
  BY <1>1, <1>2, <1>3 DEF Indices
<1>5. QED
  BY <1>1, <1>4 DEF OnePlace, InFlight, Sent, Parked, Indices

LEMMA LengthsNat ==
  ASSUME TypeOK
  PROVE  /\ \A i \in DOMAIN chan : Len(chan[i].part) \in Nat
         /\ \A r \in reorder : Len(r.part) \in Nat
         /\ \A w \in Workers : Cardinality(held[w].lines) \in Nat
         /\ Len(out) \in Nat /\ out \in Seq(Nat)
<1>1. /\ \A i \in DOMAIN chan : chan[i] \in Result
      /\ \A r \in reorder : r \in Result
      /\ out \in Seq(Nat)
  BY DEF TypeOK
<1>2. \A r \in Result : r.part \in Seq(Nat)
  BY DEF Result
<1>3. \A w \in Workers : held[w].lines \subseteq Lines
  BY DEF TypeOK, RawChunk
<1>4. IsFiniteSet(Lines)
  BY FileType, FS_Interval DEF Lines
<1>5. \A w \in Workers : Cardinality(held[w].lines) \in Nat
  BY <1>3, <1>4, FS_Subset, FS_CardinalityType
<1>6. QED
  BY <1>1, <1>2, <1>5, LenProperties

\* When a chunk is pulled, all before it are full.
LEMMA PullChunked ==
  ASSUME TypeOK, OnePlace, Chunked, Printed, Counted, NEW w \in Workers, PullChunk(w)
  PROVE  Chunked' /\ Printed'
<1> DEFINE n == reader.nextIndex
           s == StopLine(reader.pos)
           T == Taken(reader.pos)
<1>1. /\ file \in Seq(LineKind) /\ Len(file) \in Nat /\ reader.pos \in Nat /\ n \in Nat
      /\ reader.nextOrdinal \in Nat /\ reader.pos <= Len(file) /\ ~ReadError(reader.pos) /\ T # {}
  BY FileType DEF TypeOK, PullChunk, Counted
<1>2. /\ s \in Nat /\ (Cardinality(T) = ChunkEvents \/ s = Len(file)) /\ reader.pos < Len(file)
  BY <1>1, Pulled
<1>3. Cardinality(T) \in Nat
  BY <1>1, StopLineType
<1> HIDE DEF s, T
<1>4. /\ reader'.pos = s /\ reader'.nextIndex = n + 1
      /\ reader'.nextOrdinal = reader.nextOrdinal + Cardinality(T)
  BY DEF PullChunk, TypeOK, s, T
<1>5. /\ held' = [held EXCEPT ![w] = [index |-> n, first |-> reader.nextOrdinal, lines |-> T]]
      /\ UNCHANGED <<file, firstErr, chan, reorder, next, acc, out, passed, outcome>>
  BY DEF PullChunk, fold, T
<1>6. reader.nextOrdinal = Start[n]
  BY <1>2 DEF Chunked
<1>7. ChunkEvents \in Nat \ {0} /\ Start[n] \in Nat /\ Start[n + 1] = Start[n] + ChunkEvents
  BY <1>1, StartIs, ChunkEventsAssumption
<1>8. \A k \in 0 .. n - 1, m \in Nat : Sized(k, m) => m = ChunkEvents /\ k + 1 < n + 1
  <2> SUFFICES ASSUME NEW k \in 0 .. n - 1, NEW m \in Nat, Sized(k, m) PROVE m = ChunkEvents
    BY <1>1
  <2>1. Start[k] \in Nat /\ Start[k + 1] = Start[k] + ChunkEvents
    BY <1>1, StartIs
  <2>2. CASE k + 1 < n
    BY <2>2 DEF Sized
  <2>3. CASE k + 1 = n
    <3>1. Start[k] + m = Start[n] /\ Start[n] = Start[k] + ChunkEvents
      BY <1>6, <2>1, <2>3 DEF Sized
    <3>2. QED  BY <1>7, <2>1, <3>1
  <2>4. QED  BY <1>1, <2>2, <2>3
<1>9. Holding' = Holding \cup {w} /\ w \notin Holding /\ Holding \subseteq Workers
  BY DEF PullChunk, TypeOK, Holding
<1> DEFINE New(k, m) == /\ k + 1 < reader'.nextIndex => m = ChunkEvents
                        /\ k + 1 = reader'.nextIndex => Start[k] + m = reader'.nextOrdinal
<1>10. \A u \in Holding' : /\ held'[u].first = Start[held'[u].index]
                           /\ New(held'[u].index, Cardinality(held'[u].lines))
  <2> SUFFICES ASSUME NEW u \in Holding'
               PROVE  /\ held'[u].first = Start[held'[u].index]
                      /\ New(held'[u].index, Cardinality(held'[u].lines))
    OBVIOUS
  <2>1. CASE u = w
    <3>1. held'[u] = [index |-> n, first |-> reader.nextOrdinal, lines |-> T]
      BY <1>5, <2>1 DEF TypeOK
    <3>2. QED  BY <1>1, <1>4, <1>6, <3>1
  <2>2. CASE u # w
    <3>1. u \in Holding /\ held'[u] = held[u]
      BY <1>5, <1>9, <2>2 DEF TypeOK
    <3>2. held[u].index \in 0 .. n - 1 /\ Cardinality(held[u].lines) \in Nat
      BY <1>9, <3>1, Handed, LengthsNat
    <3>3. held[u].first = Start[held[u].index] /\ Sized(held[u].index, Cardinality(held[u].lines))
      BY <3>1 DEF Chunked
    <3>4. Cardinality(held[u].lines) = ChunkEvents
      BY <1>8, <3>2, <3>3
    <3>5. QED  BY <1>1, <1>4, <3>1, <3>2, <3>3, <3>4
  <2>3. QED  BY <2>1, <2>2
<1> DEFINE NewWhole(r) == /\ New(r.index, Len(r.part))
                          /\ r.part = [i \in 1..Len(r.part) |-> Start[r.index] + i - 1]
<1>11. \A r : r.index \in 0 .. n - 1 /\ Len(r.part) \in Nat /\ Whole(r) => NewWhole(r)
  <2> SUFFICES ASSUME NEW r, r.index \in 0 .. n - 1, Len(r.part) \in Nat, Whole(r)
               PROVE  NewWhole(r)
    OBVIOUS
  <2>1. Sized(r.index, Len(r.part))
    BY DEF Whole
  <2>2. Len(r.part) = ChunkEvents
    BY <1>8, <2>1
  <2>3. QED  BY <1>1, <1>4, <2>2 DEF Whole
<1>12. Chunked'
  <2>1. reader'.pos < Len(file) => reader'.nextOrdinal = Start[reader'.nextIndex]
    BY <1>1, <1>2, <1>4, <1>6, <1>7
  <2>2. (\A i \in DOMAIN chan : NewWhole(chan[i])) /\ (\A r \in reorder : NewWhole(r))
    <3> HIDE DEF NewWhole
    <3>1. QED  BY <1>11, Handed, LengthsNat DEF Chunked
  <2>3. QED  BY <1>5, <1>10, <2>1, <2>2 DEF Chunked, Whole, Sized
<1>13. Printed'
  <2>1. next \in Nat /\ next <= n
    BY Handed
  <2>2. QED  BY <1>1, <1>4, <1>5, <1>6, <2>1 DEF Printed
<1>14. QED  BY <1>12, <1>13

LEMMA PullCounted ==
  ASSUME TypeOK, Counted, NEW w \in Workers, PullChunk(w) PROVE Counted'
<1> DEFINE s == StopLine(reader.pos)
           T == Taken(reader.pos)
<1>1. /\ file \in Seq(LineKind) /\ Len(file) \in Nat /\ reader.pos \in Nat
      /\ reader.nextOrdinal \in Nat /\ reader.pos <= Len(file) /\ ~ReadError(reader.pos)
  BY FileType DEF TypeOK, PullChunk, Counted
<1>2. /\ s \in Nat /\ reader.pos <= s /\ s <= Len(file)
      /\ \A i \in reader.pos + 1 .. s : file[i] # "ioerr"
  BY <1>1, Pulled
<1>3. Cardinality(NonBlank(1, s)) = Cardinality(NonBlank(1, reader.pos)) + Cardinality(T)
  BY <1>1, PassedLines
<1>4. T = NonBlank(reader.pos + 1, s)
  BY DEF Taken
<1> HIDE DEF s, T
<1>5. /\ reader'.pos = s /\ reader'.done = reader.done /\ ~reader.done
      /\ reader'.nextOrdinal = reader.nextOrdinal + Cardinality(T)
  BY DEF PullChunk, TypeOK, s, T
<1>6. held' = [held EXCEPT ![w] = [index |-> reader.nextIndex, first |-> reader.nextOrdinal, lines |-> T]]
  BY DEF PullChunk, T
<1>7. file' = file
  BY DEF PullChunk
<1>8. Holding' = Holding \cup {w} /\ w \notin Holding
  BY DEF PullChunk, TypeOK, Holding
<1>9. \A i \in 1 .. s : file[i] = "bad" => \E u \in Holding' : i \in held'[u].lines
  <2> SUFFICES ASSUME NEW i \in 1 .. s, file[i] = "bad"
               PROVE  \E u \in Holding' : i \in held'[u].lines
    OBVIOUS
  <2>1. CASE i <= reader.pos
    <3>1. PICK u \in Holding : i \in held[u].lines
      BY <1>1, <2>1 DEF Counted
    <3>2. u \in Holding' /\ held'[u] = held[u]
      BY <1>6, <1>8, <3>1 DEF TypeOK, Holding
    <3>3. QED  BY <3>1, <3>2
  <2>2. CASE ~(i <= reader.pos)
    <3>1. i \in T
      BY <1>1, <1>2, <1>4, <2>2 DEF NonBlank
    <3>2. held'[w].lines = T
      BY <1>6 DEF TypeOK
    <3>3. QED  BY <1>8, <3>1, <3>2
  <2>3. QED  BY <2>1, <2>2
<1>10. \A i \in 1 .. s : file[i] # "ioerr"
  BY <1>1, <1>2 DEF Counted
<1>11. reader'.nextOrdinal = Cardinality(NonBlank(1, s))
  BY <1>3, <1>5 DEF Counted
<1>12. NonBlank(1, reader.pos)' = NonBlank(1, s)
  BY <1>5, <1>7 DEF NonBlank
<1>13. QED
  BY <1>2, <1>5, <1>7, <1>9, <1>10, <1>11, <1>12, Zenon DEF Counted

\* The reader that finds nothing more has passed every line.
LEMMA EndComplete ==
  ASSUME TypeOK, Chunked, Printed, Counted, NEW w \in Workers, PullEnd(w)
  PROVE  Chunked' /\ Printed' /\ Counted'
<1>1. /\ file \in Seq(LineKind) /\ Len(file) \in Nat /\ reader.pos \in Nat
      /\ reader.nextOrdinal \in Nat /\ reader.pos <= Len(file)
  BY FileType DEF TypeOK, Counted
<1>2. /\ reader'.nextIndex = reader.nextIndex /\ reader'.nextOrdinal = reader.nextOrdinal
      /\ reader'.done
      /\ UNCHANGED <<file, held, firstErr, chan, reorder, next, acc, out, passed, outcome>>
  BY DEF PullEnd, TypeOK, fold
<1>3. Holding' = Holding
  BY DEF PullEnd, TypeOK, Holding
<1>4. Cardinality(NonBlank(1, reader'.pos)) = Cardinality(NonBlank(1, reader.pos)) /\ reader'.pos = Len(file)
      /\ \A i \in reader.pos + 1 .. reader'.pos : file[i] \notin {"ioerr", "bad"}
  <2>1. CASE reader.done
    <3>1. reader'.pos = reader.pos
      BY <2>1 DEF PullEnd, TypeOK
    <3>2. QED  BY <1>1, <2>1, <3>1 DEF Counted
  <2>2. CASE ~reader.done
    <3>1. ~ReadError(reader.pos) /\ Taken(reader.pos) = {} /\ reader'.pos = StopLine(reader.pos)
      BY <2>2 DEF PullEnd, TypeOK
    <3>2. /\ StopLine(reader.pos) = Len(file)
          /\ \A i \in reader.pos + 1 .. StopLine(reader.pos) : file[i] # "ioerr"
      BY <1>1, <3>1, Pulled
    <3>3. NonBlank(1, StopLine(reader.pos)) = NonBlank(1, reader.pos)
      BY <1>1, <3>1, PassedLines
    <3>4. \A i \in reader.pos + 1 .. StopLine(reader.pos) : i \notin Taken(reader.pos)
      BY <3>1
    <3>5. \A i \in reader.pos + 1 .. StopLine(reader.pos) : file[i] # "bad"
      BY <3>4 DEF Taken, NonBlank
    <3>6. QED  BY <3>1, <3>2, <3>3, <3>5
  <2>3. QED  BY <2>1, <2>2
<1>5. NonBlank(1, reader.pos)' = NonBlank(1, reader'.pos)
  BY <1>2 DEF NonBlank
<1>6. Counted'
  <2>1. \A i \in 1 .. reader'.pos : file[i] # "ioerr"
    BY <1>1, <1>4 DEF Counted
  <2>2. \A i \in 1 .. reader'.pos : file[i] = "bad" => \E u \in Holding : i \in held[u].lines
    BY <1>1, <1>4 DEF Counted
  <2>3. reader'.nextOrdinal = Cardinality(NonBlank(1, reader'.pos))
    BY <1>2, <1>4 DEF Counted
  <2>4. QED  BY <1>1, <1>2, <1>3, <1>4, <1>5, <2>1, <2>2, <2>3 DEF Counted
<1>7. Chunked' /\ Printed'
  BY <1>1, <1>2, <1>3, <1>4 DEF Chunked, Printed, Whole, Sized
<1>8. QED  BY <1>6, <1>7

LEMMA SendComplete ==
  ASSUME TypeOK, OnePlace, Chunked, Printed, Counted, NEW w \in Workers, EvaluateAndSend(w)
  PROVE  Chunked' /\ Printed' /\ Counted'
<1> DEFINE r == ChunkResult(held[w])
           c == Cardinality(held[w].lines)
<1>1. w \in Holding /\ BadIn(held[w]) = {} /\ Holding' = Holding \ {w}
  BY DEF EvaluateAndSend, TypeOK, Holding
<1>2. /\ held' = [held EXCEPT ![w] = NoChunk] /\ chan' = Append(chan, r)
      /\ UNCHANGED <<file, reader, firstErr, reorder, next, acc, out, passed, outcome>>
  BY DEF EvaluateAndSend, fold
<1>3. \A u \in Holding' : u \in Holding /\ held'[u] = held[u]
  BY <1>1, <1>2 DEF TypeOK, Holding
<1>4. Whole(r)
  <2>1. c \in Nat /\ r.index = held[w].index /\ r.part = [i \in 1..c |-> held[w].first + i - 1]
    BY LengthsNat DEF ChunkResult, Partial
  <2>2. Len(r.part) = c
    BY <2>1
  <2>3. held[w].first = Start[held[w].index] /\ Sized(held[w].index, c)
    BY <1>1 DEF Chunked
  <2> HIDE DEF r, c
  <2>4. QED  BY <2>1, <2>2, <2>3 DEF Whole
<1>5. \A i \in DOMAIN chan' : chan'[i] = r \/ \E j \in DOMAIN chan : chan'[i] = chan[j]
  <2>1. chan \in Seq(Result) /\ r \in Result
    BY ChunkResultType DEF TypeOK
  <2> HIDE DEF r
  <2>2. QED  BY <1>2, <2>1, AppendProperties
<1> HIDE DEF r
<1>6. \A i \in DOMAIN chan' : Whole(chan'[i])
  BY <1>4, <1>5 DEF Chunked
<1>7. Chunked' /\ Printed'
  <2>1. \A u \in Holding' : /\ held'[u].first = Start[held'[u].index]
                            /\ Sized(held'[u].index, Cardinality(held'[u].lines))
    BY <1>3 DEF Chunked
  <2>2. Chunked'
    BY <1>2, <1>6, <2>1 DEF Chunked, Whole, Sized
  <2>3. Printed'
    BY <1>2 DEF Printed
  <2>4. QED  BY <2>2, <2>3
<1>8. Counted'
  <2>1. \A i \in 1 .. reader.pos : file[i] = "bad" => \E u \in Holding' : i \in held'[u].lines
    <3> SUFFICES ASSUME NEW i \in 1 .. reader.pos, file[i] = "bad"
                 PROVE  \E u \in Holding' : i \in held'[u].lines
      OBVIOUS
    <3>1. PICK u \in Holding : i \in held[u].lines
      BY DEF Counted
    <3>2. u # w
      BY <1>1, <3>1 DEF BadIn
    <3>3. QED  BY <1>1, <1>3, <3>1, <3>2
  <2>2. NonBlank(1, reader.pos)' = NonBlank(1, reader.pos)
    BY <1>2 DEF NonBlank
  <2>3. QED  BY <1>2, <2>1, <2>2 DEF Counted
<1>9. QED  BY <1>7, <1>8

\* Receiving moves a result, merging prints it.
LEMMA SameCounted ==
  ASSUME Counted, UNCHANGED <<file, reader, pc, held>> PROVE Counted'
<1>1. NonBlank(1, reader.pos)' = NonBlank(1, reader.pos) /\ Holding' = Holding
  BY DEF NonBlank, Holding
<1>2. QED  BY <1>1 DEF Counted

LEMMA ReceiveComplete ==
  ASSUME TypeOK, Chunked, Printed, Counted, Receive
  PROVE  Chunked' /\ Printed' /\ Counted'
<1>1. /\ chan' = Tail(chan) /\ chan # <<>> /\ reorder' = reorder \cup {Head(chan)}
      /\ UNCHANGED <<file, reader, pc, held, next, out>> /\ chan \in Seq(Result)
  BY DEF Receive, TypeOK
<1>2. /\ 1 \in DOMAIN chan /\ Head(chan) = chan[1]
      /\ \A i \in DOMAIN chan' : i + 1 \in DOMAIN chan /\ chan'[i] = chan[i + 1]
  BY <1>1, HeadTailProperties, LenProperties
<1>3. (\A i \in DOMAIN chan' : Whole(chan'[i])) /\ \A r \in reorder' : Whole(r)
  BY <1>1, <1>2 DEF Chunked
<1>4. Holding' = Holding
  BY <1>1 DEF Holding
<1>5. QED
  BY <1>1, <1>3, <1>4, SameCounted DEF Chunked, Printed, Whole, Sized

LEMMA MergeComplete ==
  ASSUME TypeOK, OnePlace, Chunked, Printed, Counted, MergeNext
  PROVE  Chunked' /\ Printed' /\ Counted'
<1>1. PICK r \in reorder : r.index = next /\ reorder' = reorder \ {r} /\ out' = out \o r.part
  BY DEF MergeNext
<1>2. next' = next + 1 /\ UNCHANGED <<file, reader, pc, held, chan>>
  BY DEF MergeNext
<1>3. Holding' = Holding
  BY <1>2 DEF Holding
<1>4. Chunked' /\ Counted'
  BY <1>1, <1>2, <1>3, SameCounted DEF Chunked, Whole, Sized
<1> DEFINE n == Len(r.part)
           m == Len(out)
<1>5. /\ n \in Nat /\ m \in Nat /\ out \in Seq(Nat) /\ r.part \in Seq(Nat)
      /\ next \in Nat /\ reader.nextIndex \in Nat /\ next < reader.nextIndex
  <2>1. r \in Result /\ out \in Seq(Nat) /\ m \in Nat /\ n \in Nat
    BY LengthsNat DEF TypeOK
  <2>2. r.part \in Seq(Nat)
    BY <2>1 DEF Result
  <2>3. next \in Nat /\ reader.nextIndex \in Nat /\ r.index \in 0 .. reader.nextIndex - 1
    BY Handed
  <2>4. QED  BY <1>1, <2>1, <2>2, <2>3
<1>6. m = Start[next] /\ out = [i \in 1..m |-> i - 1]
  BY <1>5 DEF Printed
<1>7. /\ next + 1 < reader.nextIndex => n = ChunkEvents
      /\ next + 1 = reader.nextIndex => m + n = reader.nextOrdinal
      /\ r.part = [i \in 1..n |-> m + i - 1]
  <2>1. Whole(r)
    BY DEF Chunked
  <2>2. QED  BY <1>1, <1>6, <2>1 DEF Whole, Sized
<1>8. Len(out') = m + n /\ out' = [i \in 1..Len(out') |-> i - 1]
  <2>1. Len(out') = m + n /\ out' \in Seq(Nat)
    BY <1>1, <1>5, ConcatProperties
  <2>2. \A i \in 1 .. m + n : out'[i] = IF i <= m THEN out[i] ELSE r.part[i - m]
    BY <1>1, <1>5, ConcatProperties
  <2> HIDE DEF n, m
  <2>3. \A i \in 1 .. m + n : out'[i] = i - 1
    <3> SUFFICES ASSUME NEW i \in 1 .. m + n PROVE out'[i] = i - 1
      OBVIOUS
    <3>1. CASE i <= m
      <4>1. i \in 1 .. m
        BY <1>5, <3>1
      <4>2. out[i] = i - 1
        BY <1>6, <4>1, Zenon
      <4>3. QED  BY <2>2, <3>1, <4>2
    <3>2. CASE ~(i <= m)
      <4>1. i - m \in 1 .. n
        BY <1>5, <3>2
      <4>2. r.part[i - m] = m + (i - m) - 1
        BY <1>7, <4>1
      <4>3. QED  BY <1>5, <2>2, <3>2, <4>2
    <3>3. QED  BY <3>1, <3>2
  <2>4. out' = [i \in 1 .. m + n |-> out'[i]]
    BY <1>5, <2>1
  <2>5. QED  BY <2>1, <2>3, <2>4
<1>9. Printed'
  <2>1. Start[next + 1] = Start[next] + ChunkEvents
    BY <1>5, StartIs
  <2>2. QED  BY <1>2, <1>5, <1>6, <1>7, <1>8, <2>1 DEF Printed
<1>10. QED  BY <1>4, <1>9

-----------------------------------------------------------------------------
(* All steps, and the result *)

LEMMA CompleteInit == Init => Complete
<1> SUFFICES ASSUME Init PROVE Complete
  OBVIOUS
<1>1. Len(file) \in Nat
  BY FilesAssumption, LenProperties DEF Init
<1>2. Holding = {} /\ Parked = {} /\ reader.pos = 0 /\ reader.nextIndex = 0 /\ reader.nextOrdinal = 0
      /\ reader.done = FALSE /\ chan = <<>> /\ out = <<>> /\ next = 0 /\ reorder = {}
  BY DEF Init, Holding, Parked
<1>3. Chunked
  BY <1>2, StartIs DEF Chunked
<1>4. Printed
  BY <1>2 DEF Printed
<1>5. Counted
  <2>1. NonBlank(1, 0) = {}
    BY DEF NonBlank
  <2>2. Cardinality(NonBlank(1, 0)) = 0
    BY <2>1, FS_EmptySet
  <2>3. QED  BY <1>1, <1>2, <2>2 DEF Counted
<1>6. Stopped
  BY DEF Init, Stopped
<1>7. QED  BY <1>3, <1>4, <1>5, <1>6 DEF Complete

LEMMA CompleteStep ==
  TypeOK /\ Unique /\ Complete /\ [Next]_vars => Complete'
<1> SUFFICES ASSUME TypeOK, Unique, Complete, [Next]_vars PROVE Complete'
  OBVIOUS
<1>a. OnePlace /\ ErrorShape
  BY DEF Unique
<1>b. ASSUME outcome = Running, outcome' = outcome PROVE Stopped'
  BY <1>b DEF Stopped
<1>c. ASSUME NEW w \in Workers, Worker(w) PROVE outcome = Running /\ outcome' = outcome
  <2>1. pc[w] # "exited" /\ outcome' = outcome
    BY <1>c DEF Worker, PullChunk, PullReadError, PullEnd, EvaluateAndSend, RejectChunk, fold
  <2>2. QED  BY <2>1 DEF Complete, Stopped
<1>1. ASSUME NEW w \in Workers, PullChunk(w) PROVE Complete'
  <2>1. firstErr' = firstErr /\ Stopped'
    BY <1>1, <1>b, <1>c DEF PullChunk, Worker
  <2>2. QED  BY <1>a, <1>1, <2>1, PullChunked, PullCounted DEF Complete
<1>2. ASSUME NEW w \in Workers, PullReadError(w) PROVE Complete'
  <2>1. Stopped'
    BY <1>2, <1>b, <1>c DEF Worker
  <2>2. RecordErr(IoKey, IoError) /\ IoKey \in Nat /\ IoError # Done
    BY <1>2, FileType DEF PullReadError, IoKey, IoError, Done
  <2>3. firstErr' # NoErr
    BY <2>2, RecordErrImproves
  <2>4. QED  BY <2>1, <2>3 DEF Complete
<1>3. ASSUME NEW w \in Workers, PullEnd(w) PROVE Complete'
  <2>1. firstErr' = firstErr /\ Stopped'
    BY <1>3, <1>b, <1>c DEF PullEnd, Worker
  <2>2. QED  BY <1>3, <2>1, EndComplete DEF Complete
<1>4. ASSUME NEW w \in Workers, EvaluateAndSend(w) PROVE Complete'
  <2>1. firstErr' = firstErr /\ Stopped'
    BY <1>4, <1>b, <1>c DEF EvaluateAndSend, Worker
  <2>2. QED  BY <1>a, <1>4, <2>1, SendComplete DEF Complete
<1>5. ASSUME NEW w \in Workers, RejectChunk(w) PROVE Complete'
  <2>1. Stopped'
    BY <1>5, <1>b, <1>c DEF Worker
  <2>2. firstErr' # NoErr
    BY <1>a, <1>5, RejectRecord
  <2>3. QED  BY <2>1, <2>2 DEF Complete
<1>6. CASE Receive
  <2>1. firstErr' = firstErr /\ Stopped'
    BY <1>6, <1>b DEF Receive
  <2>2. QED  BY <1>6, <2>1, ReceiveComplete DEF Complete
<1>7. CASE MergeNext
  <2>1. firstErr' = firstErr /\ Stopped'
    BY <1>7, <1>b DEF MergeNext
  <2>2. QED  BY <1>a, <1>7, <2>1, MergeComplete DEF Complete
<1>8. CASE Return \/ UNCHANGED vars
  <2>1. UNCHANGED <<file, reader, pc, held, firstErr, chan, reorder, next, out>>
    BY <1>8 DEF Return, vars
  <2>2. Holding' = Holding /\ Parked' = Parked
    BY <2>1 DEF Holding, Parked
  <2>3. Chunked /\ Printed /\ Counted => Chunked' /\ Printed' /\ Counted'
    BY <2>1, <2>2, SameCounted DEF Chunked, Printed, Whole, Sized
  <2>4. Stopped'
    <3>1. CASE Return
      <4>1. outcome' = Done => firstErr = NoErr
        BY <1>a, <3>1 DEF Return, ErrorShape, Done, IoError
      <4>2. QED  BY <2>1, <2>2, <3>1, <4>1 DEF Stopped, Return
    <3>2. CASE UNCHANGED vars
      BY <2>1, <2>2, <3>2 DEF Complete, Stopped, vars
    <3>3. QED  BY <1>8, <3>1, <3>2
  <2>5. QED  BY <2>1, <2>3, <2>4 DEF Complete
<1>9. QED
  BY <1>1, <1>2, <1>3, <1>4, <1>5, <1>6, <1>7, <1>8 DEF Next, Worker, Main, Terminated

\* A worker leaves only when the reader has nothing more.
Ended == \A w \in Workers : pc[w] = "exited" => reader.done

LEMMA EndedInit == Init => Ended
BY DEF Init, Ended

LEMMA EndedStep == TypeOK /\ Ended /\ [Next]_vars => Ended'
<1> SUFFICES ASSUME TypeOK, Ended, [Next]_vars PROVE Ended'
  OBVIOUS
<1>1. ASSUME NEW w \in Workers, PullReadError(w) \/ PullEnd(w) PROVE Ended'
  <2>1. reader'.done
    BY <1>1 DEF PullReadError, PullEnd, TypeOK
  <2>2. QED  BY <2>1 DEF Ended
<1>2. ASSUME NEW w \in Workers, PullChunk(w) \/ EvaluateAndSend(w) \/ RejectChunk(w)
      PROVE  Ended'
  <2>1. reader'.done = reader.done
    BY <1>2 DEF PullChunk, EvaluateAndSend, RejectChunk, TypeOK
  <2>2. \A u \in Workers : pc'[u] = "exited" => pc[u] = "exited"
    BY <1>2 DEF PullChunk, EvaluateAndSend, RejectChunk, TypeOK
  <2>3. QED  BY <2>1, <2>2 DEF Ended
<1>3. CASE Main \/ UNCHANGED vars
  BY <1>3 DEF Main, Receive, MergeNext, Return, vars, Ended
<1>4. QED
  BY <1>1, <1>2, <1>3 DEF Next, Worker, Terminated

\* At the end every chunk has been merged and every line counted.
LEMMA CompleteIs ==
  ASSUME TypeOK, Unique, Complete, Ended PROVE SuccessIsComplete
<1> SUFFICES ASSUME outcome = Done
             PROVE  /\ reorder = {} /\ next = reader.nextIndex
                    /\ out = [i \in 1..reader.nextOrdinal |-> i - 1]
                    /\ reader.nextOrdinal = Cardinality({i \in Lines : file[i] \in {"pass", "fail"}})
  BY DEF SuccessIsComplete
<1>1. /\ \A w \in Workers : pc[w] = "exited"
      /\ firstErr = NoErr /\ chan = <<>> /\ next \notin Parked
  BY DEF Complete, Stopped, Done, Running
<1>2. Chunked /\ Printed /\ Counted
  BY <1>1 DEF Complete
<1>3. Holding = {} /\ InFlight = {} /\ Sent = {}
  BY <1>1 DEF Holding, InFlight, Sent
<1>4. Indices \subseteq Parked \cup Merged /\ Parked \subseteq Indices /\ Parked \cap Merged = {}
  BY <1>1, <1>3 DEF Unique, GoneReported, Placed, OnePlace
<1>5. next \in Nat /\ reader.nextIndex \in Nat /\ next <= reader.nextIndex
  BY Handed DEF Unique
<1>6. next = reader.nextIndex
  <2> SUFFICES ASSUME next < reader.nextIndex PROVE FALSE
    BY <1>5
  <2>1. next \in Indices /\ next \notin Merged
    BY <1>5 DEF Indices, Merged
  <2>2. QED  BY <1>1, <1>4, <2>1
<1>7. reorder = {}
  <2>1. Parked = {}
    BY <1>4, <1>6 DEF Indices, Merged
  <2>2. QED  BY <2>1 DEF Parked
<1>8. out = [i \in 1..reader.nextOrdinal |-> i - 1]
  BY <1>2, <1>6 DEF Printed
<1>9. reader.done
  BY <1>1, WorkersAssumption DEF Ended
<1>10. file \in Seq(LineKind) /\ reader.pos = Len(file)
  BY <1>2, <1>9, FileType DEF Counted
<1>11. NonBlank(1, Len(file)) = {i \in Lines : file[i] \in {"pass", "fail"}}
  <2>1. \A i \in Lines : file[i] \in LineKind /\ file[i] \notin {"ioerr", "bad"}
    BY <1>2, <1>3, <1>10 DEF Counted, Lines
  <2>2. QED  BY <2>1 DEF NonBlank, Lines, LineKind
<1>12. QED
  BY <1>2, <1>6, <1>7, <1>8, <1>10, <1>11, Zenon DEF Counted

\* A run that reports success printed every event of the input exactly once,
\* in input order, whatever the workers did (run_streaming, drain_ready).
THEOREM SuccessPrintsAll == Spec => []SuccessIsComplete
<1>1. Init => TypeOK /\ Unique /\ Complete /\ Ended
  BY TypeInit, UniqueInit, CompleteInit, EndedInit
<1>2. TypeOK /\ Unique /\ Complete /\ Ended /\ [Next]_vars => TypeOK' /\ Unique' /\ Complete' /\ Ended'
  BY TypeStep, UniqueStep, CompleteStep, EndedStep
<1>3. TypeOK /\ Unique /\ Complete /\ Ended => SuccessIsComplete
  BY CompleteIs
<1>4. QED
  BY <1>1, <1>2, <1>3, PTL DEF Spec
=============================================================================
