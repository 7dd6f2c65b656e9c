-------------------------- MODULE RunOrderedProofs --------------------------
(***************************************************************************)
(* The parallel event loop implements the single-threaded contract of      *)
(* OrderedRun, for any workers, chunk size and input.                      *)
(*                                                                         *)
(* The argument: the reader cuts the file where OrderedRun cuts it, so a   *)
(* chunk carries the lines of its index wherever it is; what is nowhere is *)
(* a malformed chunk, and the recorded error is the earliest one in the    *)
(* chunks handed out and dropped.  A merge is then the ordered run's       *)
(* FoldChunk, the return its Finish, and every other step a stutter.       *)
(***************************************************************************)
EXTENDS RunStreamingProofs

-----------------------------------------------------------------------------
(* Counting the event lines of a file. *)

Events(f) == Ordered!EventLines(f)
Ord(f, i) == Ordered!Ordinal(f, i)

\* No read fails on lines 1..n.
Reads(f, n) == \A i \in 1..n : f[i] # "ioerr"

\* The instance's Cardinality is the one the theorems about finite sets use.
LEMMA SameCardinality == \A S : Ordered!Cardinality(S) = Cardinality(S)
BY DEF Ordered!Cardinality, Cardinality

LEMMA EventsAre ==
  ASSUME NEW f \in Seq(LineKind)
  PROVE  /\ Len(f) \in Nat /\ IsFiniteSet(Events(f))
         /\ \A i \in Events(f) : i \in Nat /\ 1 <= i /\ i <= Len(f)
         /\ \A i \in 1..Len(f) : i \in Events(f) <=> f[i] # "blank" /\ Reads(f, i)
<1>1. Len(f) \in Nat
  BY LenProperties
<1>2. Events(f) \subseteq 1..Len(f)
  BY DEF Events, Ordered!EventLines, Ordered!Readable
<1>3. IsFiniteSet(Events(f))
  <2>1. IsFiniteSet(1..Len(f))
    BY <1>1, FS_Interval
  <2>2. QED  BY <1>2, <2>1, FS_Subset
<1>4. \A i \in Events(f) : i \in Nat /\ 1 <= i /\ i <= Len(f)
  BY <1>1, <1>2
<1>5. QED
  BY <1>1, <1>3, <1>4 DEF Events, Ordered!EventLines, Ordered!Readable, Reads

\* Ordinals grow by one at each event line.
LEMMA OrdinalGrows ==
  ASSUME NEW f \in Seq(LineKind)
  PROVE  /\ Ord(f, 1) = 0
         /\ \A i \in Nat : Ord(f, i) \in Nat
         /\ \A i, j \in Nat : i <= j => Ord(f, i) <= Ord(f, j)
         /\ \A i \in Nat : Ord(f, i + 1) = IF i \in Events(f) THEN Ord(f, i) + 1 ELSE Ord(f, i)
         /\ Ord(f, Len(f) + 1) = Cardinality(Events(f))
<1> DEFINE E == Events(f)
           Before(i) == {j \in E : j < i}
<1>1. Len(f) \in Nat /\ IsFiniteSet(E) /\ \A i \in E : i \in Nat /\ 1 <= i /\ i <= Len(f)
  BY EventsAre
<1>2. \A i : Ord(f, i) = Cardinality(Before(i))
  BY SameCardinality DEF Ord, Ordered!Ordinal, Events
<1> HIDE DEF E
<1>3. \A i : IsFiniteSet(Before(i)) /\ Cardinality(Before(i)) \in Nat
  BY <1>1, FS_Subset, FS_CardinalityType
<1>4. Before(1) = {}
  BY <1>1
<1>5. Before(Len(f) + 1) = E
  BY <1>1
<1>6. ASSUME NEW i \in Nat, NEW j \in Nat, i <= j
      PROVE  Cardinality(Before(i)) <= Cardinality(Before(j))
  <2>1. Before(i) \subseteq Before(j)
    BY <1>1, <1>6
  <2>2. QED  BY <1>3, <2>1, FS_Subset
<1>7. ASSUME NEW i \in Nat
      PROVE  Cardinality(Before(i + 1)) = IF i \in E THEN Cardinality(Before(i)) + 1
                                                     ELSE Cardinality(Before(i))
  <2>0. \A j \in E : j < i + 1 <=> j < i \/ j = i
    BY <1>1
  <2>1. CASE i \in E
    <3>1. Before(i + 1) = Before(i) \cup {i}
      BY <2>1, <2>0
    <3>2. i \notin Before(i)
      OBVIOUS
    <3> HIDE DEF Before
    <3>3. QED  BY <1>3, <2>1, <3>1, <3>2, FS_AddElement
  <2>2. CASE i \notin E
    <3>1. Before(i + 1) = Before(i)
      BY <2>2, <2>0
    <3>2. QED  BY <2>2, <3>1
  <2>3. QED  BY <2>1, <2>2
<1> HIDE DEF Before
<1>8. Cardinality(Before(1)) = 0
  BY <1>4, FS_EmptySet
<1>9. QED
  BY <1>2, <1>3, <1>5, <1>6, <1>7, <1>8 DEF E

\* What lies between two positions the reader passed without a failing read.
LEMMA Between ==
  ASSUME file \in Seq(LineKind), NEW p \in Nat, NEW i \in Nat, p <= i, i <= Len(file), Reads(file, i - 1)
  PROVE  /\ NonBlank(p + 1, i) = {j \in Events(file) : p < j /\ j <= i}
         /\ Cardinality(NonBlank(p + 1, i)) \in Nat
         /\ Ord(file, i + 1) = Ord(file, p + 1) + Cardinality(NonBlank(p + 1, i))
<1> DEFINE E == Events(file)
           A == {j \in E : j < p + 1}
           B == {j \in E : p < j /\ j <= i}
<1>1. Len(file) \in Nat /\ IsFiniteSet(E) /\ (\A j \in E : j \in Nat /\ 1 <= j /\ j <= Len(file))
      /\ \A j \in 1..Len(file) : j \in E <=> file[j] # "blank" /\ Reads(file, j)
  BY EventsAre
<1>2. \A j \in p + 1..i : j \in E <=> file[j] \notin {"blank", "ioerr"}
  <2> SUFFICES ASSUME NEW j \in p + 1..i
               PROVE  Reads(file, j) <=> file[j] # "ioerr"
    BY <1>1
  <2>1. QED  BY <1>1 DEF Reads
<1>3. NonBlank(p + 1, i) = B
  BY <1>1, <1>2 DEF NonBlank
<1>4. Ord(file, i + 1) = Cardinality({j \in E : j < i + 1}) /\ Ord(file, p + 1) = Cardinality(A)
  BY SameCardinality DEF Ord, Ordered!Ordinal, Events
<1>5. {j \in E : j < i + 1} = A \cup B /\ A \cap B = {}
  BY <1>1
<1>6. IsFiniteSet(A) /\ IsFiniteSet(B)
  BY <1>1, FS_Subset
<1> HIDE DEF A, B
<1>7. Cardinality(A \cup B) = Cardinality(A) + Cardinality(B) - Cardinality({})
  BY <1>5, <1>6, FS_Union
<1>8. Cardinality(A) \in Nat /\ Cardinality(B) \in Nat /\ Cardinality({}) = 0
  BY <1>6, FS_CardinalityType, FS_EmptySet
<1>9. QED
  <2>1. Ord(file, i + 1) = Ord(file, p + 1) + Cardinality(B)
    <3>1. Ord(file, i + 1) = Cardinality(A \cup B)
      BY <1>4, <1>5, Zenon
    <3>2. QED  BY <1>4, <1>7, <1>8, <3>1
  <2>2. QED  BY <1>3, <1>8, <2>1 DEF B, E

-----------------------------------------------------------------------------
(* Where one call of next() stops. *)

LEMMA Stopping ==
  ASSUME file \in Seq(LineKind), NEW pos \in Nat, pos <= Len(file), Reads(file, pos)
  PROVE  LET s == StopLine(pos)
         IN  /\ s \in Nat /\ pos <= s /\ s <= Len(file) /\ Reads(file, s - 1)
             /\ Taken(pos) = {j \in Events(file) : pos < j /\ j <= s}
             /\ Ord(file, s + 1) <= Ord(file, pos + 1) + ChunkEvents
             /\ s < Len(file) /\ file[s] # "ioerr" => Ord(file, s + 1) = Ord(file, pos + 1) + ChunkEvents
             /\ ReadError(pos) => s \in 1..Len(file) /\ file[s] = "ioerr"
                                  /\ Ord(file, s + 1) < Ord(file, pos + 1) + ChunkEvents
             /\ ~ReadError(pos) => Reads(file, s)
<1> DEFINE s == StopLine(pos)
           o == Ord(file, pos + 1)
<1>1. Len(file) \in Nat /\ ChunkEvents \in Nat \ {0}
  BY LenProperties, ChunkEventsAssumption
<1>2. Stops(pos) # {} => s \in Stops(pos) /\ \A j \in Stops(pos) : s <= j
  <2> SUFFICES ASSUME Stops(pos) # {} PROVE s \in Stops(pos) /\ \A j \in Stops(pos) : s <= j
    OBVIOUS
  <2>1. Stops(pos) \subseteq Nat
    BY <1>1 DEF Stops
  <2>2. \E i \in Stops(pos) : \A j \in Stops(pos) : i <= j
    BY <2>1, LeastNatural
  <2>3. QED  BY <2>2 DEF StopLine
<1>3. Stops(pos) = {} => s = Len(file)
  BY DEF StopLine
<1>4. s \in Nat /\ pos <= s /\ s <= Len(file)
  BY <1>1, <1>2, <1>3 DEF Stops
<1>5. Reads(file, s - 1)
  <2> SUFFICES ASSUME NEW i \in 1..s - 1, file[i] = "ioerr" PROVE FALSE
    BY DEF Reads
  <2>1. i \in pos + 1..Len(file)
    BY <1>1, <1>4 DEF Reads
  <2>2. i \in Stops(pos)
    BY <2>1 DEF Stops
  <2>3. QED  BY <1>2, <1>4, <2>2
<1>6. \A i \in pos..s : /\ Ord(file, i + 1) = o + Cardinality(NonBlank(pos + 1, i))
                        /\ Cardinality(NonBlank(pos + 1, i)) \in Nat
  <2> SUFFICES ASSUME NEW i \in pos..s
               PROVE  /\ Ord(file, i + 1) = o + Cardinality(NonBlank(pos + 1, i))
                      /\ Cardinality(NonBlank(pos + 1, i)) \in Nat
    OBVIOUS
  <2>1. i \in Nat /\ pos <= i /\ i <= Len(file) /\ Reads(file, i - 1)
    BY <1>1, <1>4, <1>5 DEF Reads
  <2>2. QED  BY <2>1, Between
<1>7. Taken(pos) = {j \in Events(file) : pos < j /\ j <= s}
  BY <1>4, <1>5, Between DEF Taken
<1>8. \A i \in Nat : Ord(file, i) \in Nat
  BY OrdinalGrows
<1>o. o \in Nat
  BY <1>8
<1> HIDE DEF s, o
\* The first line at which the chunk is full is a line to stop at.
<1>9. ASSUME NEW i \in pos..s, Ord(file, i + 1) >= o + ChunkEvents
      PROVE  i = s /\ Ord(file, s + 1) = o + ChunkEvents /\ s \in Events(file)
  <2> DEFINE Full == {j \in pos..s : Ord(file, j + 1) >= o + ChunkEvents}
  <2>1. Full \subseteq Nat /\ i \in Full
    BY <1>4, <1>9
  <2>2. PICK j \in Full : \A m \in Full : j <= m
    BY <2>1, LeastNatural, Zenon
  <2>3. j \in Nat /\ pos <= j /\ j <= s /\ Ord(file, j + 1) >= o + ChunkEvents
    BY <1>4, <2>2
  <2>4. j # pos
    BY <1>1, <1>o, <2>3 DEF o
  <2>5. j - 1 \in pos..s /\ j - 1 \in Nat /\ j - 1 < j /\ (j - 1) + 1 = j
    BY <1>4, <2>3, <2>4
  <2>6. j - 1 \notin Full
    BY <2>2, <2>3, <2>5
  <2>7. Ord(file, j) \in Nat /\ Ord(file, j) < o + ChunkEvents
    <3>1. Ord(file, j) \in Nat
      BY <1>8, <2>3
    <3>2. ~(Ord(file, (j - 1) + 1) >= o + ChunkEvents)
      BY <2>5, <2>6
    <3>3. ~(Ord(file, j) >= o + ChunkEvents)
      BY <2>5, <3>2
    <3>4. QED  BY <1>1, <1>o, <3>1, <3>3
  <2>8. Ord(file, j + 1) = IF j \in Events(file) THEN Ord(file, j) + 1 ELSE Ord(file, j)
    BY <2>3, OrdinalGrows
  <2>9. Ord(file, j + 1) = o + ChunkEvents /\ j \in Events(file)
    BY <1>1, <1>o, <2>3, <2>7, <2>8
  <2>10. Cardinality(NonBlank(pos + 1, j)) = ChunkEvents
    <3>1. Ord(file, j + 1) = o + Cardinality(NonBlank(pos + 1, j)) /\ Cardinality(NonBlank(pos + 1, j)) \in Nat
      BY <1>4, <1>6, <2>3
    <3>2. QED  BY <1>1, <1>o, <2>9, <3>1
  <2>11. j \in Stops(pos)
    BY <1>1, <1>4, <2>3, <2>4, <2>10 DEF Stops
  <2>12. s = j
    BY <1>2, <1>4, <2>3, <2>11
  <2>13. i = s
    BY <1>4, <2>1, <2>2, <2>3, <2>12
  <2>14. QED  BY <2>9, <2>12, <2>13
<1>10. Ord(file, s + 1) <= o + ChunkEvents
  <2>1. s \in pos..s /\ Ord(file, s + 1) \in Nat
    <3>1. s \in pos..s /\ s + 1 \in Nat
      BY <1>4
    <3>2. QED  BY <1>8, <3>1, Zenon
  <2>2. QED  BY <1>1, <1>o, <1>9, <2>1
<1>11. s < Len(file) /\ file[s] # "ioerr" => Ord(file, s + 1) = o + ChunkEvents
  <2> SUFFICES ASSUME s < Len(file), file[s] # "ioerr"
               PROVE  Ord(file, s + 1) = o + ChunkEvents
    OBVIOUS
  <2>1. Cardinality(NonBlank(pos + 1, s)) = ChunkEvents
    BY <1>1, <1>2, <1>3, <1>4 DEF Stops, s
  <2>2. s \in pos..s
    BY <1>4
  <2>3. QED  BY <1>6, <2>1, <2>2
<1>12. ASSUME ReadError(pos)
       PROVE  s \in pos + 1..Len(file) /\ file[s] = "ioerr" /\ Ord(file, s + 1) < o + ChunkEvents
  <2>1. s \in pos + 1..Len(file) /\ file[s] = "ioerr"
    BY <1>12, <1>4 DEF ReadError, s
  <2>2. s \notin Events(file)
    BY <1>1, <1>4, <2>1, EventsAre DEF Reads
  <2>3. s \in pos..s /\ Ord(file, s + 1) \in Nat
    <3>1. s \in pos..s /\ s + 1 \in Nat
      BY <1>4
    <3>2. QED  BY <1>8, <3>1, Zenon
  <2>4. QED  BY <1>1, <1>o, <1>9, <2>1, <2>2, <2>3
<1>13. ASSUME ~ReadError(pos) PROVE Reads(file, s)
  <2>1. s > pos => file[s] # "ioerr"
    BY <1>4, <1>13 DEF ReadError, s
  <2>2. QED  BY <1>4, <1>5, <2>1 DEF Reads
<1>14. QED
  BY <1>1, <1>4, <1>5, <1>7, <1>10, <1>11, <1>12, <1>13 DEF s, o

-----------------------------------------------------------------------------
(* The chunks of the ordered run. *)

\* Chunk k holds the events with ordinals Start[k] to Start[k + 1] - 1.
LEMMA Quotient ==
  ASSUME NEW n \in Nat, NEW k \in Nat
  PROVE  n \div ChunkEvents = k <=> Start[k] <= n /\ n < Start[k] + ChunkEvents
  BY QuotientIs, ChunkEventsAssumption DEF Start

LEMMA StartGrows ==
  ASSUME NEW j \in Nat, NEW k \in Nat
  PROVE  Start[j] \in Nat /\ Start[k] \in Nat /\ (j < k => Start[j] + ChunkEvents <= Start[k])
<1> DEFINE c == ChunkEvents
<1>1. c \in Nat /\ Start[j] = j * c /\ Start[k] = k * c
  BY ChunkEventsAssumption DEF Start
<1> HIDE DEF c
<1>2. j < k => j * c + c <= k * c
  BY <1>1
<1>3. j * c \in Nat /\ k * c \in Nat
  BY <1>1
<1>4. QED  BY <1>1, <1>2, <1>3 DEF c

LEMMA ChunkLinesAre ==
  ASSUME NEW f \in Seq(LineKind), NEW k \in Nat
  PROVE  Ordered!ChunkLines(f, k)
           = {i \in Events(f) : Start[k] <= Ord(f, i) /\ Ord(f, i) < Start[k] + ChunkEvents}
<1>1. \A i \in Events(f) : i \in Nat
  BY EventsAre
<1>2. \A i \in Nat : Ord(f, i) \in Nat
  BY OrdinalGrows
<1>3. \A i \in Events(f) : Ord(f, i) \div ChunkEvents = k
                             <=> Start[k] <= Ord(f, i) /\ Ord(f, i) < Start[k] + ChunkEvents
  BY <1>1, <1>2, Quotient
<1>4. QED  BY <1>3 DEF Ordered!ChunkLines, Events, Ord

LEMMA ChunkCountIs ==
  ASSUME NEW f \in Seq(LineKind)
  PROVE  LET c == Ordered!ChunkCount(f)
             n == Ord(f, Len(f) + 1)
         IN  /\ c \in Nat /\ n \in Nat
             /\ Ordered!ReadFails(f) => /\ Start[c] <= n /\ n < Start[c] + ChunkEvents
                                        /\ \A k \in Nat : Start[k] <= n /\ n < Start[k] + ChunkEvents => k = c
             /\ ~Ordered!ReadFails(f) => /\ n <= Start[c] /\ Start[c] < n + ChunkEvents
                                         /\ \A k \in Nat : n <= Start[k] /\ Start[k] < n + ChunkEvents => k = c
<1> DEFINE n == Ord(f, Len(f) + 1)
           m == n + ChunkEvents - 1
<1>1. Len(f) \in Nat /\ Len(f) + 1 \in Nat /\ ChunkEvents \in Nat \ {0}
  BY LenProperties, ChunkEventsAssumption
<1>2. n \in Nat /\ n = Cardinality(Events(f))
  BY <1>1, OrdinalGrows
<1>3. Ordered!ChunkCount(f) = IF Ordered!ReadFails(f) THEN n \div ChunkEvents ELSE m \div ChunkEvents
  BY <1>2, SameCardinality DEF Ordered!ChunkCount, Events
<1> HIDE DEF n
<1>4. m \in Nat
  BY <1>1, <1>2
<1> HIDE DEF m
<1>5. n \div ChunkEvents \in Nat /\ m \div ChunkEvents \in Nat
  BY <1>1, <1>2, <1>4
<1>6. CASE Ordered!ReadFails(f)
  <2> DEFINE c == n \div ChunkEvents
  <2>1. Start[c] <= n /\ n < Start[c] + ChunkEvents
    BY <1>2, <1>5, Quotient
  <2>2. \A k \in Nat : Start[k] <= n /\ n < Start[k] + ChunkEvents => k = c
    BY <1>2, Quotient
  <2> HIDE DEF c
  <2>3. QED  BY <1>2, <1>3, <1>5, <1>6, <2>1, <2>2 DEF c, n
<1>7. CASE ~Ordered!ReadFails(f)
  <2> DEFINE c == m \div ChunkEvents
  <2>1. Start[c] <= m /\ m < Start[c] + ChunkEvents
    BY <1>4, <1>5, Quotient
  <2>2. \A k \in Nat : Start[k] <= m /\ m < Start[k] + ChunkEvents => k = c
    BY <1>4, Quotient
  <2>3. \A k \in Nat : Start[k] \in Nat
    BY StartGrows
  <2>4. \A k \in Nat : Start[k] <= m /\ m < Start[k] + ChunkEvents
                         <=> n <= Start[k] /\ Start[k] < n + ChunkEvents
    BY <1>1, <1>2, <2>3 DEF m
  <2>5. c \in Nat
    BY <1>5
  <2> HIDE DEF c
  <2>6. /\ n <= Start[c] /\ Start[c] < n + ChunkEvents
        /\ \A k \in Nat : n <= Start[k] /\ Start[k] < n + ChunkEvents => k = c
    BY <2>1, <2>2, <2>4, <2>5
  <2>7. QED  BY <1>2, <1>3, <1>7, <2>5, <2>6 DEF c, n
<1>8. QED  BY <1>6, <1>7

-----------------------------------------------------------------------------
(* The reader cuts where the ordered run cuts. *)

\* How far the reader has come: between calls it has handed out whole chunks,
\* a short one only at the end of the file.
Cut ==
  LET k == reader.nextIndex
      n == Ord(file, reader.pos + 1)
  IN  IF reader.done THEN k = Ordered!ChunkCount(file)
      ELSE /\ reader.pos <= Len(file) /\ Reads(file, reader.pos)
           /\ reader.nextOrdinal = n
           /\ n <= Start[k] /\ Start[k] < n + ChunkEvents
           /\ reader.pos < Len(file) => n = Start[k]

\* What a chunk carries, with a worker and as a result.
Lifted(c) == c.lines = Ordered!ChunkLines(file, c.index) /\ c.first = Start[c.index]
Evaluated(r) == /\ Ordered!WellFormed(file, r.index)
                /\ r.part = Ordered!ChunkOrdinals(file, r.index)
                /\ r.pass = Ordered!ChunkPasses(file, r.index)

Carried ==
  /\ \A w \in Holding : Lifted(held[w])
  /\ \A i \in DOMAIN chan : Evaluated(chan[i])
  /\ \A r \in reorder : Evaluated(r)
  /\ \A k \in Indices \ Placed : ~Ordered!WellFormed(file, k)

Earliest ==
  /\ \A k \in Indices \ InFlight : \A i \in Malformed(k) : firstErr # NoErr /\ firstErr.key <= i
  /\ \/ firstErr = NoErr
     \/ \E k \in Indices : \E i \in Malformed(k) : firstErr = [key |-> i, err |-> BadLine(i)]
     \/ Ordered!ReadFails(file) /\ firstErr = [key |-> IoKey, err |-> IoError]
  /\ reader.done /\ Ordered!ReadFails(file) => firstErr # NoErr

Tracks == Cut /\ Carried /\ Earliest /\ Len(acc) = next

LEMMA HandedOut ==
  ASSUME TypeOK, Cut
  PROVE  /\ Ordered!ChunkCount(file) \in Nat /\ reader.nextIndex \in Nat
         /\ reader.nextIndex <= Ordered!ChunkCount(file)
<1> DEFINE k == reader.nextIndex
           c == Ordered!ChunkCount(file)
           n == Ord(file, reader.pos + 1)
           m == Ord(file, Len(file) + 1)
<1>1. /\ file \in Seq(LineKind) /\ Len(file) \in Nat /\ reader.pos \in Nat /\ k \in Nat
      /\ ChunkEvents \in Nat \ {0}
  BY FileType, ChunkEventsAssumption DEF TypeOK
<1>2. /\ c \in Nat /\ m \in Nat
      /\ Ordered!ReadFails(file) => Start[c] <= m /\ m < Start[c] + ChunkEvents
      /\ ~Ordered!ReadFails(file) => m <= Start[c] /\ Start[c] < m + ChunkEvents
  BY <1>1, ChunkCountIs
<1>3. CASE reader.done
  BY <1>1, <1>2, <1>3 DEF Cut
<1>4. ASSUME ~reader.done, c < k PROVE FALSE
  <2>1. /\ reader.pos <= Len(file) /\ Reads(file, reader.pos)
        /\ n <= Start[k] /\ Start[k] < n + ChunkEvents
        /\ reader.pos < Len(file) => n = Start[k]
    BY <1>4 DEF Cut
  <2>2. n \in Nat /\ n <= m
    <3>1. reader.pos + 1 \in Nat /\ Len(file) + 1 \in Nat /\ reader.pos + 1 <= Len(file) + 1
      BY <1>1, <2>1
    <3>2. QED  BY <1>1, <3>1, OrdinalGrows
  <2>3. Start[c] \in Nat /\ Start[k] \in Nat /\ Start[c] + ChunkEvents <= Start[k]
    BY <1>1, <1>2, <1>4, StartGrows
  <2>4. Ordered!ReadFails(file) => reader.pos < Len(file)
    BY <1>1, <2>1 DEF Ordered!ReadFails, Reads
  <2> HIDE DEF k, c, n, m
  <2>5. QED  BY <1>1, <1>2, <2>1, <2>2, <2>3, <2>4
<1>5. QED  BY <1>1, <1>2, <1>3, <1>4

\* One call of next() that yields a chunk yields the ordered run's next one.
LEMMA NextChunk ==
  ASSUME TypeOK, Cut, ~reader.done, ~ReadError(reader.pos), Taken(reader.pos) # {}
  PROVE  LET s == StopLine(reader.pos)
             k == reader.nextIndex
         IN  /\ Taken(reader.pos) = Ordered!ChunkLines(file, k)
             /\ reader.nextOrdinal = Start[k]
             /\ s <= Len(file) /\ Reads(file, s)
             /\ Ord(file, s + 1) = reader.nextOrdinal + Cardinality(Taken(reader.pos))
             /\ Ord(file, s + 1) <= Start[k + 1] /\ Start[k + 1] < Ord(file, s + 1) + ChunkEvents
             /\ s < Len(file) => Ord(file, s + 1) = Start[k + 1]
<1> DEFINE pos == reader.pos
           s == StopLine(pos)
           k == reader.nextIndex
           T == Taken(pos)
<1>1. /\ file \in Seq(LineKind) /\ Len(file) \in Nat /\ pos \in Nat /\ k \in Nat
      /\ ChunkEvents \in Nat \ {0}
  BY FileType, ChunkEventsAssumption DEF TypeOK
<1>2. /\ pos <= Len(file) /\ Reads(file, pos) /\ reader.nextOrdinal = Ord(file, pos + 1)
      /\ pos < Len(file) => Ord(file, pos + 1) = Start[k]
  BY DEF Cut
<1>3. pos < Len(file)
  BY <1>1, <1>2, Pulled
<1>4. /\ s \in Nat /\ pos <= s /\ s <= Len(file) /\ Reads(file, s)
      /\ T = {j \in Events(file) : pos < j /\ j <= s}
      /\ Ord(file, s + 1) <= Ord(file, pos + 1) + ChunkEvents
      /\ s < Len(file) /\ file[s] # "ioerr" => Ord(file, s + 1) = Ord(file, pos + 1) + ChunkEvents
  BY <1>1, <1>2, Stopping
<1>5. s > pos
  BY <1>1, <1>4, EventsAre
<1>6. file[s] # "ioerr"
  BY <1>1, <1>4, <1>5 DEF Reads
<1>7. Start[k] \in Nat /\ Start[k + 1] = Start[k] + ChunkEvents
  BY <1>1, StartIs
<1>8. Ord(file, s + 1) = Ord(file, pos + 1) + Cardinality(T) /\ Cardinality(T) \in Nat
  BY <1>1, <1>4, Between DEF Reads, Taken
<1>9. Cardinality(T) # 0
  BY StopLineType, FS_EmptySet, <1>1
<1>10. \A i \in Nat : Ord(file, i) \in Nat
  BY <1>1, OrdinalGrows
<1>11. ASSUME NEW i \in Events(file)
       PROVE  i \in T <=> Start[k] <= Ord(file, i) /\ Ord(file, i) < Start[k] + ChunkEvents
  <2>1. i \in Nat /\ 1 <= i /\ i <= Len(file) /\ i + 1 \in Nat /\ pos + 1 \in Nat /\ s + 1 \in Nat
    BY <1>1, <1>4, <1>11, EventsAre
  <2>2. Ord(file, i + 1) = Ord(file, i) + 1
    BY <1>1, <1>11, <2>1, OrdinalGrows
  <2>3. /\ i <= pos => Ord(file, i + 1) <= Ord(file, pos + 1)
        /\ pos + 1 <= i => Ord(file, pos + 1) <= Ord(file, i)
        /\ i <= s => Ord(file, i + 1) <= Ord(file, s + 1)
        /\ s + 1 <= i => Ord(file, s + 1) <= Ord(file, i)
    <3>1. \A a, b \in Nat : a <= b => Ord(file, a) <= Ord(file, b)
      BY <1>1, OrdinalGrows
    <3>2. /\ i <= pos => i + 1 <= pos + 1
          /\ i <= s => i + 1 <= s + 1
      BY <1>1, <1>4, <2>1
    <3>3. QED  BY <2>1, <3>1, <3>2
  <2>4. Ord(file, i) \in Nat /\ Ord(file, pos + 1) = Start[k] /\ Ord(file, s + 1) \in Nat
    BY <1>2, <1>3, <1>10, <2>1
  <2>5. s + 1 <= i => Ord(file, s + 1) = Start[k] + ChunkEvents
    BY <1>1, <1>4, <1>6, <2>1, <2>4
  <2>6. i \in T <=> pos < i /\ i <= s
    BY <1>4, <1>11
  <2> HIDE DEF T, s, k, pos
  <2>7. QED  BY <1>1, <1>4, <1>7, <2>1, <2>2, <2>3, <2>4, <2>5, <2>6
<1>12. T = Ordered!ChunkLines(file, k)
  BY <1>1, <1>4, <1>11, ChunkLinesAre
<1>13. Ord(file, s + 1) <= Start[k + 1] /\ Start[k + 1] < Ord(file, s + 1) + ChunkEvents
  BY <1>1, <1>2, <1>3, <1>4, <1>7, <1>8, <1>9
<1>14. QED
  BY <1>2, <1>3, <1>4, <1>6, <1>7, <1>8, <1>12, <1>13

LEMMA PullCut ==
  ASSUME TypeOK, Cut, NEW w \in Workers, PullChunk(w) PROVE Cut'
<1> DEFINE s == StopLine(reader.pos)
           k == reader.nextIndex
<1>1. ~reader.done /\ ~ReadError(reader.pos) /\ Taken(reader.pos) # {} /\ file' = file
  BY DEF PullChunk
<1>2. /\ reader'.pos = s /\ reader'.nextIndex = k + 1 /\ reader'.done = FALSE
      /\ reader'.nextOrdinal = reader.nextOrdinal + Cardinality(Taken(reader.pos))
  BY <1>1 DEF PullChunk, TypeOK
<1>3. /\ s <= Len(file) /\ Reads(file, s)
      /\ Ord(file, s + 1) = reader.nextOrdinal + Cardinality(Taken(reader.pos))
      /\ Ord(file, s + 1) <= Start[k + 1] /\ Start[k + 1] < Ord(file, s + 1) + ChunkEvents
      /\ s < Len(file) => Ord(file, s + 1) = Start[k + 1]
  BY <1>1, NextChunk
<1> HIDE DEF s, k
<1>4. QED  BY <1>1, <1>2, <1>3 DEF Cut

\* A call that yields nothing has met the end of the file.
LEMMA EndCut ==
  ASSUME TypeOK, Cut, NEW w \in Workers, PullEnd(w)
  PROVE  Cut' /\ (~reader.done => ~Ordered!ReadFails(file))
<1>1. file' = file /\ reader'.done = TRUE /\ reader'.nextIndex = reader.nextIndex
  BY DEF PullEnd, TypeOK
<1>2. CASE reader.done
  BY <1>1, <1>2 DEF Cut
<1>3. CASE ~reader.done
  <2> DEFINE pos == reader.pos
             k == reader.nextIndex
             n == Ord(file, Len(file) + 1)
  <2>1. /\ file \in Seq(LineKind) /\ Len(file) \in Nat /\ pos \in Nat /\ k \in Nat
        /\ ~ReadError(pos) /\ Taken(pos) = {}
    BY <1>3, FileType DEF TypeOK, PullEnd
  <2>2. /\ pos <= Len(file) /\ Reads(file, pos)
        /\ Ord(file, pos + 1) <= Start[k] /\ Start[k] < Ord(file, pos + 1) + ChunkEvents
    BY <1>3 DEF Cut
  <2>3. StopLine(pos) = Len(file) /\ Reads(file, Len(file))
    BY <2>1, <2>2, Pulled, Stopping
  <2>4. ~Ordered!ReadFails(file)
    BY <2>3 DEF Ordered!ReadFails, Reads
  <2>5. n = Ord(file, pos + 1)
    <3>1. Reads(file, Len(file) - 1)
      BY <2>1, <2>3 DEF Reads
    <3>2. n = Ord(file, pos + 1) + Cardinality(NonBlank(pos + 1, Len(file)))
      BY <2>1, <2>2, <3>1, Between
    <3>3. NonBlank(pos + 1, Len(file)) = {} /\ Cardinality({}) = 0
      BY <2>1, <2>3, FS_EmptySet DEF Taken
    <3>4. pos + 1 \in Nat
      BY <2>1
    <3>5. Ord(file, pos + 1) \in Nat
      BY <2>1, <3>4, OrdinalGrows
    <3>6. Cardinality(NonBlank(pos + 1, Len(file))) = 0
      BY <3>3
    <3>7. n = Ord(file, pos + 1) + 0
      BY <3>2, <3>6
    <3> HIDE DEF n, pos
    <3>8. QED  BY <3>5, <3>7
  <2>6. k = Ordered!ChunkCount(file)
    BY <2>1, <2>2, <2>4, <2>5, ChunkCountIs
  <2>7. QED  BY <1>1, <2>4, <2>6 DEF Cut
<1>4. QED  BY <1>2, <1>3

\* A failed read: the lines since the last whole chunk are lost to both.
LEMMA ErrorCut ==
  ASSUME TypeOK, Cut, NEW w \in Workers, PullReadError(w)
  PROVE  Cut' /\ Ordered!ReadFails(file)
<1> DEFINE pos == reader.pos
           k == reader.nextIndex
           s == StopLine(pos)
           n == Ord(file, Len(file) + 1)
<1>1. file' = file /\ reader'.done = TRUE /\ reader'.nextIndex = k /\ ~reader.done /\ ReadError(pos)
  BY DEF PullReadError, TypeOK
<1>2. file \in Seq(LineKind) /\ Len(file) \in Nat /\ pos \in Nat /\ k \in Nat /\ ChunkEvents \in Nat
  BY FileType, ChunkEventsAssumption DEF TypeOK
<1>3. /\ pos <= Len(file) /\ Reads(file, pos)
      /\ Ord(file, pos + 1) <= Start[k] /\ Start[k] < Ord(file, pos + 1) + ChunkEvents
      /\ pos < Len(file) => Ord(file, pos + 1) = Start[k]
  BY <1>1 DEF Cut
<1>4. /\ s \in 1..Len(file) /\ file[s] = "ioerr" /\ pos <= s
      /\ Ord(file, s + 1) < Ord(file, pos + 1) + ChunkEvents
  BY <1>1, <1>2, <1>3, Stopping
<1>5. pos < Len(file) /\ pos + 1 <= s + 1
  BY <1>2, <1>3, <1>4 DEF Reads
<1>6. Ordered!ReadFails(file)
  BY <1>4 DEF Ordered!ReadFails
<1>7. n = Ord(file, s + 1)
  <2>1. \A j \in Events(file) : j < s
    BY <1>2, <1>4, EventsAre DEF Reads
  <2>2. {j \in Events(file) : j < Len(file) + 1} = {j \in Events(file) : j < s + 1}
    BY <1>2, <1>4, <2>1, EventsAre
  <2>3. QED  BY <2>2 DEF Ord, Ordered!Ordinal, Events
<1>8. Start[k] \in Nat /\ Ord(file, pos + 1) \in Nat /\ Ord(file, pos + 1) <= Ord(file, s + 1)
  <2>1. pos + 1 \in Nat /\ s + 1 \in Nat
    BY <1>2, <1>4
  <2>2. QED  BY <1>2, <1>5, <2>1, OrdinalGrows, StartGrows
<1>9. k = Ordered!ChunkCount(file)
  BY <1>2, <1>3, <1>4, <1>5, <1>6, <1>7, <1>8, ChunkCountIs
<1>10. QED  BY <1>1, <1>6, <1>9 DEF Cut

-----------------------------------------------------------------------------
(* What chunks carry, step by step. *)

LEMMA CarriedKept ==
  ASSUME file' = file,
         \A w \in Holding' : Lifted(held'[w]),
         \A i \in DOMAIN chan' : Evaluated(chan'[i]),
         \A r \in reorder' : Evaluated(r),
         \A k \in Indices' \ Placed' : ~Ordered!WellFormed(file, k)
  PROVE  Carried'
BY DEF Carried, Lifted, Evaluated

LEMMA PullCarried ==
  ASSUME TypeOK, OnePlace, Cut, Carried, NEW w \in Workers, PullChunk(w) PROVE Carried'
<1> DEFINE k == reader.nextIndex
           h == [index |-> k, first |-> reader.nextOrdinal, lines |-> Taken(reader.pos)]
<1>1. /\ pc[w] = "pull" /\ ~reader.done /\ ~ReadError(reader.pos) /\ Taken(reader.pos) # {}
      /\ held' = [held EXCEPT ![w] = h] /\ pc' = [pc EXCEPT ![w] = "work"]
      /\ file' = file /\ chan' = chan /\ reorder' = reorder
  BY DEF PullChunk, fold
<1>2. Taken(reader.pos) = Ordered!ChunkLines(file, k) /\ reader.nextOrdinal = Start[k]
  BY <1>1, NextChunk
<1>3. Lifted(h)
  BY <1>2 DEF Lifted
<1> HIDE DEF h
<1>4. \A v \in Holding' : v = w \/ (v \in Holding /\ held'[v] = held[v])
  BY <1>1 DEF Holding, TypeOK
<1>5. held'[w] = h
  BY <1>1 DEF TypeOK
<1>6. \A v \in Holding' : Lifted(held'[v])
  BY <1>3, <1>4, <1>5 DEF Carried
<1>7. Indices' \ Placed' = Indices \ Placed
  BY PullPlaces
<1>8. QED
  BY <1>1, <1>6, <1>7, CarriedKept DEF Carried

LEMMA SendCarried ==
  ASSUME TypeOK, OnePlace, Carried, NEW w \in Workers, EvaluateAndSend(w)
  PROVE  Carried' /\ Malformed(held[w].index) = {}
<1> DEFINE r == ChunkResult(held[w])
           k == held[w].index
<1>1. /\ pc[w] = "work" /\ BadIn(held[w]) = {} /\ chan' = Append(chan, r)
      /\ held' = [held EXCEPT ![w] = NoChunk] /\ pc' = [pc EXCEPT ![w] = "pull"]
      /\ file' = file /\ reorder' = reorder
  BY DEF EvaluateAndSend, fold
<1>2. w \in Holding
  BY <1>1 DEF Holding
<1>3. held[w].lines = Ordered!ChunkLines(file, k) /\ held[w].first = Start[k]
  BY <1>2 DEF Carried, Lifted
<1>4. k \in Nat
  BY <1>2, Handed
<1>5. Ordered!FirstOrdinal(k) = Start[k]
  BY <1>4 DEF Ordered!FirstOrdinal, Start
<1>6. Malformed(k) = {} /\ Ordered!WellFormed(file, k)
  BY <1>1, <1>3 DEF Malformed, BadIn, Ordered!WellFormed
<1>7. Partial(held[w]) = Ordered!ChunkOrdinals(file, k)
  BY <1>3, <1>5, SameCardinality DEF Partial, Ordered!ChunkOrdinals
<1>8. Cardinality({i \in held[w].lines : file[i] = "pass"}) = Ordered!ChunkPasses(file, k)
  BY <1>3, SameCardinality DEF Ordered!ChunkPasses
<1>9. Evaluated(r)
  BY <1>6, <1>7, <1>8 DEF Evaluated, ChunkResult
<1>10. r \in Result /\ chan \in Seq(Result)
  BY ChunkResultType DEF TypeOK
<1> HIDE DEF r
<1>11. \A i \in DOMAIN chan' : chan'[i] = r \/ \E j \in DOMAIN chan : chan'[i] = chan[j]
  BY <1>1, <1>10, AppendProperties
<1>12. \A i \in DOMAIN chan' : Evaluated(chan'[i])
  BY <1>9, <1>11 DEF Carried
<1>13. \A v \in Holding' : v \in Holding /\ held'[v] = held[v]
  BY <1>1 DEF Holding, TypeOK
<1>14. Indices' \ Placed' = Indices \ Placed
  BY SendPlaces
<1>15. QED
  BY <1>1, <1>6, <1>12, <1>13, <1>14, CarriedKept DEF Carried

LEMMA RejectCarried ==
  ASSUME TypeOK, OnePlace, Carried, NEW w \in Workers, RejectChunk(w)
  PROVE  Carried' /\ BadIn(held[w]) = Malformed(held[w].index) /\ held[w].index \in Indices
         /\ InFlight' = InFlight \ {held[w].index}
<1> DEFINE k == held[w].index
<1>1. /\ pc[w] = "work" /\ BadIn(held[w]) # {} /\ chan' = chan /\ reorder' = reorder /\ next' = next
      /\ held' = [held EXCEPT ![w] = NoChunk] /\ pc' = [pc EXCEPT ![w] = "pull"] /\ file' = file
  BY DEF RejectChunk, fold
<1>2. w \in Holding
  BY <1>1 DEF Holding
<1>3. held[w].lines = Ordered!ChunkLines(file, k)
  BY <1>2 DEF Carried, Lifted
<1>4. BadIn(held[w]) = Malformed(k)
  BY <1>3 DEF Malformed, BadIn
<1>5. ~Ordered!WellFormed(file, k)
  BY <1>1, <1>4 DEF Malformed, Ordered!WellFormed
<1>6. \A v \in Holding' : v \in Holding /\ held'[v] = held[v]
  BY <1>1 DEF Holding, TypeOK
<1>7. InFlight' = InFlight \ {k} /\ k \in InFlight
  BY <1>1, ReleasePlaces
<1>8. Indices' = Indices /\ Sent' = Sent /\ Parked' = Parked /\ Merged' = Merged
  BY <1>1, RejectPlaces DEF Sent, Parked, Merged
<1>9. k \in Indices
  BY <1>7 DEF OnePlace
<1> HIDE DEF k
<1>10. \A j \in Indices' \ Placed' : j = k \/ j \in Indices \ Placed
  BY <1>7, <1>8 DEF Placed
<1>11. Carried'
  BY <1>1, <1>5, <1>6, <1>10, CarriedKept DEF Carried
<1>12. QED
  BY <1>4, <1>7, <1>9, <1>11 DEF k

LEMMA MoveCarried ==
  ASSUME TypeOK, OnePlace, Carried, Receive \/ MergeNext PROVE Carried'
<1>1. /\ file' = file /\ held' = held /\ Holding' = Holding
      /\ Indices' \ Placed' = Indices \ Placed
  BY ReceivePlaces, MergePlaces DEF Receive, MergeNext, Holding
<1>2. CASE Receive
  <2>1. chan \in Seq(Result) /\ chan # <<>> /\ chan' = Tail(chan) /\ reorder' = reorder \cup {Head(chan)}
    BY <1>2 DEF Receive, TypeOK
  <2>2. /\ 1 \in DOMAIN chan /\ Head(chan) = chan[1]
        /\ \A i \in DOMAIN chan' : i + 1 \in DOMAIN chan /\ chan'[i] = chan[i + 1]
    BY <2>1, HeadTailProperties, LenProperties
  <2>3. (\A i \in DOMAIN chan' : Evaluated(chan'[i])) /\ \A r \in reorder' : Evaluated(r)
    BY <2>1, <2>2 DEF Carried
  <2>4. QED  BY <1>1, <2>3, CarriedKept DEF Carried
<1>3. CASE MergeNext
  <2>1. chan' = chan /\ reorder' \subseteq reorder
    BY <1>3 DEF MergeNext
  <2>2. QED  BY <1>1, <2>1, CarriedKept DEF Carried
<1>4. QED  BY <1>2, <1>3

\* A step that moves no chunk.
LEMMA SameCarried ==
  ASSUME OnePlace, Carried, file' = file, held' = held, Holding' = Holding, chan' = chan,
         reorder' = reorder, next' = next, reader'.nextIndex = reader.nextIndex
  PROVE  Carried' /\ InFlight' = InFlight /\ Indices' = Indices
<1>1. Indices' = Indices /\ Placed' = Placed
  BY PlacesUnchanged
<1>2. InFlight' = InFlight
  BY DEF InFlight
<1>3. QED  BY <1>1, <1>2, CarriedKept DEF Carried

-----------------------------------------------------------------------------
(* The earliest malformed line, step by step. *)

\* The error on record stands: nothing malformed left a worker's hands.
LEMMA EarliestKept ==
  ASSUME Earliest, file' = file, firstErr' = firstErr, Indices \subseteq Indices',
         \A k \in Indices' \ InFlight' : k \in Indices \ InFlight \/ Malformed(k) = {},
         reader'.done => reader.done \/ ~Ordered!ReadFails(file)
  PROVE  Earliest'
BY DEF Earliest, Malformed, IoKey

LEMMA RejectEarliest ==
  ASSUME TypeOK, OnePlace, Carried, Earliest, NEW w \in Workers, RejectChunk(w)
  PROVE  Earliest'
<1> DEFINE B == BadIn(held[w])
           n == CHOOSE i \in B : \A j \in B : i <= j
           k == held[w].index
<1>1. B # {} /\ RecordErr(n, BadLine(n)) /\ file' = file /\ reader' = reader
  BY DEF RejectChunk
<1>2. B = Malformed(k) /\ k \in Indices /\ InFlight' = InFlight \ {k} /\ Indices' = Indices
  BY RejectCarried, RejectPlaces
<1>3. \A i \in B : i \in Nat
  <2>1. held[w].lines \subseteq Lines
    BY DEF TypeOK, RawChunk
  <2>2. QED  BY <2>1, FileType DEF BadIn, Lines
<1>4. n \in B /\ \A j \in B : n <= j
  BY <1>1, <1>3, LeastNatural
<1>5. \A j \in Indices : \A i \in Malformed(j) : i \in Nat
  <2>1. file \in Seq(LineKind)
    BY FileType
  <2>2. QED  BY <2>1, EventsAre DEF Malformed, Ordered!ChunkLines, Events
<1>6. firstErr.key \in Nat
  BY DEF TypeOK, ErrorSlot
<1>7. \A j \in Indices' \ InFlight' : j = k \/ j \in Indices \ InFlight
  BY <1>2
<1> HIDE DEF n, k, B
<1>8. \A j : Malformed(j)' = Malformed(j)
  BY <1>1 DEF Malformed
<1>9. CASE firstErr # NoErr /\ firstErr.key <= n
  <2>1. firstErr' = firstErr
    BY <1>1, <1>9 DEF RecordErr
  <2>2. \A j \in Indices' \ InFlight' : \A i \in Malformed(j) : firstErr # NoErr /\ firstErr.key <= i
    BY <1>2, <1>3, <1>4, <1>6, <1>7, <1>9 DEF Earliest
  <2>3. QED  BY <1>1, <1>2, <1>8, <2>1, <2>2 DEF Earliest, IoKey
<1>10. CASE ~(firstErr # NoErr /\ firstErr.key <= n)
  <2>1. firstErr' = [key |-> n, err |-> BadLine(n)]
    BY <1>1, <1>10 DEF RecordErr
  <2>2. firstErr' # NoErr /\ firstErr'.key = n
    BY <2>1 DEF NoErr, BadLine, Done
  <2>3. \A j \in Indices' \ InFlight' : \A i \in Malformed(j) : n <= i
    <3> SUFFICES ASSUME NEW j \in Indices' \ InFlight', NEW i \in Malformed(j) PROVE n <= i
      OBVIOUS
    <3>1. CASE j = k
      BY <1>2, <1>4, <3>1
    <3>2. CASE j \in Indices \ InFlight
      <4>1. firstErr # NoErr /\ firstErr.key <= i
        BY <3>2 DEF Earliest
      <4>2. n \in Nat /\ i \in Nat
        BY <1>3, <1>4, <1>5, <3>2
      <4>3. QED  BY <1>6, <1>10, <4>1, <4>2
    <3>3. QED  BY <1>7, <3>1, <3>2
  <2>4. \E j \in Indices' : \E i \in Malformed(j) : firstErr' = [key |-> i, err |-> BadLine(i)]
    BY <1>2, <1>4, <2>1
  <2>5. QED  BY <1>8, <2>2, <2>3, <2>4, <1>1 DEF Earliest
<1>11. QED  BY <1>9, <1>10

LEMMA ReadErrorEarliest ==
  ASSUME TypeOK, OnePlace, ErrorShape, Cut, Carried, Earliest, NEW w \in Workers, PullReadError(w)
  PROVE  Carried' /\ Earliest'
<1>1. /\ file' = file /\ held' = held /\ Holding' = Holding /\ chan' = chan
      /\ reorder' = reorder /\ next' = next /\ reader'.nextIndex = reader.nextIndex
  BY DEF PullReadError, fold, Holding, TypeOK
<1>2. Carried' /\ InFlight' = InFlight /\ Indices' = Indices
  BY <1>1, SameCarried
<1>3. Ordered!ReadFails(file)
  BY ErrorCut
<1>4. RecordErr(IoKey, IoError)
  BY DEF PullReadError
<1>5. CASE firstErr # NoErr
  <2>1. firstErr' = firstErr
    BY <1>5, ReadErrorRecord
  <2>2. QED  BY <1>1, <1>2, <1>5, <2>1 DEF Earliest, Malformed, IoKey
<1>6. CASE firstErr = NoErr
  <2>1. firstErr' = [key |-> IoKey, err |-> IoError]
    BY <1>4, <1>6 DEF RecordErr
  <2>2. firstErr' # NoErr
    BY <2>1 DEF NoErr, IoError, Done
  <2>3. \A k \in Indices \ InFlight : Malformed(k) = {}
    BY <1>6 DEF Earliest
  <2>4. IoKey' = IoKey /\ \A k : Malformed(k)' = Malformed(k)
    BY <1>1 DEF Malformed, IoKey
  <2>5. QED  BY <1>1, <1>2, <1>3, <2>1, <2>2, <2>3, <2>4 DEF Earliest
<1>7. QED  BY <1>2, <1>5, <1>6

-----------------------------------------------------------------------------
(* All steps *)

LEMMA TracksInit == Init => Tracks
<1> SUFFICES ASSUME Init PROVE Tracks
  OBVIOUS
<1>1. /\ Holding = {} /\ Indices = {} /\ chan = <<>> /\ reorder = {} /\ acc = <<>> /\ next = 0
      /\ firstErr = NoErr /\ reader.done = FALSE
      /\ reader.pos = 0 /\ reader.nextIndex = 0 /\ reader.nextOrdinal = 0
  BY DEF Init, Holding, Indices
<1>2. file \in Seq(LineKind) /\ Len(file) \in Nat /\ ChunkEvents \in Nat \ {0}
  BY FilesAssumption, LenProperties, ChunkEventsAssumption DEF Init
<1>3. Ord(file, 0 + 1) = 0 /\ Start[0] = 0
  BY <1>2, OrdinalGrows, StartIs
<1>4. Cut
  BY <1>1, <1>2, <1>3 DEF Cut, Reads
<1>5. Carried /\ Earliest
  BY <1>1 DEF Carried, Earliest
<1>6. QED  BY <1>1, <1>4, <1>5 DEF Tracks

LEMMA TracksStep ==
  TypeOK /\ Unique /\ Tracks /\ [Next]_vars => Tracks'
<1> SUFFICES ASSUME TypeOK, Unique, Tracks, [Next]_vars PROVE Tracks'
  OBVIOUS
<1>a. OnePlace /\ ErrorShape /\ Cut /\ Carried /\ Earliest /\ Len(acc) = next
  BY DEF Unique, Tracks
<1>1. ASSUME NEW w \in Workers, PullChunk(w) PROVE Tracks'
  <2>1. /\ file' = file /\ firstErr' = firstErr /\ acc' = acc /\ next' = next
        /\ reader'.done = reader.done
    BY <1>1 DEF PullChunk, fold, TypeOK
  <2>2. Cut' /\ Carried'
    BY <1>a, <1>1, PullCut, PullCarried
  <2>3. Indices' = Indices \cup {reader.nextIndex}
    BY <1>a, <1>1, PullPlaces
  <2>4. InFlight \cup {reader.nextIndex} \subseteq InFlight'
    <3>1. w \in Holding' /\ held'[w].index = reader.nextIndex
      BY <1>1 DEF PullChunk, Holding, TypeOK
    <3>2. \A v \in Holding : v \in Holding' /\ held'[v] = held[v]
      BY <1>1 DEF PullChunk, Holding, TypeOK
    <3>3. QED  BY <3>1, <3>2 DEF InFlight
  <2>5. Earliest'
    BY <1>a, <2>1, <2>3, <2>4, EarliestKept
  <2>6. QED  BY <1>a, <2>1, <2>2, <2>5 DEF Tracks
<1>2. ASSUME NEW w \in Workers, PullReadError(w) PROVE Tracks'
  <2>1. acc' = acc /\ next' = next
    BY <1>2 DEF PullReadError, fold
  <2>2. QED  BY <1>a, <1>2, <2>1, ErrorCut, ReadErrorEarliest DEF Tracks
<1>3. ASSUME NEW w \in Workers, PullEnd(w) PROVE Tracks'
  <2>1. /\ file' = file /\ held' = held /\ Holding' = Holding /\ chan' = chan /\ acc' = acc
        /\ reorder' = reorder /\ next' = next /\ reader'.nextIndex = reader.nextIndex
        /\ firstErr' = firstErr
    BY <1>3 DEF PullEnd, fold, Holding, TypeOK
  <2>2. Carried' /\ InFlight' = InFlight /\ Indices' = Indices
    BY <1>a, <2>1, SameCarried
  <2>3. Cut' /\ (~reader.done => ~Ordered!ReadFails(file))
    BY <1>a, <1>3, EndCut
  <2>4. Earliest'
    BY <1>a, <2>1, <2>2, <2>3, EarliestKept
  <2>5. QED  BY <1>a, <2>1, <2>2, <2>3, <2>4 DEF Tracks
<1>b. ASSUME file' = file, reader' = reader PROVE Cut'
  BY <1>a, <1>b DEF Cut
<1>4. ASSUME NEW w \in Workers, EvaluateAndSend(w) PROVE Tracks'
  <2>1. /\ file' = file /\ reader' = reader /\ firstErr' = firstErr /\ acc' = acc /\ next' = next
        /\ Indices' = Indices
    BY <1>4 DEF EvaluateAndSend, fold, Indices
  <2>2. Carried' /\ Malformed(held[w].index) = {}
    BY <1>a, <1>4, SendCarried
  <2>3. InFlight' = InFlight \ {held[w].index}
    BY <1>a, <1>4, ReleasePlaces DEF EvaluateAndSend
  <2>4. Earliest'
    BY <1>a, <2>1, <2>2, <2>3, EarliestKept
  <2>5. QED  BY <1>a, <1>b, <2>1, <2>2, <2>4 DEF Tracks
<1>5. ASSUME NEW w \in Workers, RejectChunk(w) PROVE Tracks'
  <2>1. file' = file /\ reader' = reader /\ acc' = acc /\ next' = next
    BY <1>5 DEF RejectChunk, fold
  <2>2. QED  BY <1>a, <1>b, <1>5, <2>1, RejectCarried, RejectEarliest DEF Tracks
<1>6. CASE Receive \/ MergeNext
  <2>1. /\ file' = file /\ reader' = reader /\ firstErr' = firstErr
        /\ Indices' = Indices /\ InFlight' = InFlight
    BY <1>6 DEF Receive, MergeNext, Indices, InFlight, Holding
  <2>2. Carried' /\ Earliest'
    BY <1>a, <1>6, <2>1, MoveCarried, EarliestKept
  <2>3. Len(acc') = next'
    <3>1. CASE Receive
      BY <1>a, <3>1 DEF Receive
    <3>2. CASE MergeNext
      BY <1>a, <3>2, AppendProperties DEF MergeNext, TypeOK, Result
    <3>3. QED  BY <1>6, <3>1, <3>2
  <2>4. QED  BY <1>b, <2>1, <2>2, <2>3 DEF Tracks
<1>7. CASE Return \/ UNCHANGED vars
  <2>1. /\ file' = file /\ held' = held /\ Holding' = Holding /\ chan' = chan /\ acc' = acc
        /\ reorder' = reorder /\ next' = next /\ reader' = reader /\ firstErr' = firstErr
    BY <1>7 DEF Return, vars, Holding
  <2>2. Carried' /\ InFlight' = InFlight /\ Indices' = Indices
    BY <1>a, <2>1, SameCarried
  <2>3. Earliest'
    BY <1>a, <2>1, <2>2, EarliestKept
  <2>4. QED  BY <1>a, <1>b, <2>1, <2>2, <2>3 DEF Tracks
<1>8. QED
  BY <1>1, <1>2, <1>3, <1>4, <1>5, <1>6, <1>7 DEF Next, Worker, Main, Terminated

-----------------------------------------------------------------------------
(* The refinement. *)

\* A merge folds the next chunk of the file.
LEMMA MergeFolds ==
  ASSUME TypeOK, OnePlace, Tracks, MergeNext PROVE Ordered!FoldChunk
<1>1. PICK r \in reorder :
         /\ r.index = next /\ acc' = Append(acc, r.part) /\ out' = out \o r.part
         /\ passed' = passed + r.pass
  BY DEF MergeNext
<1>2. outcome = Running /\ file' = file /\ outcome' = outcome
  BY DEF MergeNext
<1>3. Evaluated(r) /\ Len(acc) = next
  BY DEF Tracks, Carried
<1>4. next < Ordered!ChunkCount(file)
  BY <1>1, Handed, HandedOut DEF Tracks
<1>5. QED
  BY <1>1, <1>2, <1>3, <1>4 DEF Ordered!FoldChunk, Evaluated, Running, Ordered!Running

\* What the loop returns is the outcome of the file.
LEMMA ReturnFinishes ==
  ASSUME TypeOK, Unique, Ended, Tracks, Return PROVE Ordered!Finish
<1> DEFINE c == Ordered!ChunkCount(file)
           B == Ordered!BadLines(file)
<1>1. /\ outcome = Running /\ next \notin Parked /\ chan = <<>> /\ \A w \in Workers : pc[w] = "exited"
      /\ outcome' = firstErr.err /\ UNCHANGED <<file, acc, out, passed>>
  BY DEF Return
<1>2. OnePlace /\ Cut /\ Carried /\ Earliest /\ Len(acc) = next
  BY DEF Unique, Tracks
<1>3. reader.done /\ reader.nextIndex = c
  BY <1>1, <1>2, WorkersAssumption DEF Ended, Cut
<1>4. InFlight = {} /\ Sent = {}
  BY <1>1 DEF InFlight, Holding, Sent
<1>5. next \in Nat /\ c \in Nat /\ next <= c /\ Indices = 0..c - 1
  BY <1>2, <1>3, Handed DEF Indices
<1>6. next = c \/ ~Ordered!WellFormed(file, next)
  <2> SUFFICES ASSUME next # c PROVE ~Ordered!WellFormed(file, next)
    OBVIOUS
  <2>1. next \in Indices \ Placed
    BY <1>1, <1>4, <1>5 DEF Placed, Merged
  <2>2. QED  BY <1>2, <2>1 DEF Carried
<1>7. file \in Seq(LineKind) /\ Len(file) \in Nat /\ (\A i \in Events(file) : i \in Nat /\ i <= Len(file))
  BY FileType, EventsAre
<1>8. \A i : i \in B <=> \E k \in Indices : i \in Malformed(k)
  <2>1. \A i \in Events(file) : Ord(file, i) \in Nat
    BY <1>7, OrdinalGrows
  <2>2. \A i \in Events(file) : Ord(file, i) \div ChunkEvents \in Nat
    BY <2>1, ChunkEventsAssumption
  <2>3. \A i : i \in B <=> /\ i \in Events(file) /\ file[i] = "bad"
                           /\ Ord(file, i) \div ChunkEvents < c
    BY DEF Ordered!BadLines, Events, Ord
  <2>4. \A i, k : i \in Malformed(k) <=> /\ i \in Events(file) /\ file[i] = "bad"
                                     /\ Ord(file, i) \div ChunkEvents = k
    BY DEF Malformed, Ordered!ChunkLines, Events, Ord
  <2> HIDE DEF c, B
  <2>5. \A n \in Nat : n < c <=> n \in Indices
    BY <1>5
  <2>6. QED  BY <2>2, <2>3, <2>4, <2>5
<1>9. \A i \in B : i \in Nat /\ i <= Len(file)
  BY <1>7 DEF Ordered!BadLines, Events
<1>10. \A i \in B : firstErr # NoErr /\ firstErr.key <= i
  BY <1>2, <1>4, <1>8 DEF Earliest
<1>11. \/ firstErr = NoErr
       \/ \E i \in B : firstErr = [key |-> i, err |-> BadLine(i)]
       \/ Ordered!ReadFails(file) /\ firstErr = [key |-> IoKey, err |-> IoError]
  BY <1>2, <1>8 DEF Earliest
<1>12. firstErr.err = Ordered!Outcome(file)
  <2>1. CASE B # {}
    <3>1. PICK i \in B : firstErr = [key |-> i, err |-> BadLine(i)]
      BY <1>7, <1>9, <1>10, <1>11, <2>1 DEF IoKey
    <3>2. \A j \in B : i <= j
      BY <1>10, <3>1
    <3>3. i = CHOOSE x \in B : \A j \in B : x <= j
      <4>1. \A x \in B : (\A j \in B : x <= j) => x = i
        BY <1>9, <3>2
      <4> HIDE DEF B
      <4>2. QED  BY <3>2, <4>1
    <3>4. QED  BY <2>1, <3>1, <3>3 DEF Ordered!Outcome, BadLine, Ordered!BadLine
  <2>2. CASE B = {}
    <3>1. CASE Ordered!ReadFails(file)
      <4>1. firstErr.err = IoError
        BY <1>2, <1>3, <1>11, <2>2, <3>1 DEF Earliest
      <4>2. QED  BY <2>2, <3>1, <4>1 DEF Ordered!Outcome, IoError, Ordered!IoError
    <3>2. CASE ~Ordered!ReadFails(file)
      <4>1. firstErr.err = Done
        BY <1>11, <2>2, <3>2 DEF NoErr
      <4>2. QED  BY <2>2, <3>2, <4>1 DEF Ordered!Outcome, Done, Ordered!Done
    <3>3. QED  BY <3>1, <3>2
  <2>3. QED  BY <2>1, <2>2
<1>13. QED
  BY <1>1, <1>2, <1>6, <1>12 DEF Ordered!Finish, Running, Ordered!Running

LEMMA StepOrdered ==
  TypeOK /\ Unique /\ Ended /\ Tracks /\ [Next]_vars => [Ordered!Next]_(Ordered!orderedVars)
<1> SUFFICES ASSUME TypeOK, Unique, Ended, Tracks, [Next]_vars
             PROVE  Ordered!Next \/ UNCHANGED Ordered!orderedVars
  OBVIOUS
<1>1. CASE MergeNext
  BY <1>1, MergeFolds DEF Unique, Ordered!Next
<1>2. CASE Return
  BY <1>2, ReturnFinishes DEF Ordered!Next
<1>3. ASSUME NEW w \in Workers, Worker(w) PROVE UNCHANGED Ordered!orderedVars
  BY <1>3 DEF Worker, PullChunk, PullReadError, PullEnd, EvaluateAndSend, RejectChunk, fold,
              Ordered!orderedVars
<1>4. CASE Receive \/ UNCHANGED vars
  BY <1>4 DEF Receive, vars, Ordered!orderedVars
<1>5. QED
  BY <1>1, <1>2, <1>3, <1>4 DEF Next, Main, Terminated

\* What is gone is accounted for by its own error or an earlier one.
LEMMA GoneAccounted == TypeOK /\ Unique /\ Tracks => NothingVanishes
<1> SUFFICES ASSUME TypeOK, Unique, Tracks, NEW k \in Indices \ Placed
             PROVE  /\ Malformed(k) # {}
                    /\ firstErr # NoErr /\ firstErr.err = BadLine(firstErr.key)
                    /\ \A i \in Malformed(k) : firstErr.key <= i
  BY DEF NothingVanishes, Placed
<1>1. Malformed(k) # {}
  BY DEF Tracks, Carried, Ordered!WellFormed, Malformed
<1>2. firstErr # NoErr /\ \A i \in Malformed(k) : firstErr.key <= i
  BY <1>1 DEF Tracks, Earliest, Placed
<1>3. firstErr.err.kind = "bad"
  BY DEF Unique, GoneReported
<1>4. firstErr.err = BadLine(firstErr.key)
  <2>1. \E j \in Indices : \E i \in Malformed(j) : firstErr = [key |-> i, err |-> BadLine(i)]
    BY <1>2, <1>3 DEF Tracks, Earliest, IoError
  <2>2. QED  BY <2>1
<1>5. QED  BY <1>1, <1>2, <1>4

\* No chunk is lost unless a line of its own is malformed, and then the error on
\* record is that of its first malformed line or of an earlier one, for any
\* workers, chunk size and input (process_chunk, record_err).
THEOREM ChunksAreNotLost == Spec => []NothingVanishes
<1>1. Init => TypeOK /\ Unique /\ Ended /\ Tracks
  BY TypeInit, UniqueInit, EndedInit, TracksInit
<1>2. TypeOK /\ Unique /\ Ended /\ Tracks /\ [Next]_vars => TypeOK' /\ Unique' /\ Ended' /\ Tracks'
  BY TypeStep, UniqueStep, EndedStep, TracksStep
<1>3. TypeOK /\ Unique /\ Tracks => NothingVanishes
  BY GoneAccounted
<1>4. QED
  BY <1>1, <1>2, <1>3, PTL DEF Spec

\* The threads implement the single-threaded contract: whatever the number of
\* workers and their interleaving, each accumulator, the printed lines, the
\* pass count and the outcome are those of a run that folds the chunks of the
\* file one by one in order (run_streaming, RawChunkReader::next, record_err).
THEOREM RunsInOrder == Spec => ImplementsOrdered
<1>1. Init => TypeOK /\ Unique /\ Ended /\ Tracks /\ Ordered!Init
  BY TypeInit, UniqueInit, EndedInit, TracksInit
     DEF Init, Ordered!Init, Running, Ordered!Running
<1>2. TypeOK /\ Unique /\ Ended /\ Tracks /\ [Next]_vars
        => TypeOK' /\ Unique' /\ Ended' /\ Tracks' /\ [Ordered!Next]_(Ordered!orderedVars)
  BY TypeStep, UniqueStep, EndedStep, TracksStep, StepOrdered
<1>3. QED
  BY <1>1, <1>2, PTL DEF Spec, ImplementsOrdered, Ordered!Spec
=============================================================================
