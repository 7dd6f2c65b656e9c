-------------------------- MODULE SubprocessProofs --------------------------
(***************************************************************************)
(* The SMT-LIB backend against the promise of the Solver trait, for any      *)
(* formulas, frames and number of round trips, and any child: it keeps it    *)
(* but for two named lapses, and without exception with a child that reports *)
(* on stdout what it drops and has values only after sat.                    *)
(*                                                                         *)
(* The argument: at any moment the commands and lines under way belong to    *)
(* the round trip in progress, which is unread, being answered, answered     *)
(* or cut off.  What has been said of a query says what the process holds,    *)
(* and that fits the assertions as long as a verdict on them stands.         *)
(***************************************************************************)
EXTENDS SubprocessSolver, SequenceTheorems, TLAPS

Elements(s) == {s[i] : i \in DOMAIN s}

Names == 0..MaxNames
Kept == {"error", "unsupported", "sat", "unsat", "unknown", "timeout", "silent", "none", "value"}
Plain == [kind : Kept, got : SUBSET (Points \cup Names), sync : {0}]

\* What the process holds fits the assertions it was able to take.
Fits ==
  /\ held.answer = "sat" =>
       held.points \subseteq Satisfying(Taken(Asserted)) /\ Satisfying(Taken(Asserted)) # {}
  /\ held.answer = "unsat" =>
       /\ held.core \subseteq {a.name : a \in Taken(Asserted)}
       /\ Satisfying({a \in Taken(Asserted) : a.name \in held.core \cup {0}}) = {}

\* What has been said in this round trip, the sentinel aside.
Spoke(s) == {l \in Elements(s) : l.kind # "sync"}
Heard == reply \cup Spoke(lines)

\* What the answer to a query says.
QuerySaid ==
  /\ \A l \in Heard : l.kind \in {"error", "unsupported", held.answer}
  /\ Skips(Asserted) => \E l \in Heard : l.kind = "unsupported"
  /\ Errors(Asserted) /\ ErrorStream = "stdout" => \E l \in Heard : l.kind = "error"
  /\ Fits

\* A value is right about what the process took, unless it is a candidate.
Allowed(op, got) ==
  IF op = "model" THEN \E p \in Satisfying(Taken(Asserted)) : got = {p}
  ELSE \E core \in SUBSET {a.name : a \in Asserted} : Session!Refutes(core) /\ got = core \ {0}
Stray(op, got) ==
  op = "model" /\ Candidates /\ held.answer = "unknown" /\ \E p \in Points : got = {p}
GetterSaid ==
  \A l \in Heard : l.kind = "value" => Allowed(call.op, l.got) \/ Stray(call.op, l.got)

Said == IF call.stage = "query" THEN QuerySaid ELSE GetterSaid

Command == IF call.stage = "query" THEN Query(Script) ELSE Getter(call.op, Script)

\* The stages of a round trip: unread, being answered, answered, cut off.
Unread == stdin = <<Command, Echo(syncSeq)>> /\ lines = <<>> /\ reply = {}
Speaking == stdin = <<Echo(syncSeq)>> /\ lines \in Seq(Plain) /\ Said
Spoken == /\ stdin = <<>>
          /\ \E body \in Seq(Plain) : lines = Append(body, Sentinel(syncSeq))
          /\ Said
CutOff == ~alive /\ stdin = <<>> /\ lines \in Seq(Plain)
Quiet == stdin = <<>> /\ lines = <<>> /\ reply = {}

Calls == [op : {"check", "model", "core"}, stage : {"query", "getter", "again"},
          written : BOOLEAN]

Typed ==
  /\ frames \in Seq(SUBSET Session!Assertion) /\ Len(frames) >= 1
  /\ nameSeq \in Names
  /\ syncSeq \in Nat
  /\ call = Idle \/ call \in Calls
  /\ alive \in BOOLEAN
  /\ held.answer \in Kept /\ held.points \subseteq Points /\ held.core \subseteq Names
  /\ reply \subseteq Plain

Applied ==
  /\ Busy /\ call.op = "check" => call.stage = "query"
  /\ call.op = "model" => last = "sat"
  /\ call.op = "core" => last = "unsat"

InTrip == /\ ~OnTrip => Quiet
          /\ OnTrip => Unread \/ Speaking \/ Spoken \/ CutOff

\* A verdict is right about what was taken; only an error on stderr hides that
\* an assertion was not.
Stands == /\ last \in {"sat", "unsat"} => Fits /\ ~Skips(Asserted)
          /\ last = "sat" => Satisfying(Taken(Asserted)) # {}
          /\ last = "unsat" => Satisfying(Taken(Asserted)) = {}
          /\ ErrorStream = "stdout" /\ last \in {"sat", "unsat"} => ~Errors(Asserted)

Inv == Typed /\ Applied /\ NoOrphan /\ InTrip /\ Stands
-----------------------------------------------------------------------------
(* Sequences of lines *)

LEMMA ElementsEmpty == Elements(<<>>) = {}
BY DEF Elements

LEMMA ElementsAppend ==
  ASSUME NEW S, NEW s \in Seq(S), NEW x \in S
  PROVE  Elements(Append(s, x)) = Elements(s) \cup {x}
BY AppendProperties DEF Elements

LEMMA ElementsConcat ==
  ASSUME NEW S, NEW s \in Seq(S), NEW t \in Seq(S)
  PROVE  Elements(s \o t) = Elements(s) \cup Elements(t)
<1> DEFINE u == s \o t
<1>1. u \in Seq(S) /\ Len(u) = Len(s) + Len(t) /\ Len(s) \in Nat /\ Len(t) \in Nat
  BY ConcatProperties, LenProperties
<1>2. \A i \in 1..Len(u) : u[i] = IF i <= Len(s) THEN s[i] ELSE t[i - Len(s)]
  BY ConcatProperties
<1>3. DOMAIN u = 1..Len(u) /\ DOMAIN s = 1..Len(s) /\ DOMAIN t = 1..Len(t)
  BY <1>1
<1> HIDE DEF u
<1>4. \A i \in DOMAIN t : Len(s) + i \in DOMAIN u /\ u[Len(s) + i] = t[i]
  BY <1>1, <1>2, <1>3
<1>5. \A i \in DOMAIN s : i \in DOMAIN u /\ u[i] = s[i]
  BY <1>1, <1>2, <1>3
<1>6. \A i \in DOMAIN u : u[i] \in Elements(s) \cup Elements(t)
  <2> SUFFICES ASSUME NEW i \in DOMAIN u PROVE u[i] \in Elements(s) \cup Elements(t)
    OBVIOUS
  <2>1. CASE i <= Len(s)
    BY <1>1, <1>2, <1>3, <2>1 DEF Elements
  <2>2. CASE ~(i <= Len(s))
    <3>1. i - Len(s) \in DOMAIN t /\ u[i] = t[i - Len(s)]
      BY <1>1, <1>2, <1>3, <2>2
    <3>2. QED  BY <3>1 DEF Elements
  <2>3. QED  BY <2>1, <2>2
<1>7. Elements(u) = Elements(s) \cup Elements(t)
  <2>1. Elements(u) \subseteq Elements(s) \cup Elements(t)
    <3>1. SUFFICES ASSUME NEW x \in Elements(u) PROVE x \in Elements(s) \cup Elements(t)
      OBVIOUS
    <3>2. PICK i \in DOMAIN u : x = u[i]
      BY <3>1 DEF Elements
    <3>3. QED  BY <1>6, <3>2
  <2>2. Elements(s) \subseteq Elements(u)
    <3>1. SUFFICES ASSUME NEW i \in DOMAIN s PROVE s[i] \in Elements(u)
      BY DEF Elements
    <3>2. QED  BY <1>5 DEF Elements
  <2>3. Elements(t) \subseteq Elements(u)
    <3>1. SUFFICES ASSUME NEW i \in DOMAIN t PROVE t[i] \in Elements(u)
      BY DEF Elements
    <3>2. QED  BY <1>4 DEF Elements
  <2>4. QED  BY <2>1, <2>2, <2>3
<1>8. QED  BY <1>7 DEF u

LEMMA ElementsHead ==
  ASSUME NEW S, NEW s \in Seq(S), s # <<>>
  PROVE  /\ Tail(s) \in Seq(S) /\ Head(s) \in S
         /\ Elements(s) = {Head(s)} \cup Elements(Tail(s))
<1> DEFINE u == Tail(s)
<1>1. /\ u \in Seq(S) /\ Head(s) \in S /\ Head(s) = s[1]
      /\ Len(s) \in Nat \ {0} /\ Len(u) = Len(s) - 1
  BY HeadTailProperties, LenProperties
<1>2. \A i \in 1..Len(u) : u[i] = s[i + 1]
  BY HeadTailProperties
<1>3. DOMAIN u = 1..Len(u) /\ DOMAIN s = 1..Len(s)
  BY <1>1
<1> HIDE DEF u
<1>4. \A i \in DOMAIN u : i + 1 \in DOMAIN s /\ u[i] = s[i + 1]
  BY <1>1, <1>2, <1>3
<1>5. \A i \in DOMAIN s : i = 1 \/ (i - 1 \in DOMAIN u /\ u[i - 1] = s[i])
  BY <1>1, <1>2, <1>3
<1>6. 1 \in DOMAIN s
  BY <1>1, <1>3
<1>7. Elements(s) = {Head(s)} \cup Elements(u)
  <2>1. ASSUME NEW i \in DOMAIN s PROVE s[i] \in {Head(s)} \cup Elements(u)
    <3>1. CASE i = 1
      BY <1>1, <3>1
    <3>2. CASE i # 1
      <4>1. i - 1 \in DOMAIN u /\ u[i - 1] = s[i]
        BY <1>5, <3>2
      <4>2. QED  BY <4>1 DEF Elements
    <3>3. QED  BY <3>1, <3>2
  <2>2. Elements(s) \subseteq {Head(s)} \cup Elements(u)
    BY <2>1 DEF Elements
  <2>3. Head(s) \in Elements(s)
    BY <1>1, <1>6 DEF Elements
  <2>4. Elements(u) \subseteq Elements(s)
    <3>1. SUFFICES ASSUME NEW i \in DOMAIN u PROVE u[i] \in Elements(s)
      BY DEF Elements
    <3>2. QED  BY <1>4 DEF Elements
  <2>5. QED  BY <2>2, <2>3, <2>4
<1>8. QED  BY <1>1, <1>7 DEF u

LEMMA ElementsIn ==
  ASSUME NEW S, NEW s \in Seq(S)
  PROVE  Elements(s) \subseteq S
BY DEF Elements

LEMMA PlainSays ==
  /\ \A l \in Plain : l.kind \in Kept /\ l.kind # "sync" /\ l.got \in SUBSET (Points \cup Names)
  /\ \A k \in Kept, got \in SUBSET (Points \cup Names) : Line(k, got, 0) \in Plain
  /\ \A k \in Kept : Say(k) \in Plain
BY DEF Plain, Kept, Line, Say

LEMMA SentinelSays == \A n : Sentinel(n).kind = "sync" /\ Sentinel(n) \notin Plain
<1>1. \A n : Sentinel(n).kind = "sync"
  BY DEF Sentinel, Line
<1>2. QED  BY <1>1, PlainSays

LEMMA SpokePlain == ASSUME NEW s \in Seq(Plain) PROVE Spoke(s) = Elements(s)
BY ElementsIn, PlainSays DEF Spoke

LEMMA SpokeAppend ==
  ASSUME NEW s \in Seq(Plain), NEW n
  PROVE  Spoke(Append(s, Sentinel(n))) = Elements(s)
<1> DEFINE S == Plain \cup {Sentinel(n)}
<1>1. s \in Seq(S) /\ Sentinel(n) \in S
  OBVIOUS
<1>2. Elements(Append(s, Sentinel(n))) = Elements(s) \cup {Sentinel(n)}
  BY <1>1, ElementsAppend
<1>3. QED
  BY <1>2, ElementsIn, PlainSays, SentinelSays DEF Spoke

LEMMA NotPlain ==
  ASSUME NEW s \in Seq(Plain), NEW n PROVE Append(s, Sentinel(n)) \notin Seq(Plain)
<1> DEFINE S == Plain \cup {Sentinel(n)}
<1>1. s \in Seq(S) /\ Sentinel(n) \in S
  OBVIOUS
<1>2. Sentinel(n) \in Elements(Append(s, Sentinel(n)))
  BY <1>1, ElementsAppend
<1>3. QED
  BY <1>2, ElementsIn, SentinelSays

-----------------------------------------------------------------------------
(* What frames and held leave alone *)

LEMMA SameAssertions == frames' = frames => Asserted' = Asserted
BY DEF Asserted, Session!Asserted

\* A process that said of nothing that it dropped it took everything.
LEMMA TookAll == ~Errors(Asserted) /\ ~Skips(Asserted) => Taken(Asserted) = Asserted
BY DEF Taken, Errors, Skips

LEMMA SameFits == frames' = frames /\ held' = held => (Fits' <=> Fits)
<1> SUFFICES ASSUME frames' = frames, held' = held PROVE Fits' <=> Fits
  OBVIOUS
<1>1. Asserted' = Asserted
  BY SameAssertions
<1>2. QED
  BY <1>1 DEF Fits

LEMMA SameStands ==
  ASSUME Stands, frames' = frames, last' = last, Fits => Fits'
  PROVE  Stands'
<1>1. Asserted' = Asserted
  BY SameAssertions
<1>2. QED
  BY <1>1 DEF Stands

LEMMA NothingFits == held' = NothingHeld => Fits'
BY DEF NothingHeld, Fits

LEMMA SameSaid ==
  ASSUME Heard' = Heard, call'.op = call.op, call'.stage = call.stage,
         held' = held, frames' = frames
  PROVE  Said' <=> Said
<1>1. Asserted' = Asserted
  BY SameAssertions
<1>2. Fits' <=> Fits
  BY SameFits
<1>3. QuerySaid' <=> QuerySaid
  BY <1>1, <1>2 DEF QuerySaid
<1>4. GetterSaid' <=> GetterSaid
  BY <1>1 DEF GetterSaid, Allowed, Stray, Session!Refutes, Session!Asserted, Asserted
<1>5. QED
  BY <1>3, <1>4 DEF Said

\* Once the answer is complete and the lines before the sentinel are read, all
\* of it is in the reply.
LEMMA AllRead ==
  ASSUME Inv, AtSentinel
  PROVE  /\ stdin = <<>> /\ Tail(lines) = <<>>
         /\ Heard = reply /\ Said
<1>1. Head(lines) = Sentinel(syncSeq) /\ lines # <<>> /\ OnTrip
  BY DEF AtSentinel, Waiting
<1>2. lines \notin Seq(Plain)
  <2>1. SUFFICES ASSUME lines \in Seq(Plain) PROVE FALSE
    OBVIOUS
  <2>2. Head(lines) \in Plain
    BY <2>1, <1>1, ElementsHead
  <2>3. QED  BY <1>1, <2>2, SentinelSays
<1>3. Spoken
  BY <1>1, <1>2 DEF Inv, InTrip, Unread, Speaking, CutOff
<1>4. PICK body \in Seq(Plain) : lines = Append(body, Sentinel(syncSeq))
  BY <1>3 DEF Spoken
<1>5. body = <<>>
  <2>1. SUFFICES ASSUME body # <<>> PROVE FALSE
    OBVIOUS
  <2>2. Head(lines) = Head(body)
    BY <1>4, <2>1, HeadTailAppend
  <2>3. Head(body) \in Plain
    BY <2>1, ElementsHead
  <2>4. QED  BY <1>1, <2>2, <2>3, SentinelSays
<1>6. Tail(lines) = <<>>
  BY <1>4, <1>5, HeadTailAppend
<1>7. Heard = reply
  BY <1>4, <1>5, SpokeAppend, ElementsEmpty DEF Heard
<1>8. QED
  BY <1>3, <1>6, <1>7 DEF Spoken

LEMMA Speech == Heard = reply \cup Spoke(lines)
BY DEF Heard

-----------------------------------------------------------------------------
(* The invariant holds at the start and after every step of the client *)

LEMMA InvInit == Init => Inv
<1> SUFFICES ASSUME Init PROVE Inv
  OBVIOUS
<1> USE DEF Init, Session!Init
<1>1. frames \in Seq(SUBSET Session!Assertion) /\ Len(frames) = 1
  OBVIOUS
<1>2. Typed
  <2>1. held.answer \in Kept /\ held.points \subseteq Points /\ held.core \subseteq Names
    BY DEF NothingHeld, Kept
  <2>2. nameSeq \in Names
    BY BoundsAssumption DEF Names
  <2>3. alive \in BOOLEAN
    BY Zenon
  <2>4. syncSeq \in Nat /\ reply \subseteq Plain
    OBVIOUS
  <2>5. QED  BY <1>1, <2>1, <2>2, <2>3, <2>4 DEF Typed
<1>3. ~OnTrip /\ Quiet /\ Applied /\ NoOrphan
  BY DEF OnTrip, Busy, Idle, Quiet, Applied, NoOrphan
<1>4. Stands
  BY DEF Stands
<1>5. QED
  BY <1>2, <1>3, <1>4 DEF Inv, InTrip

LEMMA InvMutate == ASSUME Inv, Mutate PROVE Inv'
<1> USE DEF Mutate, process
<1>1. /\ frames' \in Seq(SUBSET Session!Assertion) /\ Len(frames') >= 1
      /\ nameSeq' \in Names
      /\ (frames' = frames /\ last' = last) \/ last' = "none"
  <2> USE DEF Inv, Typed
  <2>1. CASE \E q \in Quantities : Session!Declare(q)
    BY <2>1 DEF Session!Declare
  <2>2. CASE Session!Push
    <3>1. Append(frames, {}) \in Seq(SUBSET Session!Assertion) /\ Len(Append(frames, {})) = Len(frames) + 1
      BY AppendProperties
    <3>2. QED  BY <2>2, <3>1, LenProperties DEF Session!Push
  <2>3. CASE Session!Pop
    <3>1. Len(frames) \in Nat
      BY LenProperties
    <3>2. CASE Len(frames) > 1
      <4>1. /\ SubSeq(frames, 1, Len(frames) - 1) \in Seq(SUBSET Session!Assertion)
            /\ Len(SubSeq(frames, 1, Len(frames) - 1)) = Len(frames) - 1
        BY <3>1, <3>2, SubSeqProperties
      <4>2. QED  BY <2>3, <3>1, <3>2, <4>1 DEF Session!Pop
    <3>3. CASE ~(Len(frames) > 1)
      BY <2>3, <3>3 DEF Session!Pop
    <3>4. QED  BY <3>2, <3>3
  <2>4. ASSUME NEW f \in Formulas, NEW named \in BOOLEAN, NEW m \in SUBSET Quantities,
               Session!Assert(f, named, m)
        PROVE  frames' \in Seq(SUBSET Session!Assertion) /\ Len(frames') >= 1
               /\ nameSeq' \in Names /\ last' = "none"
    <3>1. (IF named THEN nameSeq + 1 ELSE 0) \in 0..MaxNames
      BY <2>4, BoundsAssumption DEF Session!Assert, Names
    <3> DEFINE top == {[f |-> f, name |-> IF named THEN nameSeq + 1 ELSE 0]}
    <3>2. top \subseteq Session!Assertion
      BY <3>1 DEF Session!Assertion
    <3>3. frames' = [frames EXCEPT ![Len(frames)] = @ \cup top] /\ last' = "none"
      BY <2>4 DEF Session!Assert
    <3>4. nameSeq' \in Names
      BY <2>4, BoundsAssumption DEF Session!Assert, Names
    <3> HIDE DEF top
    <3>5. frames[Len(frames)] \cup top \in SUBSET Session!Assertion
      BY <3>2, LenProperties
    <3>6. frames' \in Seq(SUBSET Session!Assertion) /\ Len(frames') = Len(frames)
      BY <3>3, <3>5, ExceptSeq
    <3>7. QED  BY <3>3, <3>4, <3>6
  <2>5. QED  BY <2>1, <2>2, <2>3, <2>4 DEF Session!Mutate
<1>2. Typed'
  BY <1>1 DEF Inv, Typed
<1>3. ~OnTrip' /\ Quiet' /\ Applied' /\ NoOrphan'
  BY DEF Inv, InTrip, OnTrip, Busy, Quiet, Applied, NoOrphan, Idle
<1>4. Stands'
  <2>1. CASE frames' = frames /\ last' = last
    BY <2>1, SameStands, SameFits DEF Inv
  <2>2. CASE last' = "none"
    BY <2>2 DEF Stands
  <2>3. QED  BY <1>1, <2>1, <2>2
<1>5. QED
  BY <1>2, <1>3, <1>4 DEF Inv, InTrip

\* A round trip begins when its two commands are all there is to read.
LEMMA Sent ==
  ASSUME Inv, ~OnTrip, NEW cmd, Send(cmd), UNCHANGED client,
         call' \in Calls, call'.stage # "again", cmd = Command',
         call'.op = "check" => call'.stage = "query",
         call'.op = "model" => last = "sat", call'.op = "core" => last = "unsat"
  PROVE  Inv'
<1> USE DEF client
<1>1. stdin = <<>> /\ lines = <<>> /\ (~handle => ~errPipe /\ ~errBuf)
  BY DEF Inv, InTrip, Quiet, NoOrphan
<1>2. Typed'
  <2>1. alive' \in BOOLEAN
    <3>1. CASE handle
      BY <3>1, Zenon DEF Inv, Typed, Send
    <3>2. CASE ~handle
      BY <3>2, Zenon DEF Send
    <3>3. QED  BY <3>1, <3>2
  <2>2. syncSeq' \in Nat /\ reply' \subseteq Plain /\ held' = held
    BY DEF Inv, Typed, Send
  <2>3. QED  BY <2>1, <2>2, Zenon DEF Inv, Typed
<1>2a. Applied'
  BY DEF Applied
<1>3. NoOrphan'
  BY DEF NoOrphan, Send
<1>4. Unread' \/ CutOff'
  <2>1. CASE alive'
    <3>1. stdin' = <<>> \o <<cmd, Echo(syncSeq + 1)>>
      BY <1>1, <2>1 DEF Send
    <3>2. stdin' = <<cmd, Echo(syncSeq + 1)>>
      BY <3>1
    <3>3. QED  BY <1>1, <3>2 DEF Unread, Send, Echo
  <2>2. CASE ~alive'
    BY <1>1, <2>2 DEF CutOff, Send
  <2>3. QED  BY <2>1, <2>2
<1>5. OnTrip'
  BY DEF OnTrip, Busy, Calls, Idle
<1>6. Stands'
  BY SameStands, SameFits DEF Send, Inv
<1>7. QED
  BY <1>2, <1>2a, <1>3, <1>4, <1>5, <1>6 DEF Inv, InTrip

LEMMA InvCallCheck == ASSUME Inv, CallCheck PROVE Inv'
<1>1. ~OnTrip /\ call' \in Calls /\ call'.stage = "query" /\ call'.op = "check"
  BY DEF CallCheck, OnTrip, Calls
<1>2. Query(Script) = Command'
  BY <1>1, SameAssertions DEF CallCheck, client, Command, Script, Query
<1>3. QED
  BY <1>1, <1>2, Sent DEF CallCheck

LEMMA InvCallGetter ==
  ASSUME Inv, NEW op \in {"model", "core"}, CallGetter(op) PROVE Inv'
<1>1. ~OnTrip /\ call' \in Calls /\ call'.op = op /\ call'.stage \in {"query", "getter"}
  <2>1. ~OnTrip
    BY DEF CallGetter, OnTrip
  <2>2. PICK st \in {"query", "getter"} : call' = [op |-> op, stage |-> st, written |-> FALSE]
    BY DEF CallGetter
  <2>3. call' \in Calls
    BY <2>2 DEF Calls
  <2>4. call'.op = op /\ call'.stage = st
    BY <2>2
  <2>5. QED  BY <2>1, <2>2, <2>3, <2>4
<1>2. (op = "model" => last = "sat") /\ (op = "core" => last = "unsat")
  BY DEF CallGetter, Applies
<1>3. Script' = Script
  BY SameAssertions DEF CallGetter, client, Script
<1>4. CASE handle
  <2>1. Send(Getter(op, Script)) /\ call'.stage = "getter" /\ UNCHANGED client
    BY <1>4 DEF CallGetter
  <2>2. Getter(op, Script) = Command'
    BY <1>1, <1>3, <2>1 DEF Command, Getter
  <2>3. QED  BY <1>1, <1>2, <2>1, <2>2, Sent
<1>5. CASE ~handle
  <2>1. Send(Query(Script)) /\ call'.stage = "query" /\ UNCHANGED client
    BY <1>5 DEF CallGetter
  <2>2. Query(Script) = Command'
    BY <1>1, <1>3, <2>1 DEF Command, Query
  <2>3. QED  BY <1>1, <1>2, <2>1, <2>2, Sent
<1>6. QED  BY <1>4, <1>5

LEMMA InvSendGetter == ASSUME Inv, SendGetter PROVE Inv'
<1>1. ~OnTrip /\ call \in Calls /\ call.op \in {"model", "core"}
  BY DEF SendGetter, OnTrip, Busy, Idle, Inv, Typed, Applied, Calls
<1>2. call' \in Calls /\ call'.op = call.op /\ call'.stage = "getter"
  BY <1>1 DEF SendGetter, Calls
<1>3. Getter(call.op, Script) = Command'
  BY <1>2, SameAssertions DEF SendGetter, client, Command, Script, Getter
<1>4. QED
  BY <1>1, <1>2, <1>3, Sent DEF SendGetter, Inv, Applied

LEMMA InvNothing ==
  ASSUME Inv, CheckSpawnFails \/ \E op \in {"model", "core"} : GetterNothing(op) PROVE Inv'
<1> USE DEF CheckSpawnFails, GetterNothing, SpawnFails, ReturnNothing, process
<1>1. ~Busy /\ UNCHANGED <<frames, nameSeq, call, syncSeq, handle, process, reply, errBuf>>
  OBVIOUS
<1>2. last' = last \/ last' = "unknown"
  OBVIOUS
<1>3. Typed'
  BY <1>1 DEF Inv, Typed
<1>4. ~OnTrip' /\ Quiet' /\ Applied' /\ NoOrphan'
  BY <1>1 DEF Inv, InTrip, OnTrip, Busy, Quiet, Applied, NoOrphan, Idle
<1>5. Stands'
  <2>1. CASE last' = last
    BY <1>1, <2>1, SameStands, SameFits DEF Inv
  <2>2. CASE last' = "unknown"
    BY <2>2 DEF Stands
  <2>3. QED  BY <1>2, <2>1, <2>2
<1>6. QED
  BY <1>3, <1>4, <1>5 DEF Inv, InTrip

-----------------------------------------------------------------------------
(* ... of the reader of a reply ... *)

\* A step of the process or of a reader needs only its own part shown.
LEMMA InvSameClient ==
  ASSUME Inv, UNCHANGED <<client, call, syncSeq, handle>>, NoOrphan',
         alive' \in BOOLEAN, reply' \subseteq Plain,
         held'.answer \in Kept, held'.points \subseteq Points, held'.core \subseteq Names,
         last \in {"sat", "unsat"} => Fits',
         ~OnTrip => Quiet', OnTrip => Unread' \/ Speaking' \/ Spoken' \/ CutOff'
  PROVE  Inv'
<1> USE DEF client
<1>1. Typed'
  BY Zenon DEF Inv, Typed
<1>2. Applied' /\ InTrip'
  BY DEF Inv, Applied, InTrip, OnTrip, Busy
<1>3. Asserted' = Asserted
  BY SameAssertions
<1>4. Stands'
  BY <1>3 DEF Inv, Stands
<1>5. QED
  BY <1>1, <1>2, <1>4 DEF Inv

\* The write returns, of itself or because the process read on.
LEMMA InvWritten == ASSUME Inv, Writing, Written PROVE Inv'
<1> USE DEF Written, client, process
<1>1. call \in Calls /\ call' = [call EXCEPT !.written = TRUE] /\ OnTrip
  BY DEF Writing, OnTrip, Busy, Inv, Typed
<1>2. call' \in Calls /\ call'.op = call.op /\ call'.stage = call.stage /\ call'.written
  BY <1>1 DEF Calls
<1>3. Busy' /\ OnTrip' /\ Busy
  BY <1>1, <1>2 DEF Busy, Idle, OnTrip
<1>4. Typed' /\ NoOrphan'
  BY <1>2, Zenon DEF Inv, Typed, NoOrphan
<1>5. Applied'
  BY <1>2, <1>3 DEF Inv, Applied
<1>6. Stands'
  BY SameStands, SameFits DEF Inv
<1>7. Unread' \/ Speaking' \/ Spoken' \/ CutOff'
  <2>1. Said' <=> Said
    BY <1>2, SameSaid DEF Heard
  <2>2. Command' = Command
    BY <1>2, SameAssertions DEF Command, Script
  <2>3. QED
    BY <1>1, <2>1, <2>2 DEF Inv, InTrip, Unread, Speaking, Spoken, CutOff
<1>8. QED
  BY <1>3, <1>4, <1>5, <1>6, <1>7 DEF Inv, InTrip

LEMMA InvReadLine == ASSUME Inv, ReadLine PROVE Inv'
<1> USE DEF ReadLine
<1>1. Head(lines) # Sentinel(syncSeq) /\ lines # <<>> /\ lines' = Tail(lines) /\ OnTrip /\ OnTrip'
  BY DEF Waiting, OnTrip, Busy
<1>2. NoOrphan' /\ UNCHANGED <<alive, held, client, call, syncSeq, handle>>
  BY <1>1 DEF Inv, NoOrphan
<1>3. /\ alive' \in BOOLEAN /\ held'.answer \in Kept
      /\ held'.points \subseteq Points /\ held'.core \subseteq Names
      /\ (last \in {"sat", "unsat"} => Fits')
  BY <1>2, SameFits DEF Inv, Typed, Stands, client
<1> HIDE DEF ReadLine
<1>4. CASE lines \in Seq(Plain)
  <2>1. /\ lines' \in Seq(Plain) /\ Head(lines) \in Plain
        /\ Elements(lines) = {Head(lines)} \cup Elements(lines')
    BY <1>1, <1>4, ElementsHead
  <2>2. reply' = reply \cup {Head(lines)} /\ reply' \subseteq Plain
    BY <2>1, PlainSays DEF Inv, Typed, ReadLine
  <2>3. Heard' = Heard
    BY <1>4, <2>1, <2>2, SpokePlain DEF Heard
  <2>4. Said' <=> Said
    BY <1>2, <2>3, SameSaid DEF client
  <2>5. Speaking' \/ CutOff'
    BY <1>1, <1>4, <1>2, <2>1, <2>4, NotPlain DEF ReadLine, Inv, InTrip, Unread, Speaking, Spoken, CutOff
  <2>6. QED  BY <1>1, <1>2, <1>3, <2>2, <2>5, InvSameClient
<1>5. CASE lines \notin Seq(Plain)
  <2>1. Spoken
    BY <1>1, <1>5 DEF Inv, InTrip, Unread, Speaking, CutOff
  <2>2. PICK body \in Seq(Plain) : lines = Append(body, Sentinel(syncSeq))
    BY <2>1 DEF Spoken
  <2>3. body # <<>> /\ Head(lines) = Head(body) /\ lines' = Append(Tail(body), Sentinel(syncSeq))
    BY <1>1, <2>2, HeadTailAppend
  <2>4. /\ Tail(body) \in Seq(Plain) /\ Head(body) \in Plain
        /\ Elements(body) = {Head(body)} \cup Elements(Tail(body))
    BY <2>3, ElementsHead
  <2>5. reply' = reply \cup {Head(body)} /\ reply' \subseteq Plain
    BY <2>3, <2>4, PlainSays DEF Inv, Typed, ReadLine
  <2>6. Heard' = Heard
    BY <2>2, <2>3, <2>4, <2>5, SpokeAppend DEF Heard
  <2>7. Said' <=> Said
    BY <1>2, <2>6, SameSaid DEF client
  <2>8. Spoken'
    BY <1>2, <2>1, <2>3, <2>4, <2>7 DEF ReadLine, Spoken
  <2>9. QED  BY <1>1, <1>2, <1>3, <2>5, <2>8, InvSameClient
<1>6. QED  BY <1>4, <1>5

LEMMA Classified ==
  ASSUME NEW K, Classify(K) \in {"sat", "unsat"}
  PROVE  "error" \notin K /\ "unsupported" \notin K /\ Classify(K) \in K
<1> DEFINE answers == {"sat", "unsat", "unknown", "timeout"}
           k == CHOOSE x \in K : x \in answers
<1>1. K \cap answers # {} => k \in K
  OBVIOUS
<1>2. "error" \notin K /\ "unsupported" \notin K /\ K \cap answers # {} /\ Classify(K) = k
  BY DEF Classify
<1>3. QED  BY <1>1, <1>2

\* A verdict read off a reply is what the process holds; it skipped no assertion,
\* and refused none if it reports on stdout.
LEMMA AnswerFits ==
  ASSUME Inv, AtSentinel, call.stage = "query", Classify(TakeReply) \in {"sat", "unsat"}
  PROVE  /\ Fits /\ Classify(TakeReply) = held.answer /\ ~Skips(Asserted)
         /\ ErrorStream = "stdout" => ~Errors(Asserted)
<1> DEFINE v == Classify(TakeReply)
<1>1. Heard = reply /\ QuerySaid
  BY AllRead DEF Said
<1>2. "error" \notin TakeReply /\ "unsupported" \notin TakeReply /\ v \in TakeReply
  BY Classified
<1>3. Kinds \subseteq TakeReply /\ TakeReply \subseteq Kinds \cup {"error"}
  BY DEF TakeReply
<1>4. PICK t \in reply : t.kind = v
  BY <1>2, <1>3 DEF Kinds
<1>5. v = held.answer
  BY <1>1, <1>4 DEF QuerySaid
<1>6. \A l \in reply : l.kind # "error" /\ l.kind # "unsupported"
  BY <1>2, <1>3 DEF Kinds
<1>7. ~Skips(Asserted) /\ (ErrorStream = "stdout" => ~Errors(Asserted))
  BY <1>1, <1>6 DEF QuerySaid
<1>8. QED
  BY <1>1, <1>5, <1>7 DEF QuerySaid

LEMMA InvCheckAnswered == ASSUME Inv, CheckAnswered PROVE Inv'
<1> DEFINE v == Classify(TakeReply)
<1>1. /\ AtSentinel /\ call' = Idle /\ reply' = {}
      /\ UNCHANGED <<frames, nameSeq, decls, syncSeq>>
      /\ last' = IF v \in {"sat", "unsat"} THEN v ELSE "unknown"
  BY DEF CheckAnswered
<1>2. \/ v = "noanswer" /\ Recycle
      \/ /\ v # "noanswer" /\ lines' = Tail(lines) /\ errBuf' = FALSE
         /\ UNCHANGED <<handle, alive, stdin, held, errPipe>>
  BY DEF CheckAnswered
<1>3. stdin = <<>> /\ Tail(lines) = <<>> /\ lines # <<>> /\ call.op = "check" /\ call.stage = "query"
  BY <1>1, AllRead DEF AtSentinel, Inv, Applied, Waiting, OnTrip, CheckAnswered
<1>4. Quiet' /\ ~OnTrip'
  BY <1>1, <1>2, <1>3 DEF Recycle, Quiet, OnTrip, Busy
<1>5. NoOrphan'
  BY <1>2, <1>3 DEF Inv, NoOrphan, Recycle
<1>6. held'.answer \in Kept /\ held'.points \subseteq Points /\ held'.core \subseteq Names
  BY <1>2 DEF Inv, Typed, Recycle, NothingHeld, Kept
<1>7. alive' \in BOOLEAN
  BY <1>2, Zenon DEF Inv, Typed, Recycle
<1>8. Typed' /\ Applied'
  BY <1>1, <1>6, <1>7 DEF Inv, Typed, Applied, Idle, Busy
<1>9. Stands'
  <2>1. CASE v \in {"sat", "unsat"}
    <3>1. last' = v /\ held' = held /\ Asserted' = Asserted
      BY <1>1, <1>2, <2>1, SameAssertions
    <3>2. /\ Fits /\ v = held.answer /\ ~Skips(Asserted)
          /\ ErrorStream = "stdout" => ~Errors(Asserted)
      BY <1>1, <1>3, <2>1, AnswerFits
    <3>3. Fits'
      BY <1>1, <3>1, <3>2, SameFits
    <3>4. v = "sat" => Satisfying(Taken(Asserted)) # {}
      BY <3>2 DEF Fits
    <3>5. v = "unsat" => Satisfying(Taken(Asserted)) = {}
      BY <3>2 DEF Fits, Satisfying, Session!Satisfying
    <3>6. QED
      BY <3>1, <3>2, <3>3, <3>4, <3>5 DEF Stands
  <2>2. CASE v \notin {"sat", "unsat"}
    BY <1>1, <2>2 DEF Stands
  <2>3. QED  BY <2>1, <2>2
<1>10. QED
  BY <1>4, <1>5, <1>8, <1>9 DEF Inv, InTrip

\* The other two answers leave the verdict alone and keep the process.
LEMMA InvAnswerRead ==
  ASSUME Inv, AtSentinel, lines' = Tail(lines), errBuf' = FALSE, reply' = {},
         UNCHANGED <<frames, nameSeq, last, syncSeq, handle, alive, stdin, held, errPipe>>,
         call' = Idle \/ (call' \in Calls /\ call'.stage = "again" /\ call'.op = call.op /\ call.op # "check")
  PROVE  Inv'
<1>1. stdin = <<>> /\ Tail(lines) = <<>> /\ lines # <<>> /\ OnTrip
  BY AllRead DEF AtSentinel, Waiting
<1>2. Quiet' /\ ~OnTrip'
  BY <1>1 DEF Quiet, OnTrip, Busy
<1>3. NoOrphan'
  BY <1>1 DEF Inv, NoOrphan
<1>4. Typed'
  BY Zenon DEF Inv, Typed
<1>5. Applied'
  BY DEF Inv, Applied, Busy, Idle
<1>6. Stands'
  BY SameStands, SameFits DEF Inv
<1>7. QED
  BY <1>2, <1>3, <1>4, <1>5, <1>6 DEF Inv, InTrip

LEMMA InvRerunAnswered == ASSUME Inv, RerunAnswered PROVE Inv'
<1>1. call \in Calls /\ AtSentinel /\ call.op # "check"
  BY DEF RerunAnswered, AtSentinel, Waiting, OnTrip, Busy, Inv, Typed
<1>2. call' = Idle \/ call' = [call EXCEPT !.stage = "again"]
  BY DEF RerunAnswered
<1>3. call' = Idle \/ (call' \in Calls /\ call'.stage = "again" /\ call'.op = call.op)
  BY <1>1, <1>2 DEF Calls
<1>4. QED
  BY <1>1, <1>3, InvAnswerRead DEF RerunAnswered

LEMMA InvGetterAnswered == ASSUME Inv, GetterAnswered PROVE Inv'
BY InvAnswerRead DEF GetterAnswered

LEMMA InvFail ==
  ASSUME Inv, NEW reason, OnTrip, Fail(reason) PROVE Inv'
<1>1. /\ Recycle /\ call' = Idle /\ reply' = {}
      /\ UNCHANGED <<frames, nameSeq, decls, syncSeq>>
      /\ last' = last \/ last' = "unknown"
  BY DEF Fail
<1>2. Quiet' /\ ~OnTrip' /\ NoOrphan'
  BY <1>1 DEF Recycle, Quiet, OnTrip, Busy, NoOrphan
<1>3. held'.answer \in Kept /\ held'.points \subseteq Points /\ held'.core \subseteq Names
  BY <1>1 DEF Recycle, NothingHeld, Kept
<1>4. alive' \in BOOLEAN
  BY <1>1, Zenon DEF Recycle
<1>5. Typed' /\ Applied'
  BY <1>1, <1>3, <1>4 DEF Inv, Typed, Applied, Idle, Busy
<1>6. Fits'
  BY <1>1, NothingFits DEF Recycle
<1>7. Stands'
  <2>1. CASE last' = last
    BY <1>1, <1>6, <2>1, SameStands DEF Inv
  <2>2. CASE last' = "unknown"
    BY <2>2 DEF Stands
  <2>3. QED  BY <1>1, <2>1, <2>2
<1>8. QED
  BY <1>2, <1>5, <1>7 DEF Inv, InTrip

-----------------------------------------------------------------------------
(* ... and of the process and the reader of its stderr *)

\* A command the process reads is one of the round trip in progress.
LEMMA AtCommand ==
  ASSUME Inv, alive, stdin # <<>>
  PROVE  /\ OnTrip /\ handle
         /\ \/ Unread /\ Head(stdin) = Command /\ Tail(stdin) = <<Echo(syncSeq)>>
            \/ Speaking /\ Head(stdin) = Echo(syncSeq) /\ Tail(stdin) = <<>>
<1>1. OnTrip /\ handle
  BY DEF Inv, NoOrphan, InTrip, Quiet
<1>2. CASE Unread
  BY <1>1, <1>2 DEF Unread
<1>3. CASE Speaking
  BY <1>1, <1>3 DEF Speaking
<1>4. QED
  BY <1>1, <1>2, <1>3 DEF Inv, InTrip, Spoken, CutOff

LEMMA CommandIs ==
  ASSUME Inv, OnTrip
  PROVE  /\ call.stage = "query" => Command.cmd = "check-sat" /\ Command.script = Script
         /\ call.stage = "getter" =>
              /\ Command.cmd = call.op /\ call.op \in {"model", "core"}
              /\ Command.script = Script
<1>1. call \in Calls /\ Busy
  BY DEF Inv, Typed, OnTrip, Busy
<1>2. call.stage = "query" => Command = Query(Script)
  BY DEF Command
<1>3. call.stage = "getter" => Command = Getter(call.op, Script) /\ call.op \in {"model", "core"}
  BY <1>1 DEF Command, Inv, Applied, Calls
<1>4. QED
  BY <1>2, <1>3 DEF Query, Getter

LEMMA EchoIs == \A n : Echo(n).cmd = "echo" /\ Echo(n).sync = n
BY DEF Echo

LEMMA OneLine ==
  ASSUME NEW l \in Plain
  PROVE  <<l>> \in Seq(Plain) /\ Elements(<<l>>) = {l} /\ Append(<<>>, l) = <<l>>
<1>1. <<l>> \in Seq(Plain) /\ Append(<<>>, l) = <<l>>
  OBVIOUS
<1>2. Elements(<<l>>) = {l}
  BY DEF Elements
<1>3. QED  BY <1>1, <1>2

LEMMA SaysPlain ==
  ASSUME NEW cond \in BOOLEAN, NEW kind \in Kept
  PROVE  Says(cond, kind) \in Seq(Plain) /\ Elements(Says(cond, kind)) = {l \in {Say(kind)} : cond}
<1>1. CASE cond
  BY <1>1, PlainSays, OneLine DEF Says
<1>2. CASE ~cond
  <2>1. <<>> \in Seq(Plain)
    OBVIOUS
  <2>2. QED  BY <1>2, <2>1, ElementsEmpty DEF Says
<1>3. QED  BY <1>1, <1>2

\* The process solves what it took, and says what it dropped.
LEMMA SolvedFits ==
  ASSUME Inv, NEW h \in Solved(Taken(Asserted)) \cup Undecided("unknown")
                          \cup Undecided("timeout") \cup Undecided("silent"),
         held' = [answer |-> h.answer, points |-> h.points, core |-> h.core, decls |-> decls],
         frames' = frames
  PROVE  /\ Fits'
         /\ held'.answer = h.answer
         /\ held'.answer \in Kept /\ held'.points \subseteq Points /\ held'.core \subseteq Names
<1> DEFINE A == Taken(Asserted)
<1>1. Asserted' = Asserted
  BY SameAssertions
<1>2. held'.answer = h.answer /\ held'.points = h.points /\ held'.core = h.core
  OBVIOUS
<1>3. \A a \in Asserted : a.name \in Names
  BY DEF Inv, Typed, Asserted, Session!Asserted, Session!Assertion, Names
<1>4. \A a \in A : a.name \in Names
  BY <1>3 DEF Taken
<1>5. Satisfying(A) \subseteq Points
  BY DEF Satisfying, Session!Satisfying
<1> HIDE DEF A
<1>6. CASE \E x \in {"unknown", "timeout", "silent"} : h \in Undecided(x)
  <2>1. h.answer \in {"unknown", "timeout", "silent"} /\ h.points = Points /\ h.core = {}
    BY <1>6 DEF Undecided
  <2>2. QED  BY <1>2, <2>1 DEF Fits, Kept
<1>7. CASE h \in Solved(A) /\ Satisfying(A) # {}
  <2>1. PICK p \in Satisfying(A) : h = [answer |-> "sat", points |-> {p}, core |-> {}]
    BY <1>7 DEF Solved
  <2>2. h.answer = "sat" /\ h.points = {p} /\ h.core = {}
    BY <2>1
  <2>3. Fits'
    BY <1>1, <1>2, <1>7, <2>2 DEF Fits, A
  <2>4. QED  BY <1>2, <1>5, <2>2, <2>3 DEF Kept
<1>8. CASE h \in Solved(A) /\ Satisfying(A) = {}
  <2>1. PICK c \in SUBSET {a.name : a \in A} :
          /\ Satisfying({a \in A : a.name \in c \cup {0}}) = {}
          /\ h = [answer |-> "unsat", points |-> {}, core |-> c]
    BY <1>8 DEF Solved
  <2>2. h.answer = "unsat" /\ h.points = {} /\ h.core = c
    BY <2>1
  <2>3. Fits'
    BY <1>1, <1>2, <2>1, <2>2 DEF Fits, A
  <2>4. c \subseteq Names
    BY <1>4
  <2>5. QED  BY <1>2, <2>2, <2>3, <2>4 DEF Kept
<1>9. QED
  BY <1>6, <1>7, <1>8 DEF A

\* The lines of a query say what its answer must say.
LEMMA SolvesSaid ==
  ASSUME lines = <<>>, reply = {}, frames' = frames, reply' = reply, call' = call,
         call.stage = "query", Fits', held'.answer \in Kept,
         lines' = lines \o Says(Errors(Asserted) /\ ErrorStream = "stdout", "error")
                        \o Says(Skips(Asserted), "unsupported")
                        \o Says(held'.answer # "silent", held'.answer)
  PROVE  lines' \in Seq(Plain) /\ Said'
<1> DEFINE e == Says(Errors(Asserted) /\ ErrorStream = "stdout", "error")
           u == Says(Skips(Asserted), "unsupported")
           w == Says(held'.answer # "silent", held'.answer)
<1>1. /\ e \in Seq(Plain) /\ Elements(e) = {l \in {Say("error")} : Errors(Asserted) /\ ErrorStream = "stdout"}
      /\ u \in Seq(Plain) /\ Elements(u) = {l \in {Say("unsupported")} : Skips(Asserted)}
  BY SaysPlain DEF Kept, Errors, Skips
<1>2. w \in Seq(Plain) /\ Elements(w) = {l \in {Say(held'.answer)} : held'.answer # "silent"}
  BY SaysPlain
<1> HIDE DEF e, u, w
<1>3. <<>> \o e = e /\ e \o u \in Seq(Plain) /\ (e \o u) \o w \in Seq(Plain)
  BY <1>1, <1>2
<1>4. lines' = (e \o u) \o w
  BY <1>3 DEF e, u, w
<1>5. Elements(e \o u) = Elements(e) \cup Elements(u)
  BY <1>1, ElementsConcat
<1>6. Elements((e \o u) \o w) = Elements(e \o u) \cup Elements(w)
  <2> DEFINE eu == e \o u
  <2>1. eu \in Seq(Plain)
    BY <1>3
  <2> HIDE DEF eu
  <2>2. Elements(eu \o w) = Elements(eu) \cup Elements(w)
    BY <1>2, <2>1, ElementsConcat
  <2>3. QED  BY <2>2 DEF eu
<1>7. Heard' = Elements(e) \cup Elements(u) \cup Elements(w)
  <2>1. Spoke((e \o u) \o w) = Elements((e \o u) \o w)
    BY <1>3, SpokePlain
  <2>2. Heard' = Spoke((e \o u) \o w)
    BY <1>4 DEF Heard
  <2>3. QED  BY <2>1, <2>2, <1>5, <1>6
<1>8. Asserted' = Asserted
  BY SameAssertions
<1>9. Say("error").kind = "error" /\ Say("unsupported").kind = "unsupported" /\ Say(held'.answer).kind = held'.answer
  BY DEF Say, Line
<1>10. QuerySaid'
  <2>1. \A l \in Heard' : l.kind \in {"error", "unsupported", held'.answer}
    BY <1>1, <1>2, <1>7, <1>9
  <2>2. Skips(Asserted) => \E l \in Heard' : l.kind = "unsupported"
    BY <1>1, <1>7, <1>9
  <2>3. Errors(Asserted) /\ ErrorStream = "stdout" => \E l \in Heard' : l.kind = "error"
    BY <1>1, <1>7, <1>9
  <2>4. QED  BY <1>8, <2>1, <2>2, <2>3 DEF QuerySaid
<1>11. QED
  BY <1>3, <1>4, <1>10 DEF Said

LEMMA InvChildSolves == ASSUME Inv, ChildSolves PROVE Inv'
<1>1. alive /\ stdin # <<>> /\ Head(stdin).cmd = "check-sat"
  BY DEF ChildSolves
<1>2. OnTrip /\ handle /\ Unread /\ Head(stdin) = Command /\ Tail(stdin) = <<Echo(syncSeq)>>
  BY <1>1, AtCommand, EchoIs
<1>3. call.stage = "query" /\ Head(stdin).script = Script
  BY <1>1, <1>2, CommandIs DEF OnTrip
<1>4. Script.asserts = Asserted /\ Script.decls = decls
  BY DEF Script
<1>5. PICK h \in Solved(Taken(Asserted)) \cup Undecided("unknown")
                   \cup Undecided("timeout") \cup Undecided("silent") :
        /\ held' = [answer |-> h.answer, points |-> h.points, core |-> h.core, decls |-> decls]
        /\ lines' = lines
             \o Says(Errors(Asserted) /\ ErrorStream = "stdout", "error")
             \o Says(Skips(Asserted), "unsupported")
             \o Says(h.answer # "silent", h.answer)
  BY <1>3, <1>4, Zenon DEF ChildSolves
<1>6. stdin' = <<Echo(syncSeq)>> /\ UNCHANGED <<alive, client, call, syncSeq, handle, reply, errBuf>>
  BY <1>2 DEF ChildSolves, childRest
<1>7. frames' = frames
  BY <1>6 DEF client
<1>8. /\ Fits' /\ held'.answer = h.answer
      /\ held'.answer \in Kept /\ held'.points \subseteq Points /\ held'.core \subseteq Names
  BY <1>5, <1>7, SolvedFits
<1>9. lines' \in Seq(Plain) /\ Said'
  BY <1>2, <1>3, <1>5, <1>6, <1>7, <1>8, SolvesSaid DEF Unread
<1>10. Speaking'
  BY <1>6, <1>9 DEF Speaking
<1>11. NoOrphan' /\ alive' \in BOOLEAN /\ reply' \subseteq Plain
  BY <1>2, <1>6 DEF NoOrphan, Inv, Typed
<1>12. QED
  BY <1>2, <1>6, <1>8, <1>10, <1>11, InvSameClient

\* Fewer assertions leave more points.
LEMMA FewerLeaveMore ==
  ASSUME NEW A, NEW B, A \subseteq B PROVE Satisfying(B) \subseteq Satisfying(A)
BY DEF Satisfying, Session!Satisfying

\* A core of what was taken is a core of all that is asserted.
LEMMA TakenCore ==
  ASSUME Fits, held.answer = "unsat"
  PROVE  held.core \in SUBSET {a.name : a \in Asserted} /\ Session!Refutes(held.core)
<1> DEFINE A == {a \in Taken(Asserted) : a.name \in held.core \cup {0}}
           B == {a \in Asserted : a.name \in held.core \cup {0}}
<1>1. A \subseteq B /\ held.core \in SUBSET {a.name : a \in Asserted}
  BY DEF Fits, Taken
<1>2. Satisfying(A) = {}
  BY DEF Fits
<1>3. Satisfying(B) = {}
  BY <1>1, <1>2, FewerLeaveMore
<1>4. QED
  BY <1>1, <1>3 DEF Session!Refutes, Asserted, Satisfying

\* A value the process gives is right about what it took, or a candidate of a
\* process that has no verdict.
LEMMA GetsSaid ==
  ASSUME Inv, OnTrip, call.stage = "getter", lines = <<>>, reply = {}, frames' = frames,
         reply' = reply, call' = call, held' = held, NEW l \in Plain, lines' = <<l>>,
         l.kind = "value" =>
           IF call.op = "model"
           THEN /\ held.answer = "sat" \/ (Candidates /\ held.answer = "unknown")
                /\ \E p \in held.points : l.got = {p}
           ELSE held.answer = "unsat" /\ l.got = held.core \ {0}
  PROVE  lines' \in Seq(Plain) /\ Said'
<1>1. lines' \in Seq(Plain) /\ Elements(<<l>>) = {l}
  BY OneLine
<1>2. Spoke(<<l>>) = {l}
  BY <1>1, SpokePlain
<1>3. Heard' = {l}
  BY <1>2 DEF Heard
<1>4. Asserted' = Asserted
  BY SameAssertions
<1>5. ASSUME l.kind = "value"
      PROVE  Allowed(call.op, l.got) \/ Stray(call.op, l.got)
  <2>1. call.op \in {"model", "core"} /\ last \in {"sat", "unsat"} /\ held.points \subseteq Points
    BY CommandIs DEF Inv, Applied, Typed
  <2>2. Fits
    BY <2>1 DEF Inv, Stands
  <2>3. CASE call.op = "model" /\ held.answer = "sat"
    BY <1>5, <2>2, <2>3 DEF Fits, Allowed
  <2>4. CASE call.op = "model" /\ held.answer # "sat"
    BY <1>5, <2>1, <2>4 DEF Stray
  <2>5. CASE call.op = "core"
    BY <1>5, <2>2, <2>5, TakenCore DEF Allowed
  <2>6. QED  BY <2>1, <2>3, <2>4, <2>5
<1>6. GetterSaid'
  BY <1>3, <1>4, <1>5 DEF GetterSaid, Allowed, Stray, Session!Refutes, Session!Asserted, Asserted
<1>7. QED
  BY <1>1, <1>6 DEF Said

LEMMA InvChildGets == ASSUME Inv, ChildGets PROVE Inv'
<1>1. alive /\ stdin # <<>> /\ Head(stdin).cmd \in {"model", "core"}
  BY DEF ChildGets
<1>2. OnTrip /\ handle /\ Unread /\ Head(stdin) = Command /\ Tail(stdin) = <<Echo(syncSeq)>>
  BY <1>1, AtCommand, EchoIs
<1>3. call.stage = "getter" /\ Head(stdin).cmd = call.op /\ lines = <<>> /\ reply = {}
  BY <1>1, <1>2, CommandIs DEF OnTrip, Unread
<1>4. stdin' = <<Echo(syncSeq)>> /\ UNCHANGED <<alive, held, errPipe, client, call, syncSeq, handle, reply, errBuf>>
  BY <1>2 DEF ChildGets, childRest
<1>5. /\ held.points \subseteq Points /\ held.core \subseteq Names
      /\ call.op \in {"model", "core"}
  BY <1>1, <1>3 DEF Inv, Typed
<1>6. PICK l \in Plain :
        /\ lines' = Append(<<>>, l)
        /\ l.kind = "value" =>
             IF call.op = "model"
             THEN /\ held.answer = "sat" \/ (Candidates /\ held.answer = "unknown")
                  /\ \E p \in held.points : l.got = {p}
             ELSE held.answer = "unsat" /\ l.got = held.core \ {0}
  <2>1. CASE CanAnswer(Head(stdin)) /\ call.op = "model"
    <3>1. PICK p \in held.points : lines' = Append(<<>>, Line("value", {p}, 0))
      BY <1>3, <2>1 DEF ChildGets
    <3>2. Line("value", {p}, 0) \in Plain /\ Line("value", {p}, 0).got = {p}
      BY <1>5, PlainSays DEF Kept, Line
    <3>3. held.answer = "sat" \/ (Candidates /\ held.answer = "unknown")
      BY <1>3, <2>1 DEF CanAnswer
    <3>4. QED  BY <2>1, <3>1, <3>2, <3>3
  <2>2. CASE CanAnswer(Head(stdin)) /\ call.op = "core"
    <3>1. lines' = Append(<<>>, Line("value", held.core \ {0}, 0))
      BY <1>3, <2>2 DEF ChildGets
    <3>2. /\ Line("value", held.core \ {0}, 0) \in Plain
          /\ Line("value", held.core \ {0}, 0).got = held.core \ {0}
      BY <1>5, PlainSays DEF Kept, Line
    <3>3. held.answer = "unsat"
      BY <1>3, <2>2 DEF CanAnswer
    <3>4. QED  BY <2>2, <3>1, <3>2, <3>3
  <2>3. CASE ~CanAnswer(Head(stdin))
    <3>1. lines' = Append(<<>>, Say("error"))
      BY <1>3, <2>3 DEF ChildGets
    <3>2. Say("error") \in Plain /\ Say("error").kind = "error"
      BY PlainSays DEF Kept, Say, Line
    <3>3. QED  BY <3>1, <3>2
  <2>4. QED  BY <1>5, <2>1, <2>2, <2>3
<1>7. lines' = <<l>>
  BY <1>6
<1>8. frames' = frames /\ reply' = reply /\ call' = call /\ held' = held
  BY <1>4 DEF client
<1>9. lines' \in Seq(Plain) /\ Said'
  BY <1>2, <1>3, <1>6, <1>7, <1>8, GetsSaid
<1>10. Speaking'
  BY <1>4, <1>9 DEF Speaking
<1>11. /\ NoOrphan' /\ alive' \in BOOLEAN /\ reply' \subseteq Plain
       /\ held'.answer \in Kept /\ held'.points \subseteq Points /\ held'.core \subseteq Names
  BY <1>2, <1>4 DEF NoOrphan, Inv, Typed
<1>12. last \in {"sat", "unsat"} => Fits'
  BY <1>4, <1>8, SameFits DEF Inv, Stands
<1>13. QED
  BY <1>2, <1>4, <1>10, <1>11, <1>12, InvSameClient

LEMMA InvChildEchoes == ASSUME Inv, ChildEchoes PROVE Inv'
<1>1. alive /\ stdin # <<>> /\ Head(stdin).cmd = "echo"
  BY DEF ChildEchoes
<1>2. OnTrip /\ handle /\ Speaking /\ Head(stdin) = Echo(syncSeq) /\ Tail(stdin) = <<>>
  <2>1. OnTrip /\ handle
    BY <1>1, AtCommand
  <2>2. Command.cmd # "echo"
    BY <2>1, CommandIs DEF OnTrip
  <2>3. QED  BY <1>1, <2>1, <2>2, AtCommand
<1>3. /\ lines' = Append(lines, Sentinel(syncSeq)) /\ stdin' = <<>>
      /\ UNCHANGED <<alive, held, errPipe, client, call, syncSeq, handle, reply, errBuf>>
  BY <1>2, EchoIs DEF ChildEchoes, childRest
<1>4. lines \in Seq(Plain) /\ Said
  BY <1>2 DEF Speaking
<1>5. Heard' = Heard
  <2>1. Spoke(lines') = Elements(lines)
    BY <1>3, <1>4, SpokeAppend
  <2>2. QED  BY <1>3, <1>4, <2>1, SpokePlain DEF Heard
<1>6. Said'
  BY <1>3, <1>4, <1>5, SameSaid DEF client
<1>7. Spoken'
  BY <1>3, <1>4, <1>6 DEF Spoken
<1>8. /\ NoOrphan' /\ alive' \in BOOLEAN /\ reply' \subseteq Plain
      /\ held'.answer \in Kept /\ held'.points \subseteq Points /\ held'.core \subseteq Names
  BY <1>2, <1>3 DEF NoOrphan, Inv, Typed
<1>9. last \in {"sat", "unsat"} => Fits'
  BY <1>3, SameFits DEF Inv, Stands, client
<1>10. QED
  BY <1>2, <1>3, <1>7, <1>8, <1>9, InvSameClient

LEMMA InvChildDies == ASSUME Inv, ChildDies PROVE Inv'
<1>1. /\ ~alive' /\ stdin' = <<>> /\ alive
      /\ UNCHANGED <<held, lines, errPipe, client, call, syncSeq, handle, reply, errBuf>>
  BY DEF ChildDies, childRest
<1>2. alive' \in BOOLEAN
  BY Zenon DEF ChildDies
<1>3. /\ NoOrphan' /\ reply' \subseteq Plain
      /\ held'.answer \in Kept /\ held'.points \subseteq Points /\ held'.core \subseteq Names
  BY <1>1 DEF NoOrphan, Inv, Typed
<1>4. last \in {"sat", "unsat"} => Fits'
  BY <1>1, SameFits DEF Inv, Stands, client
<1>5. ~OnTrip => Quiet'
  BY <1>1 DEF Inv, InTrip, Quiet
<1>6. OnTrip => CutOff' \/ Spoken'
  <2>1. CASE Unread \/ Speaking
    <3>1. <<>> \in Seq(Plain)
      OBVIOUS
    <3>2. QED  BY <1>1, <2>1, <3>1 DEF Unread, Speaking, CutOff
  <2>2. CASE Spoken
    <3>1. Said'
      BY <1>1, <2>2, SameSaid DEF client, Spoken, Heard
    <3>2. QED  BY <1>1, <2>2, <3>1 DEF Spoken
  <2>3. QED  BY <1>1, <2>1, <2>2 DEF Inv, InTrip, CutOff
<1>7. QED
  BY <1>1, <1>2, <1>3, <1>4, <1>5, <1>6, InvSameClient

LEMMA InvStderrRead == ASSUME Inv, StderrRead PROVE Inv'
<1>1. /\ UNCHANGED <<alive, stdin, held, lines, client, call, syncSeq, handle, reply>> /\ errPipe
  BY DEF StderrRead
<1>2. /\ NoOrphan' /\ reply' \subseteq Plain /\ alive' \in BOOLEAN
      /\ held'.answer \in Kept /\ held'.points \subseteq Points /\ held'.core \subseteq Names
  BY <1>1 DEF NoOrphan, Inv, Typed
<1>3. last \in {"sat", "unsat"} => Fits'
  BY <1>1, SameFits DEF Inv, Stands, client
<1>4. ~OnTrip => Quiet'
  BY <1>1 DEF Inv, InTrip, Quiet
<1>5. OnTrip => Unread' \/ Speaking' \/ Spoken' \/ CutOff'
  <2>1. Said' <=> Said
    BY <1>1, SameSaid DEF client, Heard
  <2>2. Command' = Command
    BY <1>1, SameAssertions DEF client, Command, Script
  <2>3. QED
    BY <1>1, <2>1, <2>2 DEF Inv, InTrip, Unread, Speaking, Spoken, CutOff
<1>6. QED
  BY <1>1, <1>2, <1>3, <1>4, <1>5, InvSameClient

LEMMA InvStutters == ASSUME Inv, UNCHANGED vars PROVE Inv'
<1>1. UNCHANGED <<client, call, syncSeq, handle, alive, stdin, held, lines, errPipe, reply, errBuf>>
  BY DEF vars, process
<1>2. /\ NoOrphan' /\ reply' \subseteq Plain /\ alive' \in BOOLEAN
      /\ held'.answer \in Kept /\ held'.points \subseteq Points /\ held'.core \subseteq Names
  BY <1>1 DEF NoOrphan, Inv, Typed
<1>3. last \in {"sat", "unsat"} => Fits'
  BY <1>1, SameFits DEF Inv, Stands, client
<1>4. ~OnTrip => Quiet'
  BY <1>1 DEF Inv, InTrip, Quiet
<1>5. OnTrip => Unread' \/ Speaking' \/ Spoken' \/ CutOff'
  <2>1. Said' <=> Said
    BY <1>1, SameSaid DEF client, Heard
  <2>2. Command' = Command
    BY <1>1, SameAssertions DEF client, Command, Script
  <2>3. QED
    BY <1>1, <2>1, <2>2 DEF Inv, InTrip, Unread, Speaking, Spoken, CutOff
<1>6. QED
  BY <1>1, <1>2, <1>3, <1>4, <1>5, InvSameClient

LEMMA InvStep == Inv /\ [Next]_vars => Inv'
<1> SUFFICES ASSUME Inv, [Next]_vars PROVE Inv'
  OBVIOUS
<1>0. CASE WriteReturns \/ ChildReadsOn
  BY <1>0, InvWritten DEF WriteReturns, ChildReadsOn, Blocked
<1>1. CASE RoundTrip
  BY <1>0, <1>1, InvReadLine, InvCheckAnswered, InvRerunAnswered, InvSendGetter, InvGetterAnswered, InvFail
     DEF RoundTrip, WriteFails, DeadlinePasses, Disconnected, Writing, Waiting
<1>2. CASE External
  BY <1>0, <1>2, InvChildSolves, InvChildGets, InvChildEchoes, InvChildDies, InvStderrRead DEF External
<1>3. QED
  BY <1>1, <1>2, InvMutate, InvCallCheck, InvCallGetter, InvNothing, InvStutters DEF Next

\* The stages of a round trip, and what has been said in each, whatever the
\* child does.
THEOREM InvAlways == Spec => []Inv
BY InvInit, InvStep, PTL DEF Spec

-----------------------------------------------------------------------------
(* The results *)

\* Without a handle there is no process to leak, nor output of one to misread:
\* shutdown kills, reaps and drops the pipes before the handle goes.
THEOREM NeverAnOrphan == Spec => []NoOrphan
<1>1. Inv => NoOrphan
  BY DEF Inv
<1>2. QED  BY <1>1, InvAlways, PTL

\* Between calls the process has nothing left to read or to say: no line of a
\* round trip reaches another one (transact, recycle).
THEOREM AlwaysInStep == Spec => []InStep
<1>1. Inv => InStep
  BY DEF Inv, InTrip, Quiet, InStep, OnTrip
<1>2. QED  BY <1>1, InvAlways, PTL

\* With a child that reports errors on stdout, a verdict that stands is right
\* about the assertions on the stack (check_sat, classify, LastCheck).
THEOREM VerdictsSound == ErrorStream = "stdout" => (Spec => []VerdictSound)
<1> SUFFICES ASSUME ErrorStream = "stdout" PROVE Spec => []VerdictSound
  OBVIOUS
<1>1. Inv => VerdictSound
  BY TookAll DEF Inv, Stands, VerdictSound
<1>2. QED  BY <1>1, InvAlways, PTL

\* ... and no verdict stands while an assertion the child dropped is there.
THEOREM NoVerdictOnPart == ErrorStream = "stdout" => (Spec => []NoPartialAnswer)
<1> SUFFICES ASSUME ErrorStream = "stdout" PROVE Spec => []NoPartialAnswer
  OBVIOUS
<1>1. Inv => NoPartialAnswer
  BY TookAll DEF Inv, Stands, NoPartialAnswer
<1>2. QED  BY <1>1, InvAlways, PTL

-----------------------------------------------------------------------------
(* What a call returns is what the trait allows *)

LEMMA ClassifiedAs ==
  ASSUME NEW K
  PROVE  Classify(K) \in {"error", "unsupported", "noanswer", "sat", "unsat", "unknown", "timeout"}
<1> DEFINE answers == {"sat", "unsat", "unknown", "timeout"}
           k == CHOOSE x \in K : x \in answers
<1>1. K \cap answers # {} => k \in answers
  OBVIOUS
<1>2. CASE "error" \notin K /\ "unsupported" \notin K /\ K \cap answers # {}
  <2>1. Classify(K) = k
    BY <1>2 DEF Classify
  <2>2. QED  BY <1>1, <1>2, <2>1
<1>3. CASE ~("error" \notin K /\ "unsupported" \notin K /\ K \cap answers # {})
  BY <1>3 DEF Classify
<1>4. QED  BY <1>2, <1>3

LEMMA NothingAllowed ==
  ASSUME NEW op \in {"model", "core"}, ret' = Session!Nothing(op),
         UNCHANGED <<frames, nameSeq, decls, last>>
  PROVE  Session!Next
BY DEF Session!Next, Session!GetModel, Session!GetCore

LEMMA UnknownAllowed ==
  ASSUME NEW reason \in Session!Reasons, last' = "unknown", ret' = Session!Verdict(reason),
         UNCHANGED <<frames, nameSeq, decls>>
  PROVE  Session!Next
BY DEF Session!Next, Session!Check

Lapse == StaleModel \/ LateSat

LEMMA CheckAllowed ==
  ASSUME Inv, CheckAnswered PROVE Session!Next \/ Lapse
<1> DEFINE v == Classify(TakeReply)
<1>1. /\ AtSentinel /\ call.op = "check" /\ UNCHANGED <<frames, nameSeq, decls>>
      /\ ret' = Session!Verdict(v)
      /\ last' = IF v \in {"sat", "unsat"} THEN v ELSE "unknown"
  BY DEF CheckAnswered
<1>2. CASE v \in {"sat", "unsat"}
  <2>1. call.stage = "query"
    BY <1>1 DEF Inv, Applied, AtSentinel, Waiting, OnTrip
  <2>2. /\ Fits /\ v = held.answer /\ ~Skips(Asserted)
        /\ ErrorStream = "stdout" => ~Errors(Asserted)
    BY <1>1, <1>2, <2>1, AnswerFits
  <2>3. Asserted = Session!Asserted
    BY DEF Asserted
  <2>4. v = "sat" => Satisfying(Taken(Asserted)) # {}
    BY <2>2 DEF Fits
  <2>5. v = "unsat" => Session!Satisfying(Session!Asserted) = {}
    <3> SUFFICES ASSUME v = "unsat" PROVE Satisfying(Asserted) = {}
      BY <2>3 DEF Satisfying
    <3>1. Satisfying(Taken(Asserted)) = {}
      BY <2>2 DEF Fits, Satisfying, Session!Satisfying
    <3>2. Taken(Asserted) \subseteq Asserted
      BY DEF Taken
    <3>3. QED  BY <3>1, <3>2, FewerLeaveMore
  <2>6. CASE v = "unsat" \/ ~Errors(Asserted)
    <3>1. v = "sat" => Session!Satisfying(Session!Asserted) # {}
      BY <2>2, <2>3, <2>4, <2>6, TookAll DEF Satisfying
    <3>2. QED
      BY <1>1, <1>2, <2>5, <3>1 DEF Session!Next, Session!Check
  <2>7. CASE v = "sat" /\ Errors(Asserted)
    BY <1>1, <2>2, <2>4, <2>7, ChildAssumption DEF Lapse, LateSat
  <2>8. QED  BY <1>2, <2>6, <2>7
<1>3. CASE v \notin {"sat", "unsat"}
  <2>1. v \in Session!Reasons
    BY <1>3, ClassifiedAs DEF Session!Reasons
  <2>2. QED  BY <1>1, <1>3, <2>1, UnknownAllowed
<1>4. QED  BY <1>2, <1>3

LEMMA GetterAllowed ==
  ASSUME Inv, GetterAnswered PROVE Session!Next \/ Lapse
<1>1. AtSentinel /\ OnTrip /\ call.stage = "getter" /\ UNCHANGED <<frames, nameSeq, decls, last>>
  BY DEF GetterAnswered, AtSentinel, Waiting
<1>2. call.op \in {"model", "core"}
  BY <1>1, CommandIs
<1>3. Heard = reply /\ GetterSaid
  BY <1>1, AllRead DEF Said
<1>4. CASE ret' = Session!Nothing(call.op)
  BY <1>1, <1>2, <1>4, NothingAllowed
<1>5. ASSUME NEW l \in reply, l.kind = "value", ret' = Session!Something(call.op, l.got)
      PROVE  Session!Next \/ Lapse
  <2>1. Allowed(call.op, l.got) \/ Stray(call.op, l.got)
    BY <1>3, <1>5 DEF GetterSaid
  <2>2. ASSUME call.op = "model", NEW p \in Satisfying(Taken(Asserted)), l.got = {p}
        PROVE  Session!Next \/ Lapse
    <3>1. last = "sat" /\ ~Skips(Asserted) /\ (ErrorStream = "stdout" => ~Errors(Asserted))
      BY <2>2 DEF Inv, Applied, Stands
    <3>2. CASE ~Errors(Asserted)
      <4>1. p \in Session!Satisfying(Session!Asserted)
        BY <2>2, <3>1, <3>2, TookAll DEF Satisfying, Asserted
      <4>2. QED
        BY <1>1, <1>5, <2>2, <3>1, <4>1 DEF Session!Next, Session!GetModel
    <3>3. CASE Errors(Asserted)
      BY <1>1, <1>5, <2>2, <3>1, <3>3, ChildAssumption DEF Lapse, LateSat
    <3>4. QED  BY <3>2, <3>3
  <2>3. CASE Stray(call.op, l.got)
    BY <1>1, <1>5, <2>3 DEF Stray, Lapse, StaleModel, Inv, Applied
  <2>4. CASE call.op = "core" /\ Allowed(call.op, l.got)
    <3>1. PICK core \in SUBSET {a.name : a \in Asserted} : Session!Refutes(core) /\ l.got = core \ {0}
      BY <2>4 DEF Allowed
    <3>2. core \in SUBSET {a.name : a \in Session!Asserted} /\ last = "unsat"
      BY <2>4, <3>1 DEF Asserted, Inv, Applied
    <3>3. QED
      BY <1>1, <1>5, <2>4, <3>1, <3>2 DEF Session!Next, Session!GetCore
  <2>5. QED  BY <1>2, <2>1, <2>2, <2>3, <2>4 DEF Allowed
<1>6. QED
  BY <1>4, <1>5 DEF GetterAnswered

LEMMA RerunAllowed ==
  ASSUME Inv, RerunAnswered PROVE Session!Next \/ UNCHANGED client
<1>1. call.op \in {"model", "core"} /\ UNCHANGED <<frames, nameSeq, decls, last>>
  BY DEF RerunAnswered, AtSentinel, Waiting, OnTrip, Busy, Inv, Typed, Calls
<1>2. ret' = ret \/ ret' = Session!Nothing(call.op)
  BY DEF RerunAnswered
<1>3. QED
  BY <1>1, <1>2, NothingAllowed DEF client

LEMMA FailAllowed ==
  ASSUME Inv, OnTrip, NEW reason \in {"timeout", "process"}, Fail(reason) PROVE Session!Next
<1>1. call \in Calls /\ reason \in Session!Reasons
  BY DEF Inv, Typed, OnTrip, Busy, Session!Reasons
<1>2. CASE call.op = "check"
  BY <1>1, <1>2, UnknownAllowed DEF Fail
<1>3. CASE call.op # "check"
  <2>1. call.op \in {"model", "core"}
    BY <1>1, <1>3 DEF Calls
  <2>2. QED  BY <1>3, <2>1, NothingAllowed DEF Fail
<1>4. QED  BY <1>2, <1>3

LEMMA StepAllowed == Inv /\ [Next]_vars => [Session!Next \/ Lapse]_(Session!sessionVars)
<1> SUFFICES ASSUME Inv, [Next]_vars PROVE Session!Next \/ Lapse \/ UNCHANGED client
  BY DEF Session!sessionVars, client
<1>1. CASE RoundTrip
  <2>1. CASE WriteReturns \/ ReadLine \/ SendGetter
    BY <2>1 DEF WriteReturns, Written, ReadLine, SendGetter
  <2>2. CASE WriteFails \/ DeadlinePasses \/ Disconnected
    BY <2>2, FailAllowed DEF WriteFails, DeadlinePasses, Disconnected, Writing, Waiting
  <2>3. QED
    BY <1>1, <2>1, <2>2, CheckAllowed, RerunAllowed, GetterAllowed DEF RoundTrip
<1>2. CASE External
  BY <1>2 DEF External, ChildReadsOn, Written, ChildSolves, ChildGets, ChildEchoes, ChildDies, StderrRead,
              childRest, client
<1>3. CASE Mutate
  BY <1>3 DEF Mutate, Session!Next
<1>4. CASE CallCheck \/ \E op \in {"model", "core"} : CallGetter(op)
  BY <1>4 DEF CallCheck, CallGetter
<1>5. CASE CheckSpawnFails
  BY <1>5, UnknownAllowed DEF CheckSpawnFails, Session!Reasons
<1>6. CASE \E op \in {"model", "core"} : GetterNothing(op)
  BY <1>6, NothingAllowed DEF GetterNothing, ReturnNothing
<1>7. CASE UNCHANGED vars
  BY <1>7 DEF vars
<1>8. QED
  BY <1>1, <1>2, <1>3, <1>4, <1>5, <1>6, <1>7 DEF Next

\* Whatever the child prints and wherever, every step of the backend is one the
\* Solver trait allows for the frames of the moment, or one of two named lapses:
\* a model of a process whose re-run ended unknown (getter), and a sat, or its
\* model, given before the text on stderr was there (take_stderr).
THEOREM BackendLapsesOnly == Spec => LapsesOnly
<1>1. Init => Session!Init
  BY DEF Init
<1>2. Inv /\ [Next]_vars => [Session!Next \/ Lapse]_(Session!sessionVars)
  BY StepAllowed
<1>3. Inv /\ [Next]_vars => [Session!Next \/ StaleModel \/ LateSat]_(Session!sessionVars)
  BY <1>2 DEF Lapse
<1>4. QED
  BY <1>1, <1>3, InvAlways, PTL DEF Spec, LapsesOnly

\* Under two hypotheses on the child, that it reports errors on stdout and has
\* values only after sat, there is no lapse: the backend implements the trait.
THEOREM BackendImplementsTrait ==
  ErrorStream = "stdout" /\ ~Candidates => (Spec => ImplementsSession)
<1> SUFFICES ASSUME ErrorStream = "stdout", ~Candidates PROVE Spec => ImplementsSession
  OBVIOUS
<1>1. Init => Session!Init
  BY DEF Init
<1>2. ~StaleModel /\ ~LateSat
  BY DEF StaleModel, LateSat
<1>3. Inv /\ [Next]_vars => [Session!Next]_(Session!sessionVars)
  BY <1>2, StepAllowed DEF Lapse
<1>4. QED
  BY <1>1, <1>3, InvAlways, PTL DEF Spec, ImplementsSession, Session!Spec
=============================================================================
