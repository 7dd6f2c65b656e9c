-------------------------- MODULE SubprocessSolver --------------------------
(***************************************************************************)
(* SubprocessSolver (adl-solver/src/subprocess.rs): the Solver trait over  *)
(* one persistent SMT-LIB2 child process.                                  *)
(*                                                                         *)
(* Every query is (reset), the whole script, (check-sat); a getter asks    *)
(* the process that still holds the answer.  Each batch ends in an (echo)  *)
(* sentinel.  A reader thread turns the child's stdout into a channel of   *)
(* lines, another appends its stderr to a buffer; both run by themselves.  *)
(* The child is external: it drops the assertions it cannot take and says  *)
(* so, answers the rest correctly or gives up, may be slow, silent, stop   *)
(* reading, or die.  A write blocks while its pipe is full; only reads have *)
(* a deadline.                                                             *)
(***************************************************************************)
EXTENDS Integers, Sequences, FiniteSets

CONSTANTS Points, Formulas, Quantities, MaxFrames, MaxNames, MaxAsserts,
          MaxSync,       \* round trips after which no call begins
          Rejected,      \* formulas the child answers with an (error ...)
          Skipped,       \* formulas it skips with an `unsupported` line
          ErrorStream,   \* where it reports an error: stdout or stderr
          Candidates,    \* it answers get-value after an unknown answer too
          PipeRoom       \* assertions whose script fits the pipe unread

ASSUME FormulasAssumption == Formulas \subseteq SUBSET Points
ASSUME BoundsAssumption ==
  MaxFrames \in Nat \ {0} /\ MaxNames \in Nat /\ MaxSync \in Nat /\ PipeRoom \in Nat
ASSUME ChildAssumption ==
  /\ Rejected \subseteq Formulas /\ Skipped \subseteq Formulas
  /\ ErrorStream \in {"stdout", "stderr"} /\ Candidates \in BOOLEAN

VARIABLES frames, nameSeq, decls, last, ret,   \* as in SolverSession
          call,      \* the call in progress and what it waits for
          syncSeq,   \* sync_seq
          handle,    \* child.is_some()
          alive,     \* the process runs
          stdin,     \* commands written and not yet read by the process
          held,      \* what the process holds since its last (check-sat)
          lines,     \* its stdout, up to the client's receiver
          reply,     \* lines the current round trip has read
          errPipe,   \* error text written to stderr, not yet read
          errBuf     \* error text in the stderr buffer

client == <<frames, nameSeq, decls, last, ret>>
process == <<alive, stdin, held, lines, errPipe>>
vars == <<client, call, syncSeq, handle, process, reply, errBuf>>

Session == INSTANCE SolverSession WITH frames <- frames, nameSeq <- nameSeq, decls <- decls, last <- last, ret <- ret

Asserted == Session!Asserted
Satisfying(as) == Session!Satisfying(as)
NoRet == Session!NoRet

-----------------------------------------------------------------------------
(* Commands and lines *)

\* Mutation: only the top frame is replayed.
TopFrameScript == [decls |-> decls, asserts |-> frames[Len(frames)]]

Script == [decls |-> decls, asserts |-> Asserted]
NoScript == [decls |-> {}, asserts |-> {}]

Query(sc) == [cmd |-> "check-sat", script |-> sc, sync |-> 0]
Getter(g, sc) == [cmd |-> g, script |-> sc, sync |-> 0]
Echo(n) == [cmd |-> "echo", script |-> NoScript, sync |-> n]

Line(kind, got, n) == [kind |-> kind, got |-> got, sync |-> n]
Say(kind) == Line(kind, {}, 0)
Sentinel(n) == Line("sync", {}, n)

NothingHeld == [answer |-> "none", points |-> {}, core |-> {}, decls |-> {}]
Idle == [op |-> "none", stage |-> "idle", written |-> FALSE]
Busy == call # Idle

Kinds == {l.kind : l \in reply}

\* Mutation: the answer line is read before anything else is looked at.
ClassifyAnswerFirst(kinds) ==
  IF kinds \cap {"sat", "unsat", "unknown", "timeout"} # {}
  THEN CHOOSE k \in kinds : k \in {"sat", "unsat", "unknown", "timeout"}
  ELSE IF "error" \in kinds THEN "error" ELSE "noanswer"

\* classify: an error or a skipped command anywhere outweighs the answer line.
Classify(kinds) ==
  CASE "error" \in kinds -> "error"
    [] "error" \notin kinds /\ "unsupported" \in kinds -> "unsupported"
    [] kinds \cap {"error", "unsupported"} = {} /\ kinds \cap {"sat", "unsat", "unknown", "timeout"} # {} ->
         CHOOSE k \in kinds : k \in {"sat", "unsat", "unknown", "timeout"}
    [] OTHER -> "noanswer"

-----------------------------------------------------------------------------
Init ==
  /\ Session!Init
  /\ call = Idle /\ syncSeq = 0 /\ handle = FALSE
  /\ alive = FALSE /\ stdin = <<>> /\ held = NothingHeld
  /\ lines = <<>> /\ reply = {} /\ errPipe = FALSE /\ errBuf = FALSE

\* Mutation: an assertion does not forget the last answer.
AssertKeepsAnswer ==
  /\ ~Busy
  /\ \E f \in Formulas :
       frames' = [frames EXCEPT ![Len(frames)] = @ \cup {[f |-> f, name |-> 0]}]
  /\ decls' = Quantities
  /\ ret' = NoRet
  /\ UNCHANGED <<nameSeq, last, call, syncSeq, handle, process, reply, errBuf>>

\* declare, push, pop, assert touch the client only.
Mutate == /\ ~Busy
          /\ Session!Mutate
          /\ UNCHANGED <<call, syncSeq, handle, process, reply, errBuf>>

\* Mutation: the process is kept after a failed round trip.
RecycleNothing ==
  UNCHANGED <<handle, alive, stdin, lines, held, errPipe, errBuf>>

\* Mutation: the handle is dropped and the process left running.
RecycleHandleOnly ==
  handle' = FALSE /\ UNCHANGED <<alive, stdin, lines, held, errPipe, errBuf>>

\* shutdown: kill, reap, drop the pipes and join the readers.
Recycle == /\ handle' = FALSE /\ alive' = FALSE
           /\ stdin' = <<>> /\ lines' = <<>> /\ held' = NothingHeld
           /\ errPipe' = FALSE /\ errBuf' = FALSE

\* The writing half of transact begins, to the process there is after
\* ensure_live: the batch is the query or getter and its echo.
Send(cmd) ==
  /\ syncSeq' = syncSeq + 1
  /\ reply' = {}
  /\ handle' = TRUE
  /\ alive' = (IF handle THEN alive ELSE TRUE)
  /\ stdin' = IF alive' THEN stdin \o <<cmd, Echo(syncSeq + 1)>> ELSE stdin
  /\ UNCHANGED <<held, lines, errPipe, errBuf>>

\* ensure_live fails: no process, and nothing is sent.
SpawnFails == ~handle /\ UNCHANGED <<call, syncSeq, handle, process, reply, errBuf>>

CallCheck ==
  /\ ~Busy /\ syncSeq < MaxSync
  /\ Send(Query(Script))
  /\ call' = [op |-> "check", stage |-> "query", written |-> FALSE]
  /\ UNCHANGED client

CheckSpawnFails ==
  /\ ~Busy
  /\ SpawnFails
  /\ last' = "unknown" /\ ret' = Session!Verdict("process")
  /\ UNCHANGED <<frames, nameSeq, decls>>

\* model() and unsat_core(): nothing to ask unless the last answer fits.
Applies(op) == IF op = "model" THEN last = "sat" /\ decls # {} ELSE last = "unsat"

\* With a child handle the getter goes straight to it; without one the query
\* is run again first.
CallGetter(op) ==
  /\ ~Busy /\ syncSeq < MaxSync /\ Applies(op)
  /\ IF handle
     THEN /\ Send(Getter(op, Script))
          /\ call' = [op |-> op, stage |-> "getter", written |-> FALSE]
     ELSE /\ Send(Query(Script))
          /\ call' = [op |-> op, stage |-> "query", written |-> FALSE]
  /\ UNCHANGED client

ReturnNothing(op) == ret' = Session!Nothing(op) /\ UNCHANGED <<frames, nameSeq, decls, last>>

GetterNothing(op) ==
  /\ ~Busy
  /\ \/ ~Applies(op) /\ UNCHANGED <<call, syncSeq, handle, process, reply, errBuf>>
     \/ Applies(op) /\ SpawnFails
  /\ ReturnNothing(op)

-----------------------------------------------------------------------------
(* write_all and flush, which have no deadline *)

OnTrip == Busy /\ call.stage \in {"query", "getter"}
Writing == OnTrip /\ ~call.written
Waiting == OnTrip /\ call.written

\* A getter fits the pipe, and so does what is left once the query is read.
FitsPipe(cmd) == cmd.cmd = "check-sat" => Cardinality(cmd.script.asserts) <= PipeRoom

\* A live process has not read enough of the script for the rest to fit.
Blocked == Writing /\ alive /\ stdin # <<>> /\ ~FitsPipe(Head(stdin))

Written == call' = [call EXCEPT !.written = TRUE] /\ UNCHANGED <<client, syncSeq, handle, process, reply, errBuf>>

WriteReturns == Writing /\ ~Blocked /\ Written

-----------------------------------------------------------------------------
(* The reading half of transact *)

\* A line that is not a sentinel joins the reply; another trip's is skipped.
ReadLine ==
  /\ Waiting /\ lines # <<>>
  /\ Head(lines) # Sentinel(syncSeq)
  /\ lines' = Tail(lines)
  /\ reply' = IF Head(lines).kind = "sync" THEN reply ELSE reply \cup {Head(lines)}
  /\ UNCHANGED <<client, call, syncSeq, handle, alive, stdin, held, errPipe, errBuf>>

AtSentinel == Waiting /\ lines # <<>> /\ Head(lines) = Sentinel(syncSeq)

\* take_stderr: the text there by now joins the reply.
TakeReply == Kinds \cup (IF errBuf THEN {"error"} ELSE {})

\* The answer to check(): an unanswered query costs the process its life.
CheckAnswered ==
  /\ AtSentinel /\ call.op = "check"
  /\ LET v == Classify(TakeReply)
     IN  /\ ret' = Session!Verdict(v)
         /\ last' = IF v \in {"sat", "unsat"} THEN v ELSE "unknown"
         /\ IF v = "noanswer" THEN Recycle
            ELSE /\ lines' = Tail(lines) /\ errBuf' = FALSE
                 /\ UNCHANGED <<handle, alive, stdin, held, errPipe>>
  /\ call' = Idle /\ reply' = {}
  /\ UNCHANGED <<frames, nameSeq, decls, syncSeq>>

\* The re-run query of a getter: the same answer again lets the getter go on,
\* any other ends it, and the process stays.
RerunAnswered ==
  /\ AtSentinel /\ call.op # "check" /\ call.stage = "query"
  /\ lines' = Tail(lines) /\ errBuf' = FALSE /\ reply' = {}
  /\ IF Classify(TakeReply) = last
     THEN call' = [call EXCEPT !.stage = "again"] /\ UNCHANGED ret
     ELSE call' = Idle /\ ret' = Session!Nothing(call.op)
  /\ UNCHANGED <<frames, nameSeq, decls, last, syncSeq, handle, alive, stdin, held, errPipe>>

SendGetter ==
  /\ Busy /\ call.stage = "again"
  /\ Send(Getter(call.op, Script))
  /\ call' = [call EXCEPT !.stage = "getter", !.written = FALSE]
  /\ UNCHANGED client

\* The getter's own answer, unless it holds an error.
GetterAnswered ==
  /\ AtSentinel /\ call.stage = "getter"
  /\ IF "error" \notin TakeReply /\ (\E l \in reply : l.kind = "value")
     THEN \E l \in reply : l.kind = "value" /\ ret' = Session!Something(call.op, l.got)
     ELSE ret' = Session!Nothing(call.op)
  /\ lines' = Tail(lines) /\ errBuf' = FALSE /\ reply' = {}
  /\ call' = Idle
  /\ UNCHANGED <<frames, nameSeq, decls, last, syncSeq, handle, alive, stdin, held, errPipe>>

\* A failed round trip: the write fails, the deadline passes, or stdout ends.  The process is
\* recycled; check() answers Unknown, a getter nothing.
Fail(reason) ==
  /\ Recycle
  /\ IF call.op = "check"
     THEN last' = "unknown" /\ ret' = Session!Verdict(reason)
     ELSE UNCHANGED last /\ ret' = Session!Nothing(call.op)
  /\ call' = Idle /\ reply' = {}
  /\ UNCHANGED <<frames, nameSeq, decls, syncSeq>>

\* The pipe of a dead process is broken.
WriteFails == Writing /\ ~alive /\ Fail("process")

\* Mutation: a read waits for as long as the process lives.
DeadlineIgnored == Waiting /\ ~alive /\ Fail("timeout")
DeadlinePasses == Waiting /\ Fail("timeout")
Disconnected == Waiting /\ ~alive /\ lines = <<>> /\ Fail("process")

RoundTrip == \/ WriteReturns \/ WriteFails
             \/ ReadLine \/ CheckAnswered \/ RerunAnswered \/ SendGetter
             \/ GetterAnswered \/ DeadlinePasses \/ Disconnected

-----------------------------------------------------------------------------
(* The child process and the stderr reader (external) *)

childRest == <<client, call, syncSeq, handle, reply, errBuf>>

\* What it holds after solving the assertions it accepted.
Solved(as) ==
  IF Satisfying(as) # {}
  THEN {[answer |-> "sat", points |-> {p}, core |-> {}] : p \in Satisfying(as)}
  ELSE {[answer |-> "unsat", points |-> {}, core |-> c] :
          c \in {n \in SUBSET {a.name : a \in as} :
                   Satisfying({a \in as : a.name \in n \cup {0}}) = {}}}
Undecided(answer) == {[answer |-> answer, points |-> Points, core |-> {}]}

\* It drops what it cannot take, with a notice, goes on with the rest, and
\* answers that or gives up on it.
Taken(as) == {a \in as : a.f \notin Rejected \cup Skipped}
Errors(as) == \E a \in as : a.f \in Rejected
Skips(as) == \E a \in as : a.f \in Skipped

Says(cond, kind) == IF cond THEN <<Say(kind)>> ELSE <<>>

\* It reads on into a script that does not fit, until the write returns.
ChildReadsOn == Blocked /\ Written

ChildSolves ==
  /\ alive /\ stdin # <<>> /\ Head(stdin).cmd = "check-sat"
  /\ LET sc == Head(stdin).script IN
     /\ \E h \in Solved(Taken(sc.asserts)) \cup Undecided("unknown")
                   \cup Undecided("timeout") \cup Undecided("silent") :
          /\ held' = [answer |-> h.answer, points |-> h.points,
                      core |-> h.core, decls |-> sc.decls]
          /\ lines' = lines
               \o Says(Errors(sc.asserts) /\ ErrorStream = "stdout", "error")
               \o Says(Skips(sc.asserts), "unsupported")
               \o Says(h.answer # "silent", h.answer)
     /\ errPipe' = (errPipe \/ (Errors(sc.asserts) /\ ErrorStream = "stderr"))
  /\ stdin' = Tail(stdin)
  /\ UNCHANGED <<alive, childRest>>

\* It can value the constants it has seen declared, in the state it is in.
CanAnswer(g) ==
  IF g.cmd = "model"
  THEN /\ g.script.decls \subseteq held.decls
       /\ held.answer = "sat" \/ (Candidates /\ held.answer = "unknown")
  ELSE held.answer = "unsat"

ChildGets ==
  /\ alive /\ stdin # <<>> /\ Head(stdin).cmd \in {"model", "core"}
  /\ \/ /\ CanAnswer(Head(stdin))
        /\ IF Head(stdin).cmd = "model"
           THEN \E p \in held.points : lines' = Append(lines, Line("value", {p}, 0))
           ELSE lines' = Append(lines, Line("value", held.core \ {0}, 0))
     \/ ~CanAnswer(Head(stdin)) /\ lines' = Append(lines, Say("error"))
  /\ stdin' = Tail(stdin)
  /\ UNCHANGED <<alive, held, errPipe, childRest>>

ChildEchoes ==
  /\ alive /\ stdin # <<>> /\ Head(stdin).cmd = "echo"
  /\ lines' = Append(lines, Sentinel(Head(stdin).sync))
  /\ stdin' = Tail(stdin)
  /\ UNCHANGED <<alive, held, errPipe, childRest>>

ChildDies ==
  /\ alive
  /\ alive' = FALSE /\ stdin' = <<>>
  /\ UNCHANGED <<held, lines, errPipe, childRest>>

\* The stderr reader thread catches up.
StderrRead ==
  /\ errPipe
  /\ errPipe' = FALSE /\ errBuf' = TRUE
  /\ UNCHANGED <<client, call, syncSeq, handle, alive, stdin, held, lines, reply>>

External == ChildReadsOn \/ ChildSolves \/ ChildGets \/ ChildEchoes \/ ChildDies \/ StderrRead

Next == \/ Mutate \/ CallCheck \/ CheckSpawnFails
        \/ \E op \in {"model", "core"} : CallGetter(op) \/ GetterNothing(op)
        \/ RoundTrip \/ External

Spec == Init /\ [][Next]_vars

\* The calling thread runs on and its deadlines expire; nothing is assumed of
\* the child, which may never read another byte, or of the stderr reader.
FairSpec == Spec /\ WF_vars(RoundTrip)

-----------------------------------------------------------------------------
(* Properties *)

\* While a verdict stands it is right about the assertions on the stack:
\* nothing that could falsify it happens without forgetting it, and no reply
\* to another script is taken for it.
VerdictSound ==
  /\ last = "sat" => Satisfying(Asserted) # {}
  /\ last = "unsat" => Satisfying(Asserted) = {}

\* subprocess.rs:27 any error or unsupported makes the check Unknown, and it
\* is sticky: no verdict stands while an assertion the child cannot take is
\* on the stack, whichever check asked and whatever process answered.
NoPartialAnswer ==
  last \in {"sat", "unsat"} => Taken(Asserted) = Asserted

\* Between calls the reply stream and the commands are in step: a process the
\* client keeps has nothing left to read and nothing left to say, so no line
\* of a round trip ever reaches another one (the failures recycle).
InStep == ~Busy => stdin = <<>> /\ lines = <<>> /\ reply = {}

\* The process owed by a handle is the one that was spawned for it: without a
\* handle there is no process to leak, nor output of one to misread.
NoOrphan == ~handle => ~alive /\ stdin = <<>> /\ lines = <<>> /\ ~errPipe /\ ~errBuf

\* A call that is not blocked in its write returns, whatever the child does: the deadline
\* "bounds every read" (subprocess.rs:42-45), and no getter is large enough to block.  The
\* write has no deadline: while the child does not read, a long script keeps the call.
ReturnsUnlessBlocked == (Busy /\ ~Blocked) ~> ~Busy

\* The backend keeps the trait's promise: verdicts, models and cores are those
\* SolverSession allows for the frames of the moment.
ImplementsSession == Session!Spec

\* A re-run query that was answered otherwise leaves its process to the next
\* model(), and a child that values constants after unknown serves it.
StaleModel ==
  /\ call.op = "model" /\ call.stage = "getter" /\ last = "sat"
  /\ Candidates /\ held.answer = "unknown"
  /\ \E p \in Points : ret' = Session!Something("model", {p})
  /\ UNCHANGED <<frames, nameSeq, decls, last>>

\* The text about a refused assertion came to the buffer after take_stderr: sat,
\* and a model, are right about the assertions that were taken, not about all.
LateSat ==
  /\ ErrorStream = "stderr" /\ Errors(Asserted)
  /\ last' = "sat" /\ Satisfying(Taken(Asserted)) # {}
  /\ \/ call.op = "check" /\ ret' = Session!Verdict("sat")
     \/ /\ call.op = "model" /\ last = "sat"
        /\ \E p \in Satisfying(Taken(Asserted)) : ret' = Session!Something("model", {p})
  /\ UNCHANGED <<frames, nameSeq, decls>>

\* Whatever the child, the backend breaks the trait's promise in these two ways
\* and in no other: an unsat and a core are always right, a sat and a model are
\* unless the child reports on stderr, or has values after unknown.
LapsesOnly ==
  Session!Init /\ [][Session!Next \/ StaleModel \/ LateSat]_(Session!sessionVars)
=============================================================================
