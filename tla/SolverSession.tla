---------------------------- MODULE SolverSession ----------------------------
(***************************************************************************)
(* What the Solver trait (adl-solver/src/lib.rs) promises its caller, with *)
(* no process behind it: the frames are the state of record, an answer is  *)
(* about the assertions that are on the stack when it is given, Unknown is *)
(* always allowed, and a model or a core belongs to the answer before it.  *)
(*                                                                         *)
(* A formula is the set of points (assignments) that satisfy it.  An       *)
(* assertion on a frame keeps its formula and its internal name, n1, n2... *)
(* or 0 when it was asserted without one.                                  *)
(***************************************************************************)
EXTENDS Integers, Sequences, FiniteSets

CONSTANTS Points,      \* the assignments told apart
          Formulas,    \* the formulas the caller may assert
          Quantities,  \* the solver variables
          MaxFrames,   \* frames on the stack, the base frame included
          MaxNames,    \* named assertions made in one session
          MaxAsserts   \* assertions on the stack

VARIABLES frames,   \* Vec<Frame>, each a set of assertions
          nameSeq,  \* name_seq
          decls,    \* the declared quantities: never undone
          last,     \* LastCheck
          ret       \* what the latest call returned

sessionVars == <<frames, nameSeq, decls, last, ret>>

Assertion == [f : Formulas, name : 0..MaxNames]

Reasons == {"unknown", "timeout", "error", "unsupported", "noanswer", "process"}

\* What a call returns: a SatResult, or an Option with its content.
NoRet == [op |-> "none", verdict |-> "unit", some |-> FALSE, got |-> {}]
Verdict(v) == [NoRet EXCEPT !.op = "check", !.verdict = v]
Nothing(op) == [NoRet EXCEPT !.op = op]
Something(op, s) == [NoRet EXCEPT !.op = op, !.some = TRUE, !.got = s]

\* The assertions on the stack, and the points they leave.
Asserted == UNION {frames[i] : i \in DOMAIN frames}
Satisfying(as) == {p \in Points : \A a \in as : p \in a.f}

-----------------------------------------------------------------------------
Init == /\ frames = <<{}>> /\ nameSeq = 0 /\ decls = {}
        /\ last = "none" /\ ret = NoRet

\* A declaration adds a variable and constrains nothing: the answer stands.
Declare(q) == /\ decls' = decls \cup {q}
              /\ ret' = NoRet
              /\ UNCHANGED <<frames, nameSeq, last>>

Push == /\ Len(frames) < MaxFrames
        /\ frames' = Append(frames, {})
        /\ last' = "none" /\ ret' = NoRet
        /\ UNCHANGED <<nameSeq, decls>>

\* The base frame cannot be popped.
Pop == /\ frames' = IF Len(frames) > 1 THEN SubSeq(frames, 1, Len(frames) - 1)
                    ELSE frames
       /\ last' = "none" /\ ret' = NoRet
       /\ UNCHANGED <<nameSeq, decls>>

\* Every quantity an assertion mentions is declared with it.
Assert(f, named, mentions) ==
  /\ Cardinality(Asserted) < MaxAsserts
  /\ named => nameSeq < MaxNames
  /\ nameSeq' = IF named THEN nameSeq + 1 ELSE nameSeq
  /\ frames' = [frames EXCEPT ![Len(frames)] =
                  @ \cup {[f |-> f, name |-> IF named THEN nameSeq + 1 ELSE 0]}]
  /\ decls' = decls \cup mentions
  /\ last' = "none" /\ ret' = NoRet

\* A verdict is right about the assertions on the stack, or Unknown.
Check == /\ \/ last' = "sat" /\ Satisfying(Asserted) # {} /\ ret' = Verdict("sat")
            \/ last' = "unsat" /\ Satisfying(Asserted) = {} /\ ret' = Verdict("unsat")
            \/ last' = "unknown" /\ \E r \in Reasons : ret' = Verdict(r)
         /\ UNCHANGED <<frames, nameSeq, decls>>

\* A model is a point every assertion accepts, and only a sat check has one.
GetModel ==
  /\ \/ ret' = Nothing("model")
     \/ \E p \in Satisfying(Asserted) : last = "sat" /\ ret' = Something("model", {p})
  /\ UNCHANGED <<frames, nameSeq, decls, last>>

\* The named part of a core refutes, with the unnamed assertions.
Refutes(core) ==
  Satisfying({a \in Asserted : a.name \in core \cup {0}}) = {}
GetCore ==
  /\ \/ ret' = Nothing("core")
     \/ \E core \in SUBSET {a.name : a \in Asserted} :
          last = "unsat" /\ Refutes(core) /\ ret' = Something("core", core \ {0})
  /\ UNCHANGED <<frames, nameSeq, decls, last>>

Mutate == \/ \E q \in Quantities : Declare(q)
          \/ Push \/ Pop
          \/ \E f \in Formulas, named \in BOOLEAN, m \in SUBSET Quantities :
               Assert(f, named, m)

Next == Mutate \/ Check \/ GetModel \/ GetCore

Spec == Init /\ [][Next]_sessionVars
=============================================================================
