----------------------------- MODULE RunPhases -----------------------------
(***************************************************************************)
(* The control of `smash2 run' (adl-cli/src/cmd/run.rs), from the command    *)
(* line to the output directory: the front end, the identification of the    *)
(* input, the event loop, the report and the output files, one after another *)
(* and in place.  What an ingest, an accumulator or an output file holds is  *)
(* a parameter here; RunCommand gives it.                                    *)
(*                                                                           *)
(* The loop is the one of OrderedRun: what a fold adds to the tallies is the  *)
(* partial of its chunk.  Around the command the event file may be replaced   *)
(* once, any write may fail, and the process may be killed.  A loop that      *)
(* reads a file it opened goes on reading that file.                          *)
(***************************************************************************)
EXTENDS EventLoad

CONSTANTS Programs,   \* what analyze_str makes of the ADL files considered
          Inputs,     \* command lines: [adl, profile, json, dir, csv, svg, root, flat]
          Contents,   \* event files: missing, lines of text, or a ROOT tree
          Arrivals,   \* those that may take the name of the input while the command runs
          ChunkEvents

CONSTANTS IngestTree(_, _),     \* the ingest of a ROOT file under a profile: [ok, v]
          Passes(_, _),       \* does the first region of a program accept an event
          HasHistos(_), HasCutflow(_),
          NoTally(_),         \* the empty accumulators of a program
          MergePartial(_, _, _),     \* a program's accumulators after a chunk of events
          HistNamesOf(_),       \* the names of a program's histograms
          BodyOf(_, _, _)       \* what is written to a file, of all the run has counted

VARIABLES input,      \* the command line
          content,    \* the event file as it is now
          replaced,   \* it has been replaced since the command started
          hir,        \* the resolved program
          sha,        \* the hash taken of the input: the content hashed
          noted,      \* the diagnostics of the ingest
          lines,      \* what the loop reads, each line as the loader sees it
          kinds,      \* the same lines as OrderedRun tells them apart
          acc, out, passed, outcome,    \* the loop
          tally,      \* the merged accumulators
          printed,    \* the sections of the summary
          disk,       \* the output directory: what each name holds
          plan,       \* the files to write, in order
          written,    \* entries of the plan completed
          phase, exit

loop == <<kinds, acc, out, passed, outcome>>
vars == <<input, content, replaced, hir, sha, noted, lines, loop, tally, printed, disk, plan, written, phase, exit>>

Loop == INSTANCE OrderedRun WITH file <- kinds, Files <- {}

NoProgram == [regions |-> <<>>, lists |-> {}, names |-> <<>>, errors |-> FALSE]

(***************************************************************************)
(* The events.                                                              *)
(***************************************************************************)
\* A line is blank, unreadable, or text: an event, or one the loader refuses.
Parsed(e) == IF e = <<>> THEN [is |-> "bad"] ELSE [is |-> "event", ev |-> e[1]]
Loaded(text) == [n \in DOMAIN text |-> IF text[n].is = "text" THEN Parsed(Load(text[n].rec)) ELSE text[n]]

\* The lines of a file under a profile: of its text, or of the ingest.
AsText(ls) == [n \in DOMAIN ls |-> [is |-> "text", rec |-> ls[n]]]
Text(c, profile) == IF profile # "none" THEN AsText(IngestTree(c, profile).v.lines)
                    ELSE IF c.form = "root" THEN <<[is |-> "bad"]>> ELSE c.lines
Lines(c, profile) == Loaded(Text(c, profile))

\* There is something to read: the file is there, and the ingest takes it.
Opens(c, profile) == /\ c.form # "missing"
                     /\ profile # "none" => c.form = "root" /\ IngestTree(c, profile).ok

\* OrderedRun tells lines apart by the first region's verdict.
Kind(l) == IF l.is # "event" THEN l.is ELSE IF Passes(hir, l.ev) THEN "pass" ELSE "fail"

\* The events of chunk k, in order.
ChunkOf(k) == LET at == SelectSeq([i \in 1..Len(kinds) |-> i], LAMBDA i : i \in Loop!ChunkLines(kinds, k))
              IN  [n \in DOMAIN at |-> lines[at[n]].ev]

\* The files in the order they are written, then with what is written.
Item(name, what, n) == [name |-> name, what |-> what, of |-> n]
One(name) == << Item(name, name, 0) >>
PerHist(suffix) == LET names == HistNamesOf(hir)
                   IN  [n \in DOMAIN names |-> Item(names[n] \o suffix, suffix, n)]
When(wanted, files) == IF wanted THEN files ELSE <<>>
Listed == One("histos.json") \o When(HasCutflow(hir), One("cutflow.json"))
          \o One("make_histos.C") \o One("to_root.py") \o When(input.root, One("out.root"))
          \o When(input.csv, PerHist(".csv")) \o When(input.svg, PerHist(".svg"))

Counted == [input |-> input, hir |-> hir, sha |-> sha, events |-> Len(out), tally |-> tally]
File(f) == [name |-> f.name, body |-> BodyOf(f.what, f.of, Counted)]
FilesToWrite == [k \in DOMAIN Listed |-> File(Listed[k])]

\* What a name of the directory holds: nothing, a file of an earlier run, a torn
\* file, or the whole body of a plan entry.
State(what, n) == [is |-> what, of |-> n]
Holds(name) == IF name \in DOMAIN disk THEN disk[name] ELSE State("absent", 0)
Put(name, what) == [m \in DOMAIN disk \cup {name} |-> IF m = name THEN what ELSE disk[m]]
-----------------------------------------------------------------------------
(* What is taken of the parameters. *)

ASSUME ChunkEventsAssumption == ChunkEvents \in Nat \ {0}

\* What is read is lists of lines, and a text is a JSON record.
IsText(ls) == IsList(ls) /\ \A n \in DOMAIN ls : /\ ls[n].is \in {"text", "blank", "bad", "ioerr"}
                                                 /\ ls[n].is = "text" => IsRecord(ls[n].rec)
ASSUME TextAssumption ==
    \A i \in Inputs, c \in Contents \cup Arrivals :
        i.profile # "unknown" /\ Opens(c, i.profile) => IsText(Text(c, i.profile))

ASSUME NamesAssumption == \A adl \in DOMAIN Programs : HistNamesOf(Programs[adl]) \in Seq(STRING)
-----------------------------------------------------------------------------
Init ==
  /\ input \in Inputs
  /\ content \in Contents
  /\ disk \in {<<>>, [m \in {"histos.json", "cutflow.json", "out.root"} |-> State("old", 0)]}
  /\ replaced = FALSE /\ hir = NoProgram /\ sha = <<>> /\ noted = <<>> /\ lines = <<>>
  /\ kinds = <<>> /\ acc = <<>> /\ out = <<>> /\ passed = 0 /\ outcome = Loop!Running
  /\ tally = <<>> /\ printed = {} /\ plan = <<>> /\ written = 0
  /\ phase = "start" /\ exit = "none"

Leave(code) == phase' = "exited" /\ exit' = code

\* read_file and analyze_str.
Analyze ==
  /\ phase = "start"
  /\ IF input.adl \notin DOMAIN Programs
     THEN Leave("2") /\ UNCHANGED hir
     ELSE /\ hir' = Programs[input.adl]
          /\ IF hir'.errors THEN Leave("1") ELSE phase' = "identify" /\ UNCHANGED exit
  /\ UNCHANGED <<input, content, replaced, sha, noted, lines, loop, tally, printed, disk, plan, written>>

\* The input is hashed: the raw ROOT bytes under a profile, else the JSONL file.
Identify ==
  /\ phase = "identify"
  /\ IF input.profile = "unknown" THEN Leave("2") /\ UNCHANGED sha
     ELSE IF content.form = "missing"
     THEN Leave(IF input.profile = "none" THEN "1" ELSE "2") /\ UNCHANGED sha
     ELSE sha' = <<content>> /\ phase' = "open" /\ UNCHANGED exit
  /\ UNCHANGED <<input, content, replaced, hir, noted, lines, loop, tally, printed, disk, plan, written>>

\* The file is opened again: by the ingest, which reads it whole, or by the loop.
Open ==
  /\ phase = "open"
  /\ IF ~Opens(content, input.profile)
     THEN Leave("1") /\ UNCHANGED <<noted, lines, kinds, tally>>
     ELSE /\ lines' = Lines(content, input.profile)
          /\ noted' = IF input.profile = "none" THEN <<>> ELSE <<IngestTree(content, input.profile).v.diags>>
          /\ kinds' = [i \in DOMAIN lines' |-> Kind(lines'[i])]
          /\ tally' = NoTally(hir)
          /\ phase' = "loop" /\ UNCHANGED exit
  /\ UNCHANGED <<input, content, replaced, hir, sha, acc, out, passed, outcome, printed, disk, plan, written>>

\* The next chunk is merged: the partial of its events into the master tallies.
Fold ==
  /\ phase = "loop"
  /\ Loop!FoldChunk
  /\ tally' = MergePartial(hir, tally, ChunkOf(Len(acc)))
  /\ UNCHANGED <<input, content, replaced, hir, sha, noted, lines, printed, disk, plan, written, phase, exit>>

\* Mutant: an error of the loop is reported and forgotten.
FinishAnyway ==
  /\ phase = "loop"
  /\ Loop!Finish
  /\ phase' = "report" /\ UNCHANGED exit
  /\ UNCHANGED <<input, content, replaced, hir, sha, noted, lines, tally, printed, disk, plan, written>>

\* The loop returns; on an error what was printed is flushed and nothing is written.
Finish ==
  /\ phase = "loop"
  /\ Loop!Finish
  /\ IF outcome' = Loop!Done THEN phase' = "report" /\ UNCHANGED exit ELSE Leave("1")
  /\ UNCHANGED <<input, content, replaced, hir, sha, noted, lines, tally, printed, disk, plan, written>>

\* The summary on stdout, whose write errors are ignored.
Report ==
  /\ phase = "report"
  /\ printed' = {p \in {"histograms", "cutflow"} : IF p = "cutflow" THEN HasCutflow(hir)
                                                   ELSE input.json /\ HasHistos(hir)}
  /\ IF input.dir THEN plan' = FilesToWrite /\ phase' = "mkdir" /\ UNCHANGED exit
                  ELSE Leave("0") /\ UNCHANGED plan
  /\ UNCHANGED <<input, content, replaced, hir, sha, noted, lines, loop, tally, disk, written>>

MakeDir ==
  /\ phase = "mkdir"
  /\ phase' = "write"
  /\ UNCHANGED <<input, content, replaced, hir, sha, noted, lines, loop, tally, printed, disk, plan, written, exit>>

\* fs::write creates or truncates the file, then writes it.  An image the small
\* format cannot hold fails before that.
Truncate ==
  /\ phase = "write" /\ written < Len(plan)
  /\ LET e == plan[written + 1]
     IN  IF e.name = "out.root" /\ e.body = <<>>
         THEN Leave("2") /\ UNCHANGED disk
         ELSE disk' = Put(e.name, State("torn", 0)) /\ phase' = "writing" /\ UNCHANGED exit
  /\ UNCHANGED <<input, content, replaced, hir, sha, noted, lines, loop, tally, printed, plan, written>>

Complete ==
  /\ phase = "writing"
  /\ disk' = Put(plan[written + 1].name, State("whole", written + 1))
  /\ written' = written + 1
  /\ phase' = "write"
  /\ UNCHANGED <<input, content, replaced, hir, sha, noted, lines, loop, tally, printed, plan, exit>>

\* Any of these calls may fail: the files before it stay.
WriteFails ==
  /\ phase \in {"mkdir", "write", "writing"}
  /\ phase = "write" => written < Len(plan)
  /\ Leave("2")
  /\ UNCHANGED <<input, content, replaced, hir, sha, noted, lines, loop, tally, printed, disk, plan, written>>

Success ==
  /\ phase = "write" /\ written = Len(plan)
  /\ Leave("0")
  /\ UNCHANGED <<input, content, replaced, hir, sha, noted, lines, loop, tally, printed, disk, plan, written>>

Command == Analyze \/ Identify \/ Open \/ Fold \/ Finish \/ Report \/ MakeDir \/ Truncate \/ Complete \/ Success

-----------------------------------------------------------------------------
(* The surroundings. *)

\* Another event file takes the name.
Replace ==
  /\ phase \in {"start", "identify", "open"} /\ ~replaced
  /\ content' \in Arrivals \ {content}
  /\ replaced' = TRUE
  /\ UNCHANGED <<input, hir, sha, noted, lines, loop, tally, printed, disk, plan, written, phase, exit>>

Kill ==
  /\ phase # "exited"
  /\ Leave("killed")
  /\ UNCHANGED <<input, content, replaced, hir, sha, noted, lines, loop, tally, printed, disk, plan, written>>

Next == Command \/ WriteFails \/ Replace \/ Kill

Spec == Init /\ [][Next]_vars

-----------------------------------------------------------------------------
(* Properties. *)

\* What the loader accepts is in the domain the axioms assume of every event (event.rs):
\* NNEG and TAG hold of it, a pt is no larger than any before it in its collection,
\* however many objects without one lie between; and no two keys of the line became one.
LoadedIsLegal ==
    \A n \in DOMAIN lines :
        lines[n].is = "event" => Legal(Text(content, input.profile)[n].rec, lines[n].ev)

\* The entry being written, if any.
Begun == IF phase = "writing" \/ exit \in {"2", "killed"} THEN {written + 1} ELSE {}

\* What the run has touched in the directory.
Changed == {m \in DOMAIN disk : disk[m].is # "old"}

\* After exit 0 every file of the plan is there, whole, and is the one written for that
\* entry: one CSV and one SVG per histogram (run.rs:59-62, write_histo_outputs).
OwnFiles == exit = "0" /\ input.dir =>
              \A k \in DOMAIN plan : Holds(plan[k].name) = State("whole", k)

\* What the directory tells of the run (write_histo_outputs).  Until every event of the
\* file is counted nothing in it changes; then the files are replaced in the order of
\* the plan, so at any kill or failure those before the one being written are whole, each
\* the one written for its entry, and no other is touched; after exit 0 all of them are.
OutputTells ==
    /\ Changed # {} => /\ outcome = Loop!Done
                       /\ out = [n \in 1..Cardinality(Loop!EventLines(kinds)) |-> n - 1]
                       /\ "ioerr" \notin {kinds[i] : i \in DOMAIN kinds}
    /\ phase \in {"write", "writing", "exited"} =>
         /\ Changed \subseteq {plan[k].name : k \in DOMAIN plan \cap (1..written \cup Begun)}
         /\ \A k \in 1..written : Holds(plan[k].name) = State("whole", k)
    /\ OwnFiles
    /\ exit \in {"0", "1"} => (exit = "0" <=> outcome = Loop!Done)

\* The hash in the files is of the events counted in them (provenance.rs:4-7).
HashTells ==
    Changed # {} => Opens(sha[1], input.profile) /\ Lines(sha[1], input.profile) = lines

\* After exit 0 the cutflow.json beside the new histos.json is not one of an earlier
\* run (run.rs:25-26).
CutflowTells == exit = "0" /\ input.dir => Holds("cutflow.json").is # "old"

\* No two files of the plan share a name.
NamesDiffer == \A j, k \in DOMAIN plan : plan[j].name = plan[k].name => j = k
=============================================================================
