------------------------------ MODULE Quantizer ------------------------------
(***************************************************************************)
(* Quantizer of quantization/quantizer.rs with the report that             *)
(* QuantizationService makes of it.  A job runs a tool on its own model    *)
(* and output.  For GPTQ and AWQ the tool is Python with a script that is  *)
(* written first and removed after, and all jobs of a method write theirs  *)
(* to the same path.  The write, the start and the removal may each fail.  *)
(* A script is identified by the job it was written for; what a tool       *)
(* computes is left out, the tools are external.                           *)
(***************************************************************************)
EXTENDS Integers, FiniteSets

CONSTANTS
  Jobs,       \* jobs, each with a model and an output of its own
  Scripted,   \* methods that run a script: GPTQ and AWQ
  MethodOf    \* MethodOf[j]: the method of j, one of Scripted or another

Gone    == "gone"      \* contents of a script: no file, a file that does nothing,
Empty   == "empty"     \* empty or cut early, or one that Python refuses: cut in
Garbage == "garbage"   \* the middle, or the remains of two scripts
Nothing == "nothing"

QuantizerAssumption ==
  /\ IsFiniteSet(Jobs) /\ DOMAIN MethodOf = Jobs
  /\ Jobs \cap {Gone, Empty, Garbage} = {}

VARIABLES
  script,    \* script[m]: the file at the path of m and what is in it
  step,      \* step[j]: how far quantize is
  opened,    \* opened[j]: the file that j opened to write its script
  running,   \* running[j]: the job whose script the process of j read
  exit,      \* exit[j]: whether the process ended with success
  output,    \* output[j]: what is at the output path of j
  report,    \* report[j]: what the service reports
  crowded,   \* history: jobs whose script another job opened or removed before
             \* their process had read it
  littered   \* history: methods whose last job to end failed to write its script,
             \* to start its process or to remove the script

quantVars == <<script, step, opened, running, exit, output, report, crowded, littered>>

IsScripted(j) == MethodOf[j] \in Scripted

QuantInit ==
  /\ script = [m \in Scripted |-> [file |-> 0, text |-> Gone]]
  /\ step = [j \in Jobs |-> "new"]
  /\ opened = [j \in Jobs |-> 0]
  /\ running = [j \in Jobs |-> Nothing]
  /\ exit = [j \in Jobs |-> FALSE]
  /\ output = [j \in Jobs |-> "none"]
  /\ report = [j \in Jobs |-> "none"]
  /\ crowded = {}
  /\ littered = {}

Goes(j, here, next) == step[j] = here /\ step' = [step EXCEPT ![j] = next]

\* Jobs that are somewhere between the writing and the removal of their script,
\* and those of them whose process has yet to read it.
Using(m) == {j \in Jobs : MethodOf[j] = m /\ step[j] \notin {"new", "report", "done"}}
Unread(m) == {j \in Using(m) : step[j] \in {"fill", "start"}}

-----------------------------------------------------------------------------
\* A job whose method has no script runs its tool at once.
StartTool(j) ==
  /\ ~IsScripted(j)
  /\ Goes(j, "new", "running")
  /\ running' = [running EXCEPT ![j] = j]
  /\ UNCHANGED <<script, opened, exit, output, report, crowded, littered>>

\* std::fs::write creates the script, or empties the one that is there ...
OpenScript(j) ==
  /\ IsScripted(j)
  /\ Goes(j, "new", "fill")
  /\ LET m == MethodOf[j]
         f == IF script[m].text = Gone THEN script[m].file + 1 ELSE script[m].file
     IN  /\ script' = [script EXCEPT ![m] = [file |-> f, text |-> Empty]]
         /\ opened' = [opened EXCEPT ![j] = f]
         /\ crowded' = IF Unread(m) = {} THEN crowded ELSE crowded \cup Unread(m) \cup {j}
  /\ UNCHANGED <<running, exit, output, report, littered>>

\* ... and fills it, unless another job has removed the file since.  Where
\* another job filled it, the end of a longer script may stay.
FillScript(j) ==
  /\ Goes(j, "fill", "start")
  /\ LET m == MethodOf[j]
     IN  IF script[m].text = Gone \/ script[m].file # opened[j]
         THEN UNCHANGED script
         ELSE \E text \in {j} \cup (IF script[m].text = Empty THEN {} ELSE {Garbage}) :
                script' = [script EXCEPT ![m].text = text]
  /\ UNCHANGED <<opened, running, exit, output, report, crowded, littered>>

\* The write fails with a part of the script written, nothing or nearly all: the
\* error is returned at once, and what was written stays.
FillFails(j) ==
  /\ Goes(j, "fill", "report")
  /\ LET m == MethodOf[j]
     IN  /\ IF script[m].text = Gone \/ script[m].file # opened[j]
            THEN UNCHANGED script
            ELSE \E text \in {script[m].text, Garbage, j} :
                   script' = [script EXCEPT ![m].text = text]
         /\ littered' = littered \cup {m}
  /\ exit' = [exit EXCEPT ![j] = FALSE]
  /\ UNCHANGED <<opened, running, output, report, crowded>>

\* Python reads the script: an empty one it executes with success, and what is
\* missing or cannot be parsed ends it with an error.
StartPython(j) ==
  LET text == script[MethodOf[j]].text
  IN  /\ Goes(j, "start", IF text \in Jobs THEN "running" ELSE "exited")
      /\ running' = [running EXCEPT ![j] = text]
      /\ exit' = [exit EXCEPT ![j] = (text = Empty)]
      /\ UNCHANGED <<script, opened, output, report, crowded, littered>>

\* The tool is not found, or cannot be started: the error is returned at once,
\* and a script that was written stays.
SpawnFails(j) ==
  /\ \/ Goes(j, "start", "report") /\ littered' = littered \cup {MethodOf[j]}
     \/ Goes(j, "new", "report") /\ UNCHANGED littered
  /\ exit' = [exit EXCEPT ![j] = FALSE]
  /\ UNCHANGED <<script, opened, running, output, report, crowded>>

\* The tool writes the output its script names.
Write(j) ==
  /\ Goes(j, "running", "writing")
  /\ output' = [output EXCEPT ![running[j]] = "partial"]
  /\ UNCHANGED <<script, opened, running, exit, report, crowded, littered>>

ToolSucceeds(j) ==
  /\ Goes(j, "writing", "exited")
  /\ output' = [output EXCEPT ![running[j]] = "whole"]
  /\ exit' = [exit EXCEPT ![j] = TRUE]
  /\ UNCHANGED <<script, opened, running, report, crowded, littered>>

ToolFails(j) ==
  /\ Goes(j, step[j], "exited") /\ step[j] \in {"running", "writing"}
  /\ exit' = [exit EXCEPT ![j] = FALSE]
  /\ UNCHANGED <<script, opened, running, output, report, crowded, littered>>

\* Fault: the script of a tool that failed is not removed.
RemoveScriptOnSuccess(j) ==
  LET m == MethodOf[j]
  IN  /\ Goes(j, "exited", "report")
      /\ IF IsScripted(j) /\ exit[j]
         THEN \/ /\ script' = [script EXCEPT ![m].text = Gone]
                 /\ crowded' = crowded \cup Unread(m)
                 /\ littered' = littered \ {m}
              \/ UNCHANGED <<script, crowded>> /\ littered' = littered \cup {m}
         ELSE UNCHANGED <<script, crowded, littered>>
      /\ UNCHANGED <<opened, running, exit, output, report>>

\* Whatever is at the path is removed, or the removal fails, which is ignored; the
\* status is looked at after.
RemoveScript(j) ==
  LET m == MethodOf[j]
  IN  /\ Goes(j, "exited", "report")
      /\ IF IsScripted(j)
         THEN \/ /\ script' = [script EXCEPT ![m].text = Gone]
                 /\ crowded' = crowded \cup Unread(m)
                 /\ littered' = littered \ {m}
              \/ UNCHANGED <<script, crowded>> /\ littered' = littered \cup {m}
         ELSE UNCHANGED <<script, crowded, littered>>
      /\ UNCHANGED <<opened, running, exit, output, report>>

\* The size of an output that does not exist is an error.
Report(j) ==
  /\ Goes(j, "report", "done")
  /\ report' = [report EXCEPT ![j] =
       IF ~exit[j] THEN "failed" ELSE IF output[j] = "none" THEN "error" ELSE "success"]
  /\ UNCHANGED <<script, opened, running, exit, output, crowded, littered>>

QuantNext ==
  \E j \in Jobs :
    \/ StartTool(j) \/ OpenScript(j) \/ FillScript(j) \/ FillFails(j)
    \/ StartPython(j) \/ SpawnFails(j) \/ Write(j) \/ ToolSucceeds(j) \/ ToolFails(j)
    \/ RemoveScript(j) \/ Report(j)

QuantSpec == QuantInit /\ [][QuantNext]_quantVars

-----------------------------------------------------------------------------
Texts == Jobs \cup {Gone, Empty, Garbage}

QuantTypeOK ==
  /\ script \in [Scripted -> [file : 0..Cardinality(Jobs), text : Texts]]
  /\ step \in [Jobs -> {"new", "fill", "start", "running", "writing", "exited", "report", "done"}]
  /\ opened \in [Jobs -> 0..Cardinality(Jobs)]
  /\ running \in [Jobs -> Texts \cup {Nothing}]
  /\ exit \in [Jobs -> BOOLEAN]
  /\ output \in [Jobs -> {"none", "partial", "whole"}]
  /\ report \in [Jobs -> {"none", "failed", "error", "success"}]
  /\ crowded \subseteq Jobs
  /\ littered \subseteq Scripted

\* A job that is reported a success has quantized its own model, wholly, unless
\* another job of its method opened or removed the script between its writing and
\* its reading; then the tool may have run for the other or not at all, and the
\* size of an output that the other left behind, also a partial one, is reported.
\* Jobs that only overlap elsewhere do not disturb each other, nor does a script
\* that an earlier job left, whole or in part.
SuccessIsOwn ==
  \A j \in Jobs : report[j] = "success" /\ j \notin crowded =>
    running[j] = j /\ output[j] = "whole"

\* A script outlives the jobs of its method only where the last of them to end
\* failed to write it, to start its process or to remove it; what earlier jobs
\* left, that one has removed, whosever script it was.
ScriptsRemoved ==
  \A m \in Scripted \ littered : Using(m) = {} => script[m].text = Gone

QuantizationSound == SuccessIsOwn /\ ScriptsRemoved
=============================================================================
