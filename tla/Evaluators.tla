------------------------------ MODULE Evaluators ------------------------------
(***************************************************************************)
(* The verdict on a worker that has ended: EvaluatorRegistryV2 and its     *)
(* four evaluators.                                                        *)
(*                                                                         *)
(* A criterion is a record [kind, want]: the prefix of success_criteria    *)
(* ("prose" when there is none of these) and the exit code or the pattern  *)
(* after it.  Output is the set of the patterns that match it.  A command  *)
(* of toolchain: or test_suite: ends as the environment decides; a test    *)
(* suite that exits with zero is still failed by a known failure pattern.  *)
(***************************************************************************)
EXTENDS SequencesExt

CONSTANT PatternKind   \* of each pattern: "good", "nested" quantifiers, "slow", or "broken"

EvaluatorTypes == {"exit_code", "regex", "toolchain", "test_suite"}
CommandEnds == {"refused", "fails", "clean", "suspicious"}

ExitCodePasses(c, code) == code = IF c.kind = "exit_code" THEN c.want ELSE 0

IsRegexSafe(p) == PatternKind[p] \notin {"nested", "slow"}
Usable(p) == PatternKind[p] # "broken" /\ IsRegexSafe(p)

RegexPasses(c, code, output) ==
  CASE c.kind = "regex"      -> Usable(c.want) /\ c.want \in output
    [] c.kind = "regex_fail" -> Usable(c.want) /\ c.want \notin output
    [] OTHER                 -> code = 0

ToolchainPasses(c, command) == c.kind = "toolchain" /\ command \in {"clean", "suspicious"}

TestSuitePasses(c, command) == c.kind = "test_suite" /\ command = "clean"

\* "composite" among the evaluators of a phase is skipped; an unknown type is exit_code.
GetEvaluators(ph) ==
  LET types == IF ph.evaluators # << >> THEN ToSet(ph.evaluators) \ {"composite"} ELSE {ph.evaluator}
  IN {IF t \in EvaluatorTypes THEN t ELSE "exit_code" : t \in types}

\* evaluatePhaseResult: the first evaluator that fails decides.
Passes(ph, code, output, command) ==
  \A t \in GetEvaluators(ph) :
    CASE t = "exit_code"  -> ExitCodePasses(ph.criterion, code)
      [] t = "regex"      -> RegexPasses(ph.criterion, code, output)
      [] t = "toolchain"  -> ToolchainPasses(ph.criterion, command)
      [] t = "test_suite" -> TestSuitePasses(ph.criterion, command)
=============================================================================
