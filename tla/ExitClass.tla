----------------------------- MODULE ExitClass -----------------------------
(***************************************************************************)
(* The exit classes of the plan/apply workflow and their precedence         *)
(* (plan.go:72-117).                                                        *)
(***************************************************************************)
EXTENDS Integers

Classes == {"ok", "failed", "usage", "needs_fresh_plan", "uncertain"}

ExitRank(class) ==
    CASE class = "usage" -> 4
      [] class = "failed" -> 3
      [] class = "uncertain" -> 2
      [] class = "needs_fresh_plan" -> 1
      [] class = "ok" -> 0

WorseExit(a, b) == IF ExitRank(b) > ExitRank(a) THEN b ELSE a

\* What a loop "code = worseExit(code, x)" that starts from ok ends with, in
\* whatever order it meets the classes of S.
WorstOf(S) ==
    CHOOSE a \in S \cup {"ok"} : \A b \in S \cup {"ok"} : WorseExit(a, b) = a
=============================================================================
