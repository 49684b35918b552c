--------------------------- MODULE MCOptimizerTasks ---------------------------
(* Small instances of OptimizerTasks for TLC. *)
EXTENDS OptimizerTasks

CONSTANTS s1, s2, s3, t1, t2, w1, w2

ThreeSubmissions == {s1, s2, s3}
TwoTasks == {t1, t2}
TwoWorkers == {w1, w2}

Problem(work, rules, wish) == [work |-> work, rules |-> rules, wish |-> wish]
Day == Problem("day", "strict", "none")
Loose == Problem("day", "loose", "none")
Wished == Problem("day", "strict", "genetic")
AllProblems == {Day, Loose, Wished}
LooseOnly == {Loose}

\* Two submissions differ only in the algorithm they prefer; the problem of the
\* third differs in its rules, and kills its worker.
OneEach(s) == IF s = s1 THEN Day ELSE IF s = s2 THEN Loose ELSE Wished
=============================================================================
