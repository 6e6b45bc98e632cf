--------------------------- MODULE MCPublication ---------------------------
(* Instances of Publication: reports of a review of the paths p and q.     *)
EXTENDS Publication, TLC

Raw(path, kind, snippet, key, severity) ==
  [path |-> path, kind |-> kind, old_line |-> kind = "old",
   new_line |-> kind # "old", snippet |-> snippet, key |-> key,
   symbol |-> "", severity |-> severity, confidence |-> 1]

Result(st, fs) == [status |-> st, findings |-> fs, reviewed |-> {"p", "q"},
                   deleted |-> {}]

WorkerSymmetry == {f \in Permutations(Workers) : TRUE}

MCThreshold == [confidence |-> 0, severity |-> "low"]

A == Raw("p", "new", "s1", "k1", "high")
ANamed == [A EXCEPT !.symbol = "f"]
AMoved == Raw("p", "new", "s2", "k1", "high")
AContext == Raw("p", "context", "s1", "k1", "high")
B == Raw("q", "new", "s1", "k2", "low")
Nit == Raw("p", "new", "s3", "k3", "nit")
Gone == Raw("p", "old", "s4", "k4", "high")

\* The second review finds the same, finds it moved, finds other things, or
\* its answer cannot be read.
MCReports ==
  <<{Result("ok", <<A>>), Result("ok", <<B>>)},
    {Result("ok", <<A>>), Result("ok", <<AMoved, AContext>>),
     Result("ok", <<ANamed, AMoved>>),
     Result("ok", <<Nit, Gone, Nit>>),
     [Result("parser_error", <<>>) EXCEPT !.reviewed = {"q"}]}>>

MCShortReports == {Result("ok", <<A>>)}
=============================================================================
