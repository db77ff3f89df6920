-------------------------- MODULE MCFailureSummary --------------------------
EXTENDS FailureSummaryInv, TLC

CONSTANTS a, b, b2, c, d, x, y, z, heading, gap, cut, g1, g2

\* Failures a, b and c, b2 that ends as b does, d that is long; noise x and y,
\* other lines z.  With two failure lines in an excerpt of eight characters a
\* line of up to two is not long.
SizeOf ==
  [l \in {a, b, b2, c, d, x, y, z, heading, gap, cut} |->
     CASE l = d -> 6 [] l \in {b, b2, x} -> 2 [] OTHER -> 1]
KeyOf == [l \in {a, b, b2, c, d, x, y, z} |-> IF l = b2 THEN b ELSE l]
Short == UNION {[1 .. n -> {a, x, z}] : n \in 0 .. 2}
AllLogs == Short \union {<<a, b, c>>, <<z, a, b, c, x, y, x, y, z>>, <<x, a, a, b, y, c, a, x>>,
                         <<b, x, y, x, z, z>>, <<c, b, c, a, c, b2, x>>,
                         <<d, x, b, z>>, <<b2, d, b, z>>, <<d, a, b, b2, d>>, <<a, x, b, d>>}

T(name, state) == [name |-> name, state |-> state]
Run(pool, tasks) == [pool |-> pool, tasks |-> tasks]
J(name, kind, conclusion, of) ==
  [name |-> name, kind |-> kind, conclusion |-> conclusion, pool |-> "win11", groups |-> of]

Groups == g1 :> <<T("t1", "failed"), T("t2", "completed")>>
          @@ g2 :> <<T("t3", "exception"), T("t1", "failed"), T("t4", "running")>>

Hardware(runs) == [runs |-> runs, jobs |-> <<>>, group |-> Groups]
Alpha(jobs) == [runs |-> <<>>, jobs |-> jobs, group |-> Groups]

AllWorlds ==
  {Hardware(<<Run("ref", <<T("t1", "failed"), T("t2", "completed"), T("t3", "exception")>>),
              Run("debug", <<T("t4", "pending"), T("t5", "failed")>>)>>),
   Hardware(<<Run("ref", <<>>), Run("debug", <<T("t5", "exception")>>)>>),
   Hardware(<<Run("ref", <<T("t1", "running")>>)>>),
   Alpha(<<J("b1", "Build", "failure", <<>>), J("o1", "OS Integration Tests", "failure", <<g1, g2>>),
           J("other", "Filter", "failure", <<>>)>>),
   Alpha(<<J("o1", "OS Integration Tests", "timed_out", <<g2>>), J("b1", "Build", "success", <<>>),
           J("o2", "OS Integration Tests", "failure", <<>>)>>),
   Alpha(<<J("b1", "Build", "cancelled", <<>>), J("o1", "OS Integration Tests", "success", <<g1>>)>>)}

\* The jobs of the instance end as GitHub's do.
ASSUME KnownConclusions == JobsConclude
=============================================================================
