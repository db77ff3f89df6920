-------------------------- MODULE FailureSummaryInv --------------------------
(* What must be true of a failure summary, whatever can be read and whatever *)
(* the model answers.                                                        *)
EXTENDS FailureSummary

Names(s) == {s[i].name : i \in DOMAIN s}
Bad(tasks) == {i \in DOMAIN tasks : tasks[i].state \in {"failed", "exception"}}

\* The failed jobs of the two kinds, however they failed, and the failed tasks
\* of the groups that could be listed to the end.
BadJobs ==
  {j \in ToSet(world.jobs) :
     /\ j.kind \in {"Build", "OS Integration Tests"}
     /\ j.conclusion \notin {"success", "cancelled", "skipped"}}
BadTasks == UNION {{world.group[g][i].name : i \in Bad(world.group[g])} : g \in listed}

\* alpha's collect and main: a list that is written has every failed job and
\* every failed task of a listed group and nothing else; "no failed jobs" is
\* said only of an attempt without any.
EveryFailureIsListed ==
  output.list # <<>> \/ output.note = "no failures" =>
    ToSet(output.list) = {j.name : j \in BadJobs} \union BadTasks

\* alpha's main: "AI availability cannot hide failures": what is listed stays,
\* and a summary that ends says something.
ListStands ==
  [][/\ output.list # <<>> => output'.list = output.list
     /\ stage' = "finished" /\ caller = "alpha" =>
          output'.note # "" \/ (output'.list # <<>> /\ output'.rows # <<>>)]_summaryVars

\* The failed tasks of a hardware run.
BadInRuns == UNION {{r} \X Bad(world.runs[r].tasks) : r \in DOMAIN world.runs}

\* build_prompt: the model is told of every failure of the run, by a quotation or
\* by a count.
QuotedOrCounted ==
  prompt # <<>> =>
    /\ prompt.failed = Len(prompt.quoted) + prompt.dropped
    /\ Len(prompt.quoted) <= MaxQuoted /\ (prompt.dropped > 0 => Len(prompt.quoted) = MaxQuoted)
    /\ caller = "hw" => prompt.failed = Cardinality(BadInRuns)

\* The failure lines of a log that repeat none before them.
Distinct(log) ==
  {i \in DOMAIN log : /\ log[i] \in Primary
                      /\ \A k \in 1 .. i - 1 : log[k] \in Primary => Key[log[k]] # Key[log[i]]}

Whole(line, excerpt) == [line |-> line, size |-> Size[line]] \in ToSet(excerpt)

\* MAX_PRIMARY lines that are not longer than this, the heading and the line for
\* those left out fit into an excerpt.
Long(line) == Size[line] > MaxExcerpt \div (MaxPrimary + 2)

\* An excerpt has the first and the last failure of its log.  Only failure lines
\* that are long themselves can push the last one out -- no noise, no repetition,
\* no number of failures does -- and then the excerpt says that it was cut; they
\* do not push out the first one, if that fits at all.
HasBothEnds(log, excerpt) ==
  LET failed == Distinct(log)
      first  == {i \in failed : \A k \in failed : i <= k}
      last   == {i \in failed : \A k \in failed : k <= i}
  IN \/ \A i \in first \union last : Whole(log[i], excerpt)
     \/ /\ excerpt[Len(excerpt)].line = Truncated
        /\ \E line \in {Heading, Omitted} \union {log[i] : i \in failed} : Long(line)
        /\ \A i \in first : Size[Heading] + Size[log[i]] <= MaxExcerpt => Whole(log[i], excerpt)

\* log_excerpt: "the first failure and the last are both worth having".  The cut
\* in characters at the end of it may drop the last of up to MAX_PRIMARY lines.
FirstAndLastAreQuoted ==
  prompt # <<>> =>
    \A i \in DOMAIN prompt.quoted :
      i \in DOMAIN logs => HasBothEnds(logs[i], prompt.quoted[i].excerpt)

SummaryTypeOK ==
  /\ world \in Worlds /\ caller \in Callers
  /\ stage \in {"collect", "jobs", "quote", "list", "ask", "write", "finished"}
  /\ job \in 0 .. Len(world.jobs) /\ groups \in Seq(DOMAIN world.group)
  /\ IsSequence(failures) /\ \A i \in DOMAIN failures : failures[i].kind \in {"job", "task"}
  /\ listed \subseteq DOMAIN world.group
  /\ DOMAIN logs \subseteq DOMAIN failures /\ \A i \in DOMAIN logs : logs[i] \in Logs
  /\ prompt # <<>> => DOMAIN prompt = {"failed", "quoted", "dropped"}
  /\ DOMAIN output = {"list", "note", "rows"}
  /\ output.note \in {"", "unavailable", "no failures", "no analysis"}
  /\ \A n \in DOMAIN output.rows : output.rows[n] \in 0 .. Len(failures)

-----------------------------------------------------------------------------
(* What the promises rest on, step by step                                   *)

\* What the jobs of GitHub's attempts end with.
JobsConclude ==
  \A w \in Worlds : \A j \in ToSet(w.jobs) :
    j.conclusion \in {"success", "failure", "cancelled", "skipped", "timed_out"}

NothingIsFound == stage = "collect" => failures = <<>>

\* Only alpha visits jobs; when it has left them, it has visited all.
OnlyAlphaHasJobs == stage = "jobs" => caller = "alpha"
AllJobsAreSeen ==
  caller = "alpha" /\ stage \notin {"collect", "jobs", "finished"} => job = Len(world.jobs)

\* alpha has found the failed ones of the jobs it visited, and the failed tasks of
\* the groups it listed.
FailedJobs == {i \in 1 .. job : Failing(world.jobs[i])}
FoundSoFar ==
  caller = "alpha" => Names(failures) = {world.jobs[i].name : i \in FailedJobs} \union BadTasks

\* A hardware run's failures are found in one step.
HardwareIsCounted ==
  caller = "hw" /\ stage # "collect" => Len(failures) = Cardinality(BadInRuns)

\* The list is written by alpha, once everything was found, and as it was found;
\* the model is asked only after that.
NothingIsWritten ==
  stage \in {"collect", "jobs", "quote", "list"} \/ caller = "hw" =>
    output.list = <<>> /\ output.note = ""
ListIsWhole ==
  output.list # <<>> \/ output.note = "no failures" =>
    /\ caller = "alpha" /\ stage \in {"ask", "write", "finished"} /\ job = Len(world.jobs)
    /\ output.list = [i \in DOMAIN failures |-> failures[i].name]
ListIsWritten == caller = "alpha" /\ stage \in {"ask", "write"} => output.list # <<>>

\* What was asked stays what would be asked now.
PromptIsBuilt == prompt # <<>> => stage \in {"write", "finished"} /\ prompt = build_prompt

SummaryIInv ==
  /\ SummaryTypeOK /\ NothingIsFound /\ OnlyAlphaHasJobs /\ AllJobsAreSeen /\ FoundSoFar
  /\ HardwareIsCounted /\ NothingIsWritten /\ ListIsWhole /\ ListIsWritten /\ PromptIsBuilt
=============================================================================
