--------------------------- MODULE FailureSummary ---------------------------
(* ci/failure_summary.py and its second caller ci/alpha_failure_summary.py:  *)
(* the failures of a hardware run, or of the jobs of an Azure alpha run and  *)
(* of the task groups named in their logs, are collected, the first of them  *)
(* are quoted from their logs, a model is asked why, and what it says is     *)
(* written below the list.  A log is the sequence of its lines; of a line's  *)
(* text there are its size, for the limits in characters, and the end of it  *)
(* by which repetitions are told.                                            *)
EXTENDS Integers, FiniteSets, Sequences, SequencesExt

CONSTANTS
  Callers,      \* "hw", "alpha"
  Worlds,       \* the runs' tasks, the alpha jobs and the groups in their logs
  Logs,         \* the logs that can be read
  Primary,      \* the lines with a PRIMARY marker
  Secondary,    \* those with only a SECONDARY one
  Size,         \* Size[line]: its characters, with the one that ends it
  Key,          \* Key[line]: its last 200 characters
  Heading,      \* the line before each section of an excerpt
  Omitted,      \* the line that stands for those left out
  Truncated,    \* the line at the end of an excerpt that was cut
  MaxQuoted,    \* MAX_TASKS_QUOTED
  MaxPrimary,   \* MAX_PRIMARY
  MaxSecondary, \* MAX_SECONDARY
  HeadChars,    \* LOG_HEAD_CHARS
  TailChars,    \* LOG_TAIL_CHARS
  MaxExcerpt    \* MAX_EXCERPT_CHARS

IsSequence(s) == s \in Seq(ToSet(s))

ASSUME FailureSummaryAssumption ==
  /\ \A w \in Worlds :
       /\ IsSequence(w.runs) /\ \A r \in ToSet(w.runs) : IsSequence(r.tasks)
       /\ IsSequence(w.jobs) /\ \A j \in ToSet(w.jobs) : j.groups \in Seq(DOMAIN w.group)
       /\ \A g \in DOMAIN w.group : IsSequence(w.group[g])
  /\ \A log \in Logs : IsSequence(log)
  /\ \A line \in {Heading, Omitted, Truncated} \union UNION {ToSet(log) : log \in Logs} :
       Size[line] \in Nat \ {0}
  /\ Callers \subseteq {"hw", "alpha"}
  /\ Primary \intersect Secondary = {}
  /\ {MaxQuoted, MaxPrimary, MaxSecondary, HeadChars, TailChars, MaxExcerpt} \subseteq Nat \ {0}
  /\ MaxPrimary > 1

VARIABLES
  world,    \* what failed, fixed when the script starts
  caller,   \* who asks
  stage,    \* where it is
  job,      \* alpha: the jobs visited
  groups,   \* alpha: the groups the current job's log names and still to list
  failures, \* the failures found
  listed,   \* history: the groups that were listed to the end
  logs,     \* the logs read, by position in failures
  prompt,   \* what the model is asked, <<>> before
  output    \* what the summary holds

summaryVars == <<world, caller, stage, job, groups, failures, listed, logs, prompt, output>>

-----------------------------------------------------------------------------
(* The excerpt of a log                                                      *)

\* The n-th number of S, and the elements of s at the positions S, in order.
Nth(S, n) == CHOOSE i \in S : Cardinality({k \in S : k < i}) = n - 1
Taken(s, S) == [n \in 1 .. Cardinality(S) |-> s[Nth(S, n)]]

\* The positions at which a line does not repeat an earlier one.
New(lines) == {i \in DOMAIN lines : \A k \in 1 .. i - 1 : Key[lines[k]] # Key[lines[i]]}
dedupe(lines) == Taken(lines, New(lines))
Matching(log, markers) == Taken(log, {i \in DOMAIN log : log[i] \in markers})

Trailing(s, n) == SubSeq(s, Len(s) - (IF n < Len(s) THEN n ELSE Len(s)) + 1, Len(s))
Leading(s, n) == SubSeq(s, 1, IF n < Len(s) THEN n ELSE Len(s))

\* Both ends of an over-long list.
window(lines, limit) ==
  IF Len(lines) <= limit THEN lines
  ELSE Leading(lines, limit \div 2) \o <<Omitted>> \o Trailing(lines, limit \div 2)

\* A text is a sequence of lines, each with as much of it as the text has.
Text(lines) == [i \in DOMAIN lines |-> [line |-> lines[i], size |-> Size[lines[i]]]]

\* The characters of the first n of them.
Upto(text, n) == Cardinality(UNION {{i} \X (1 .. text[i].size) : i \in 1 .. n})
Chars(text) == Upto(text, Len(text))

\* The characters between two positions of a text.
Slice(text, from, to) ==
  LET part == [i \in DOMAIN text |->
        [text[i] EXCEPT !.size = (IF Upto(text, i) < to THEN Upto(text, i) ELSE to)
                                 - (IF Upto(text, i - 1) > from THEN Upto(text, i - 1) ELSE from)]]
  IN Taken(part, {i \in DOMAIN text : part[i].size > 0})

Section(lines) == IF lines = <<>> THEN <<>> ELSE Text(<<Heading>> \o lines)

\* Mutant: the last of all the lines that match.
LastMatches(log) ==
  Slice(Section(Trailing(Matching(log, Primary \union Secondary), MaxPrimary)) \o Text(log),
        0, MaxExcerpt)

\* The primary lines, then the last secondary ones, then head and tail of the
\* log; what is too long is cut at its end, and says so.
log_excerpt(log) ==
  LET primary == Section(window(dedupe(Matching(log, Primary)), MaxPrimary))
      others  == Section(Trailing(dedupe(Matching(log, Secondary)), MaxSecondary))
      head    == Text(<<Heading>>) \o Slice(Text(log), 0, HeadChars)
      tail    == Text(<<Heading>>) \o Slice(Text(log), Chars(Text(log)) - TailChars, Chars(Text(log)))
      excerpt == primary \o others \o head \o tail
  IN IF Chars(excerpt) <= MaxExcerpt THEN excerpt
     ELSE Slice(excerpt, 0, MaxExcerpt) \o Text(<<Truncated>>)

-----------------------------------------------------------------------------
(* The failures                                                              *)

Task(pool, t) == [name |-> t.name, pool |-> pool, kind |-> "task"]

\* Mutant: an exception is not a failure.
FailedOnly(pool, tasks) ==
  Taken([i \in DOMAIN tasks |-> Task(pool, tasks[i])], {i \in DOMAIN tasks : tasks[i].state = "failed"})

\* failing_tasks, of the tasks of one run.
failing_tasks(pool, tasks) ==
  Taken([i \in DOMAIN tasks |-> Task(pool, tasks[i])],
        {i \in DOMAIN tasks : tasks[i].state \in {"failed", "exception"}})

\* Mutant: a job that timed out is not a failure.
FailureOnly(j) == j.conclusion = "failure" /\ j.kind \in {"Build", "OS Integration Tests"}

\* The jobs collect looks at: a build or a test job that failed.
Failing(j) == j.conclusion \in {"failure", "timed_out"} /\ j.kind \in {"Build", "OS Integration Tests"}

\* build: every failing task of every run.
Collect ==
  /\ stage = "collect" /\ caller = "hw"
  /\ failures' = FlattenSeq([r \in DOMAIN world.runs |->
                              failing_tasks(world.runs[r].pool, world.runs[r].tasks)])
  /\ stage' = IF failures' = <<>> THEN "finished" ELSE "quote"
  /\ UNCHANGED <<world, caller, job, groups, listed, logs, prompt, output>>

\* alpha's main: the jobs of the attempt are listed, or nothing is.
Jobs ==
  /\ stage = "collect" /\ caller = "alpha"
  /\ stage' = "jobs"
  /\ UNCHANGED <<world, caller, job, groups, failures, listed, logs, prompt, output>>

\* collect, one job: it is on the list before its log is read.  Without the log
\* the groups it names are not known.
Job ==
  LET j == world.jobs[job + 1] IN
  /\ stage = "jobs" /\ groups = <<>> /\ job < Len(world.jobs)
  /\ job' = job + 1
  /\ IF ~Failing(j) THEN UNCHANGED <<groups, failures, logs>>
     ELSE /\ failures' = Append(failures, [name |-> j.name, pool |-> j.pool, kind |-> "job"])
          /\ \/ UNCHANGED <<groups, logs>>
             \/ \E log \in Logs :
                  /\ logs' = [i \in DOMAIN logs \union {Len(failures')} |->
                                IF i = Len(failures') THEN log ELSE logs[i]]
                  /\ groups' = IF j.kind = "Build" THEN <<>> ELSE j.groups
  /\ UNCHANGED <<world, caller, stage, listed, prompt, output>>

\* collect, one group of a test job: its failing tasks join the list when every
\* page of it could be read, none of them when one could not.
Group ==
  LET g == Head(groups) IN
  /\ stage = "jobs" /\ groups # <<>>
  /\ groups' = Tail(groups)
  /\ \/ UNCHANGED <<failures, listed>>
     \/ /\ failures' = failures \o failing_tasks(world.jobs[job].pool, world.group[g])
        /\ listed' = listed \union {g}
  /\ UNCHANGED <<world, caller, stage, job, logs, prompt, output>>

Collected ==
  /\ stage = "jobs" /\ groups = <<>> /\ job = Len(world.jobs)
  /\ stage' = "quote"
  /\ UNCHANGED <<world, caller, job, groups, failures, listed, logs, prompt, output>>

\* alpha's main: whatever else goes wrong -- gh, a config that is not as
\* expected, an answer of another shape -- is one line more, in place of the
\* list if that is not written yet.
Unavailable ==
  /\ stage \in {"collect", "jobs", "ask", "write"} /\ caller = "alpha"
  /\ stage' = "finished"
  /\ output' = [output EXCEPT !.note = "unavailable"]
  /\ UNCHANGED <<world, caller, job, groups, failures, listed, logs, prompt>>

\* fetch_log of the tasks among the failures that are quoted.
Quoted == {i \in DOMAIN failures : i <= MaxQuoted /\ failures[i].kind = "task"}

Quote ==
  /\ stage = "quote" /\ stage' = "list"
  /\ \E readable \in SUBSET Quoted : \E read \in [readable -> Logs] :
       logs' = [i \in DOMAIN logs \union readable |-> IF i \in readable THEN read[i] ELSE logs[i]]
  /\ UNCHANGED <<world, caller, job, groups, failures, listed, prompt, output>>

\* alpha: the list is written before the model is asked; without failures it
\* says so, and that is all.
List ==
  /\ stage = "list"
  /\ IF caller = "hw" THEN output' = output /\ stage' = "ask"
     ELSE /\ output' = [output EXCEPT !.list = [i \in DOMAIN failures |-> failures[i].name],
                                      !.note = IF failures = <<>> THEN "no failures" ELSE ""]
          /\ stage' = IF failures = <<>> THEN "finished" ELSE "ask"
  /\ UNCHANGED <<world, caller, job, groups, failures, listed, logs, prompt>>

\* build_prompt: the first are quoted, the others counted.
build_prompt ==
  [failed  |-> Len(failures),
   quoted  |-> [i \in 1 .. Len(Leading(failures, MaxQuoted)) |->
                  [task |-> failures[i].name,
                   excerpt |-> IF i \in DOMAIN logs THEN log_excerpt(logs[i]) ELSE <<>>]],
   dropped |-> Len(failures) - Len(Leading(failures, MaxQuoted))]

Ask ==
  /\ stage = "ask" /\ stage' = "write"
  /\ prompt' = build_prompt
  /\ UNCHANGED <<world, caller, job, groups, failures, listed, logs, output>>

\* Mutant: the list is written again, of what the model explains.
WriteOnlyRows ==
  /\ stage = "write" /\ stage' = "finished"
  /\ \E names \in SUBSET {failures[i].name : i \in DOMAIN failures} :
       output' = [output EXCEPT !.list = Taken(@, {i \in DOMAIN @ : @[i] \in names})]
  /\ UNCHANGED <<world, caller, job, groups, failures, listed, logs, prompt>>

\* summarize and summary_lines: the model's rows, each with a link to the last
\* failure of that name if it names one; or no rows.
Write ==
  /\ stage = "write" /\ stage' = "finished"
  /\ \/ output' = IF caller = "alpha" THEN [output EXCEPT !.note = "no analysis"] ELSE output
     \/ \E names \in (SUBSET ({failures[i].name : i \in DOMAIN failures} \union {"another"})) \ {{}} :
          output' = [output EXCEPT !.rows =
            [n \in names |-> LET named == {i \in DOMAIN failures : failures[i].name = n}
                             IN IF named = {} THEN 0 ELSE CHOOSE i \in named : \A k \in named : k <= i]]
  /\ UNCHANGED <<world, caller, job, groups, failures, listed, logs, prompt>>

SummaryInit ==
  /\ world \in Worlds /\ caller \in Callers
  /\ stage = "collect" /\ job = 0 /\ groups = <<>> /\ failures = <<>>
  /\ listed = {} /\ logs = <<>> /\ prompt = <<>>
  /\ output = [list |-> <<>>, note |-> "", rows |-> <<>>]

SummaryNext ==
  \/ Collect \/ Jobs \/ Job \/ Group \/ Collected \/ Unavailable
  \/ Quote \/ List \/ Ask \/ Write

SummarySpec == SummaryInit /\ [][SummaryNext]_summaryVars
=============================================================================
