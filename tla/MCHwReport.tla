----------------------------- MODULE MCHwReport -----------------------------
EXTENDS HwReportInv, TLC

CONSTANTS r1, r2, r3, d1, n1, n2, n3, n4, none, NoBuildOf

Of == r1 :> "ref" @@ r2 :> "ref" @@ r3 :> "ref" @@ d1 :> "debug"
PlatformOf == "ref" :> "hw-ref" @@ "debug" :> "hw"
NodesOf == "ref" :> {n1, n2} @@ "debug" :> {n3, n4}

Number(suite, value, lower, extra) ==
  [suite |-> suite, value |-> value, lower_is_better |-> lower, extra_options |-> extra]
Blob(application, framework, suites) ==
  [application |-> application, framework |-> framework, suites |-> suites]
Speedometer(value) == Number("speedometer3", value, FALSE, {})

\* Firefox at three speeds and Chrome on one suite; a blob of three suites, one
\* without a number; one that names no application, of a framework only
\* Treeherder lists.
Firefox(value) == Blob("firefox", "browsertime", <<Speedometer(value)>>)
PlainBlobs ==
  {Firefox(6), Firefox(10), Blob("chrome", "browsertime", <<Speedometer(13)>>),
   Blob("firefox", "browsertime",
        <<Number("tsvg", none, TRUE, {}), Speedometer(11), Number("a11yr", 15, TRUE, {})>>),
   Blob("", "newbench", <<Number("a11yr", 5, TRUE, {})>>)}

SeriesOf(platform, application, suite, extra) ==
  [platform |-> platform, framework |-> "browsertime", suite |-> suite,
   application |-> application, extra_options |-> extra]
AllSeries ==
  {SeriesOf("hw-ref", "firefox", "speedometer3", x) : x \in {{}, {"no-nova"}}}
  \union {SeriesOf("hw-ref", "firefox", "a11yr", {}), SeriesOf("hw-ref", "chrome", "speedometer3", {}),
          SeriesOf("hw", "firefox", "speedometer3", {}),
          [SeriesOf("hw", "", "a11yr", {}) EXCEPT !.framework = "newbench"]}

Stat(n, mean, stdev) == [n |-> n, mean |-> mean, stdev |-> stdev]
AllStats == {Stat(12, 10, 1), Stat(10, 9, 2), Stat(9, 10, 1), Stat(12, 10, 0), Stat(0, 0, 0)}

Task(state, worker, build, source) ==
  [state |-> state, worker |-> worker, build |-> build, source |-> source]
Build(task, artifact, revision) == [task |-> task, artifact |-> artifact, revision |-> revision]
shippable == Build("shippable", "target.zip", "new")
opt == Build("shippable", "setup.exe", "new")
older == Build("shippable", "target.zip", "old")

\* Scores to read and builds to describe, each where the other is simple.
AllListings ==
  {[task |-> r1 :> Task("completed", n1, NoBuildOf, TRUE) @@ r2 :> Task("completed", n2, NoBuildOf, FALSE)
             @@ r3 :> Task(x[1], n1, NoBuildOf, TRUE) @@ d1 :> Task(x[2], n3, NoBuildOf, TRUE),
    late |-> IF x[1] = "running" THEN {"ref"} ELSE {}] :
     x \in {<<"completed", "failed">>, <<"running", "completed">>, <<"running", "exception">>,
            <<"failed", "completed">>}}
  \union
  {[task |-> r1 :> Task("pending", n1, shippable, TRUE) @@ r2 :> Task("exception", n2, opt, FALSE)
             @@ r3 :> Task("unscheduled", "unknown", older, TRUE) @@ d1 :> Task("completed", n3, x, TRUE),
    late |-> y] : x \in {shippable, opt, NoBuildOf}, y \in {{}, {"ref"}}}
=============================================================================
