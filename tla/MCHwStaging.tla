---------------------------- MODULE MCHwStaging ----------------------------
EXTENDS HwStagingInv, TLC

CONSTANTS main, wip, none, unnamed, n1, n2, old, new

Pool(name, config, dev, nodes) == [name |-> name, config |-> config, dev |-> dev, nodes |-> nodes]
File(entries, bad) == [sound |-> TRUE, entries |-> entries, bad |-> bad]

\* win11-64-24h2-hw is production, hw-alpha and hw-ref-alpha are staging pools,
\* a11y follows no convention.
Stages == "hw" :> "hw" @@ "alpha" :> "hw" @@ "ref-alpha" :> "hw-ref" @@ "hw-ref" :> "hw-ref"
          @@ "a11y" :> unnamed

Production == Pool("hw", old, none, {n2})
Plain == File(<<Pool("alpha", old, none, {n1}), Pool("ref-alpha", old, none, {n2}), Production>>, {})
OnDev == File(<<Pool("alpha", old, wip, {n1}), Pool("ref-alpha", old, none, {n2}), Production>>, {n2})
Moved == File(<<Pool("alpha", new, wip, {n1, n2}), Pool("ref-alpha", new, none, {}), Production>>, {})
Twice == File(<<Pool("alpha", old, none, {n1}), Pool(unnamed, new, none, {}),
                Pool("a11y", old, wip, {n2}), Pool("alpha", new, none, {n1})>>, {})
Empty == File(<<>>, {})
Broken == [sound |-> FALSE, entries |-> <<>>, bad |-> {}]
AllTexts == {Plain, OnDev, Moved, Twice, Empty, Broken}

\* The checkout is its branch's head, or one change behind.
AllWorlds ==
  {[disk |-> d, head |-> main :> h @@ wip :> b] :
     d \in {OnDev, Twice, Plain}, h \in {OnDev, Moved}, b \in {Plain, Twice}}
  \union {[disk |-> d, head |-> main :> d @@ wip :> b] :
     d \in {OnDev, Plain, Broken, Empty}, b \in {Twice, Empty}}
AllRequests == {{"alpha"}, {"alpha", "ref-alpha"}, {"a11y"}, {"alpha", "hw"}}
=============================================================================
