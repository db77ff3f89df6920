---------------------------- MODULE MCNodeDeploy ----------------------------
EXTENDS NodeDeployInv, TLC

CONSTANTS main, dev, none, old, new, i1, i2

Pool(name, image, date, branch, nodes) ==
  [name |-> name, nodes |-> nodes, image |-> image, date |-> date, dev |-> branch]

\* The machine is nuc-1; nuc-12 contains its name.
Names == "nuc-1" :> {"nuc-1"} @@ "nuc-12" :> {"nuc-1", "nuc-12"} @@ "nuc-3" :> {"nuc-3"}

\* In the old text its pool comes between others; the new one moves the pool to a
\* branch, a new image and new secrets.
Texts ==
  old :> <<Pool("a", i1, 1, none, <<"nuc-3">>), Pool("b", i1, 1, none, <<"nuc-3", "nuc-1">>),
           Pool("c", i2, 1, none, <<"nuc-3", "nuc-12">>)>>
  @@ new :> <<Pool("b", i2, 2, dev, <<"nuc-1">>), Pool("a", i1, 1, none, <<"nuc-3", "nuc-12">>)>>

\* The condition of the theorem on ConfiguredAsListed.
ASSUME OwnEntryIsFound == FindsItsOwn
=============================================================================
