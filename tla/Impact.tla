------------------------------- MODULE Impact -------------------------------
(***************************************************************************)
(* computeImpact: from changed files to the modules they belong to, and     *)
(* breadth first to every module that depends on one of those.  What a      *)
(* module demands of a change (dimensions and kinds of evidence) is stood   *)
(* for by the module itself; files that belong to no module are only listed *)
(* in the report, and left out.                                             *)
(***************************************************************************)
EXTENDS Naturals, Sequences, FiniteSets, SequencesExt

CONSTANTS Nodes,     \* module ids, in their lexicographic order
          Elsewhere  \* for a file outside every module

VARIABLES edges,     \* the observed dependencies <<from, to>>
          declared,  \* modules that the rules declare
          files,     \* the changed files
          impacted,  \* dependents reached so far
          queue      \* modules whose dependents are still to be visited

\* A file of the scan, or one that the scan has not seen, below the path of a
\* module or elsewhere.
File == [module : Nodes, scanned : {TRUE}] \union [module : Nodes \union {Elsewhere}, scanned : {FALSE}]

\* A file that the scan has not seen is mapped by the path of a declared module.
Mapped(f) == f.scanned \/ f.module \in declared

Changed == {f.module : f \in {g \in files : Mapped(g)}}

Dependents(n) == {m \in Nodes : <<m, n>> \in edges}

\* The lists that hold each element of a set once.
Orderings(S) == {q \in [1..Cardinality(S) -> S] : ToSet(q) = S}

----------------------------------------------------------------------------
Init ==
  /\ impacted = {}
  /\ queue \in Orderings(Changed)

\* Bug: only the direct dependents of the changed modules are impacted.
VisitDirectDependents ==
  /\ queue # <<>>
  /\ impacted' = impacted \union (Dependents(Head(queue)) \ Changed)
  /\ queue' = Tail(queue)

\* Bug: a changed module that depends on another counts as impacted.
VisitChangedToo ==
  /\ queue # <<>>
  /\ LET new == Dependents(Head(queue)) \ impacted
     IN /\ impacted' = impacted \union new
        /\ \E q \in Orderings(new) : queue' = Tail(queue) \o q

\* One turn of the loop over the queue.  The order of the dependents is that
\* of the edges in the graph given.
VisitDependents ==
  /\ queue # <<>>
  /\ LET new == Dependents(Head(queue)) \ (Changed \union impacted)
     IN /\ impacted' = impacted \union new
        /\ \E q \in Orderings(new) : queue' = Tail(queue) \o q

Computed == queue = <<>>

\* The modules whose dimensions and evidence the report demands.
Demanding == (Changed \union impacted) \intersect declared
=============================================================================
