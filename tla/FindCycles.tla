----------------------------- MODULE FindCycles -----------------------------
(***************************************************************************)
(* findCycles of the architecture check: depth-first search over the        *)
(* observed dependency edges, run by the nested calls of `visit'.  The call *)
(* stack is `stack' itself: the frame of each node on it has still to look  *)
(* at the targets in todo.  Module names are numbers in sorted order, and   *)
(* an edge observed twice counts once.                                      *)
(***************************************************************************)
EXTENDS Naturals, Sequences

CONSTANT Nodes  \* module ids, in their lexicographic order

ASSUME NodesAssumption == Nodes \subseteq Nat

VARIABLES edges,   \* the dependency edges <<from, to>>
          stack,   \* stack and onStack
          todo,    \* targets that the visit of a node has not looked at
          done,    \* nodes whose visit has returned
          roots,   \* nodes from which the outer loop has still to visit
          cycles   \* the cycles found

vars == <<edges, stack, todo, done, roots, cycles>>

Succ(n) == {m \in Nodes : <<n, m>> \in edges}

Least(n, S) == n \in S /\ \A m \in S : n <= m

OnStack == {stack[i] : i \in DOMAIN stack}

Top == stack[Len(stack)]

----------------------------------------------------------------------------
Init ==
  /\ edges \in SUBSET (Nodes \X Nodes)
  /\ stack = <<>>
  /\ todo = [n \in Nodes |-> Succ(n)]
  /\ done = {}
  /\ roots = {n \in Nodes : Succ(n) # {}}
  /\ cycles = <<>>

\* Bug: the outer loop starts at the first key again and again.
VisitRootAgain(n) ==
  /\ stack = <<>>
  /\ Least(n, roots)
  /\ stack' = IF n \in done THEN <<>> ELSE <<n>>
  /\ UNCHANGED <<edges, todo, done, roots, cycles>>

\* The outer loop over the sorted keys of the adjacency map.
VisitRoot(n) ==
  /\ stack = <<>>
  /\ Least(n, roots)
  /\ roots' = roots \ {n}
  /\ stack' = IF n \in done THEN <<>> ELSE <<n>>
  /\ UNCHANGED <<edges, todo, done, cycles>>

\* The path from node n on the stack to the top, and back to n.
CycleTo(n) ==
  LET i == CHOOSE j \in DOMAIN stack : stack[j] = n
  IN Append(SubSeq(stack, i, Len(stack)), n)

\* Bug: a node is marked done when its visit starts.
LookEagerly(n) ==
  /\ stack # <<>>
  /\ Least(n, todo[Top])
  /\ todo' = [todo EXCEPT ![Top] = @ \ {n}]
  /\ cycles' = IF n \in OnStack /\ n \notin done THEN Append(cycles, CycleTo(n))
               ELSE cycles
  /\ stack' = IF n \in OnStack \union done THEN stack ELSE Append(stack, n)
  /\ done' = IF n \in OnStack \union done THEN done ELSE done \union {n}
  /\ UNCHANGED <<edges, roots>>

\* Bug: the reported path starts one node above the target.
LookPastTarget(n) ==
  /\ stack # <<>>
  /\ Least(n, todo[Top])
  /\ todo' = [todo EXCEPT ![Top] = @ \ {n}]
  /\ cycles' = IF n \in OnStack THEN Append(cycles, Tail(CycleTo(n))) ELSE cycles
  /\ stack' = IF n \in OnStack \union done THEN stack ELSE Append(stack, n)
  /\ UNCHANGED <<edges, done, roots>>

\* One turn of the loop in visit: a target on the stack closes a cycle, a
\* target not visited yet is visited.
Look(n) ==
  /\ stack # <<>>
  /\ Least(n, todo[Top])
  /\ todo' = [todo EXCEPT ![Top] = @ \ {n}]
  /\ cycles' = IF n \in OnStack THEN Append(cycles, CycleTo(n)) ELSE cycles
  /\ stack' = IF n \in OnStack \union done THEN stack ELSE Append(stack, n)
  /\ UNCHANGED <<edges, done, roots>>

\* The end of visit.
Return ==
  /\ stack # <<>>
  /\ todo[Top] = {}
  /\ done' = done \union {Top}
  /\ stack' = SubSeq(stack, 1, Len(stack) - 1)
  /\ UNCHANGED <<edges, todo, roots, cycles>>

Next ==
  \/ \E n \in Nodes : VisitRoot(n) \/ Look(n)
  \/ Return

Spec == Init /\ [][Next]_vars

Finished == stack = <<>> /\ roots = {}

----------------------------------------------------------------------------
TypeOK ==
  /\ edges \in SUBSET (Nodes \X Nodes)
  /\ stack \in Seq(Nodes)
  /\ todo \in [Nodes -> SUBSET Nodes]
  /\ done \in SUBSET Nodes
  /\ roots \in SUBSET Nodes
  /\ cycles \in Seq(Seq(Nodes))
  /\ \A i, j \in DOMAIN stack : stack[i] = stack[j] => i = j
  /\ \A i \in DOMAIN stack : stack[i] \notin done

(* A set of nodes that each depend on a node of the set: in a finite graph  *)
(* there is one exactly when there is a cycle.                              *)
Knot(S) == S # {} /\ \A n \in S : Succ(n) \intersect S # {}

(* Detection is sound and complete as a yes-or-no answer: when the search   *)
(* has ended, it has found a cycle exactly if there is one, though it       *)
(* explores each node once (architecture.ts:122-129).                       *)
FoundIffCyclic ==
  Finished => (cycles # <<>> <=> \E S \in SUBSET Nodes : Knot(S))

(* Whatever is reported is a cycle of the graph, from a node back to it     *)
(* (architecture.ts:150).                                                   *)
ReportedAreCycles ==
  \A i \in DOMAIN cycles :
    LET c == cycles[i] IN
    /\ Len(c) >= 2 /\ c[1] = c[Len(c)]
    /\ \A j \in 1..(Len(c) - 1) : <<c[j], c[j + 1]>> \in edges
============================================================================
