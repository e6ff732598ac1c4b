------------------------- MODULE ArchitectureProofs -------------------------
(***************************************************************************)
(* The architecture command is right for every set of modules, every graph, *)
(* every layering and every list of exceptions.                             *)
(*                                                                         *)
(* First the search for cycles.  As long as no cycle was found: what a      *)
(* finished node depends on is finished, and a node on the stack depends,   *)
(* as far as it was looked at, on finished nodes and on the node above it.  *)
(* So finishing a node never closes a knot.  Conversely a reported cycle is *)
(* a path of the graph, because the stack is one.                           *)
(*                                                                         *)
(* Then the verdict.  The command keeps the invariant of the search; when   *)
(* that has ended, the violations are empty exactly if the architecture is  *)
(* sound; and once the command has exited nothing that the verdict depends  *)
(* on changes.  Where only edges that go down are found there is no cycle,  *)
(* since a knot would have a least module.                                  *)
(*                                                                         *)
(* Then the impact report.  The invariant is that of a breadth-first        *)
(* search: a module reached is in the queue or has all its dependents       *)
(* reached; and every set that has the changed modules and all dependents   *)
(* of its members has those reached.                                        *)
(*                                                                         *)
(* Last, the end: what is left to do is counted, each step leaves less of   *)
(* it, and until the command has exited there is a next step.               *)
(***************************************************************************)
EXTENDS ArchitectureScript, SequenceTheorems, FiniteSetTheorems,
        WellFoundedInduction, TLAPS

Looked ==
  \A i \in DOMAIN stack : \A m \in Succ(stack[i]) \ todo[stack[i]] :
    m \in done \/ (i < Len(stack) /\ m = stack[i + 1])

DoneClosed == \A n \in done : Succ(n) \subseteq done

DoneUnknotted == \A S \in SUBSET done : ~Knot(S)

Fresh == \A n \in Nodes : n \notin done /\ n \notin OnStack => todo[n] = Succ(n)

Covered == \A n \in Nodes : Succ(n) # {} => n \in done \union OnStack \union roots

StackIsPath ==
  /\ \A i \in 1..(Len(stack) - 1) : <<stack[i], stack[i + 1]>> \in edges
  /\ \A n \in Nodes : todo[n] \subseteq Succ(n)

IInv ==
  /\ TypeOK
  /\ cycles = <<>> => Looked /\ DoneClosed /\ DoneUnknotted
  /\ Fresh
  /\ Covered
  /\ StackIsPath
  /\ ReportedAreCycles

----------------------------------------------------------------------------
(* Finishing a node whose targets are all finished ties no knot.            *)
LEMMA FinishUnknotted ==
  ASSUME DoneClosed, DoneUnknotted, NEW n, n \notin done, Succ(n) \subseteq done
  PROVE  \A S \in SUBSET (done \union {n}) : ~Knot(S)
  <1> SUFFICES ASSUME NEW S \in SUBSET (done \union {n}), S # {}
               PROVE  \E m \in S : Succ(m) \intersect S = {}
    BY DEF Knot
  <1>1. CASE S \ {n} = {}
    <2>1. S = {n}
      BY <1>1
    <2> QED BY <2>1
  <1>2. CASE S \ {n} # {}
    <2>1. PICK m \in S \ {n} : Succ(m) \intersect (S \ {n}) = {}
      BY <1>2 DEF DoneUnknotted, Knot
    <2>2. n \notin Succ(m)
      BY <2>1 DEF DoneClosed
    <2> QED BY <2>1, <2>2
  <1> QED BY <1>1, <1>2

(* The path reported for a target on the stack is a cycle.                  *)
LEMMA CycleToIsCycle ==
  ASSUME TypeOK, StackIsPath, stack # <<>>, NEW n \in OnStack,
         n \in Nodes, n \in Succ(Top)
  PROVE  /\ CycleTo(n) \in Seq(Nodes)
         /\ Len(CycleTo(n)) >= 2
         /\ CycleTo(n)[1] = CycleTo(n)[Len(CycleTo(n))]
         /\ \A j \in 1..(Len(CycleTo(n)) - 1) :
              <<CycleTo(n)[j], CycleTo(n)[j + 1]>> \in edges
  <1> DEFINE i == CHOOSE j \in DOMAIN stack : stack[j] = n
             path == SubSeq(stack, i, Len(stack))
             c == Append(path, n)
  <1>1. i \in DOMAIN stack /\ stack[i] = n
    BY DEF OnStack
  <1>2. stack \in Seq(Nodes) /\ Len(stack) \in Nat /\ DOMAIN stack = 1..Len(stack)
    BY DEF TypeOK
  <1>3. c = CycleTo(n)
    BY DEF CycleTo
  <1> HIDE DEF i
  <1>4. /\ path \in Seq(Nodes) /\ Len(path) = Len(stack) - i + 1
        /\ \A j \in 1..Len(path) : path[j] = stack[i + j - 1]
    BY <1>1, <1>2
  <1> HIDE DEF path
  <1>5. /\ c \in Seq(Nodes) /\ Len(c) = Len(path) + 1 /\ Len(path) \in Nat \ {0}
        /\ c[Len(path) + 1] = n
        /\ \A j \in 1..Len(path) : c[j] = stack[i + j - 1]
    BY <1>1, <1>2, <1>4
  <1> HIDE DEF c
  <1>6. c[1] = n
    BY <1>1, <1>2, <1>5
  <1>7. ASSUME NEW j \in 1..(Len(c) - 1) PROVE <<c[j], c[j + 1]>> \in edges
    <2>1. CASE j = Len(path)
      <3>1. c[j] = Top
        BY <1>1, <1>2, <1>4, <1>5, <2>1 DEF Top
      <3>2. c[j + 1] = n
        BY <1>5, <2>1
      <3> QED BY <3>1, <3>2 DEF Succ
    <2>2. CASE j # Len(path)
      <3>1. j \in 1..Len(path) /\ j + 1 \in 1..Len(path)
        BY <1>5, <2>2
      <3>2. c[j] = stack[i + j - 1] /\ c[j + 1] = stack[(i + j - 1) + 1]
        BY <1>1, <1>2, <1>5, <3>1
      <3>3. i + j - 1 \in 1..(Len(stack) - 1)
        BY <1>1, <1>2, <1>4, <3>1
      <3> QED BY <3>2, <3>3 DEF StackIsPath
    <2> QED BY <2>1, <2>2
  <1> QED BY <1>3, <1>5, <1>6, <1>7

(* The search starts in the invariant.                                      *)
THEOREM InitIInv == ASSUME Init PROVE IInv
  <1>1. TypeOK
    BY DEF Init, TypeOK, Succ
  <1>2. Looked /\ DoneClosed /\ StackIsPath /\ ReportedAreCycles
    BY DEF Init, Looked, DoneClosed, StackIsPath, ReportedAreCycles
  <1>3. DoneUnknotted
    BY DEF Init, DoneUnknotted, Knot
  <1>4. Fresh /\ Covered
    BY DEF Init, Fresh, Covered
  <1> QED BY <1>1, <1>2, <1>3, <1>4 DEF IInv

(* Every step of the search keeps the invariant.                            *)
THEOREM StepIInv == ASSUME IInv, [Next]_vars PROVE IInv'
  <1> USE DEF IInv
  <1>0. /\ stack \in Seq(Nodes) /\ Len(stack) \in Nat
        /\ DOMAIN stack = 1..Len(stack) /\ cycles \in Seq(Seq(Nodes))
    BY DEF TypeOK
  <1>1. ASSUME NEW n \in Nodes, VisitRoot(n) PROVE IInv'
    <2>1. /\ stack = <<>> /\ n \in roots
          /\ roots' = roots \ {n}
          /\ stack' = IF n \in done THEN <<>> ELSE <<n>>
          /\ UNCHANGED <<edges, todo, done, cycles>>
      BY <1>1 DEF VisitRoot, Least
    <2>2. \A m : Succ(m)' = Succ(m)
      BY <2>1 DEF Succ
    <2>3. OnStack = {} /\ OnStack' = IF n \in done THEN {} ELSE {n}
      BY <2>1 DEF OnStack
    <2>4. TypeOK'
      BY <2>1 DEF TypeOK
    <2>5. Looked'
      BY <2>1, <2>2, <2>3 DEF Looked, Fresh
    <2>6. DoneClosed' = DoneClosed /\ DoneUnknotted' = DoneUnknotted
      BY <2>1, <2>2 DEF DoneClosed, DoneUnknotted, Knot
    <2>7. Fresh' /\ Covered'
      BY <2>1, <2>2, <2>3 DEF Fresh, Covered
    <2>8. StackIsPath' /\ ReportedAreCycles'
      BY <2>1, <2>2 DEF StackIsPath, ReportedAreCycles
    <2> QED BY <2>1, <2>4, <2>5, <2>6, <2>7, <2>8
  <1>2. ASSUME NEW n \in Nodes, Look(n) PROVE IInv'
    <2>1. /\ stack # <<>> /\ n \in todo[Top]
          /\ todo' = [todo EXCEPT ![Top] = @ \ {n}]
          /\ cycles' = IF n \in OnStack THEN Append(cycles, CycleTo(n)) ELSE cycles
          /\ stack' = IF n \in OnStack \union done THEN stack ELSE Append(stack, n)
          /\ UNCHANGED <<edges, done, roots>>
      BY <1>2 DEF Look, Least
    <2>2. \A m : Succ(m)' = Succ(m)
      BY <2>1 DEF Succ
    <2>3. Top \in Nodes /\ Top \in OnStack /\ Top \notin done /\ n \in Succ(Top)
      BY <1>0, <2>1 DEF Top, OnStack, TypeOK, StackIsPath
    <2>4. DoneClosed' = DoneClosed /\ DoneUnknotted' = DoneUnknotted
      BY <2>1, <2>2 DEF DoneClosed, DoneUnknotted, Knot
    <2>5. CASE n \in OnStack
      <3>1. stack' = stack /\ cycles' = Append(cycles, CycleTo(n)) /\ OnStack' = OnStack
        BY <2>1, <2>5 DEF OnStack
      <3>2. cycles' # <<>> /\ cycles' \in Seq(Seq(Nodes))
        <4>1. CycleTo(n) \in Seq(Nodes)
          BY <2>1, <2>3, <2>5, CycleToIsCycle
        <4> HIDE DEF CycleTo
        <4> QED BY <1>0, <3>1, <4>1, AppendProperties
      <3>3. TypeOK'
        BY <2>1, <3>1, <3>2 DEF TypeOK
      <3>4. Fresh' /\ Covered' /\ StackIsPath'
        BY <2>1, <2>2, <2>3, <3>1 DEF Fresh, Covered, StackIsPath, TypeOK
      <3>5. ReportedAreCycles'
        BY <1>0, <2>1, <2>3, <2>5, <3>1, CycleToIsCycle DEF ReportedAreCycles
      <3> QED BY <3>2, <3>3, <3>4, <3>5
    <2>6. CASE n \in done
      <3>1. stack' = stack /\ cycles' = cycles /\ OnStack' = OnStack
        BY <2>1, <2>6 DEF OnStack, TypeOK
      <3>2. TypeOK'
        BY <2>1, <3>1 DEF TypeOK
      <3>3. Fresh' /\ Covered' /\ StackIsPath' /\ ReportedAreCycles'
        BY <2>1, <2>2, <2>3, <3>1 DEF Fresh, Covered, StackIsPath, ReportedAreCycles, TypeOK
      <3>4. Looked => Looked'
        BY <1>0, <2>1, <2>2, <2>3, <2>6, <3>1 DEF Looked, TypeOK, Top
      <3> QED BY <2>4, <3>1, <3>2, <3>3, <3>4
    <2>7. CASE n \notin OnStack \union done
      <3>1. stack' = Append(stack, n) /\ cycles' = cycles
        BY <2>1, <2>7
      <3>2. /\ Len(stack') = Len(stack) + 1 /\ stack' \in Seq(Nodes)
            /\ DOMAIN stack' = 1..(Len(stack) + 1)
            /\ \A i \in 1..Len(stack) : stack'[i] = stack[i]
            /\ stack'[Len(stack) + 1] = n
        BY <1>0, <3>1, AppendProperties
      <3>3. stack' = Append(stack, n) /\ cycles' = cycles /\ OnStack' = OnStack \union {n}
        BY <1>0, <3>1, <3>2 DEF OnStack
      <3>4. TypeOK'
        BY <1>0, <2>1, <2>3, <2>7, <3>3, <3>2 DEF TypeOK, OnStack
      <3>5. Fresh' /\ Covered'
        BY <2>1, <2>2, <2>3, <2>7, <3>3 DEF Fresh, Covered, TypeOK
      <3>6. StackIsPath' /\ ReportedAreCycles'
        BY <1>0, <2>1, <2>2, <2>3, <3>3, <3>2 DEF StackIsPath, ReportedAreCycles, TypeOK, Top, Succ
      <3>7. ASSUME Looked PROVE Looked'
        <4>1. ASSUME NEW i \in 1..(Len(stack) - 1)
              PROVE  /\ i \in 1..Len(stack) /\ i + 1 \in 1..Len(stack) /\ i < Len(stack)
                     /\ i # Len(stack) /\ Len(stack) \in 1..Len(stack)
          <5>1. Len(stack) \in Nat
            BY <1>0
          <5> QED BY <4>1, <5>1
        <4>2. ASSUME NEW i \in 1..(Len(stack) - 1)
              PROVE  todo'[stack[i]] = todo[stack[i]]
          <5>1. stack[i] # Top
            BY <4>1, <4>2 DEF TypeOK, Top
          <5>2. stack[i] \in Nodes
            BY <1>0, <4>1, <4>2, ElementOfSeq
          <5> QED BY <2>1, <5>1, <5>2 DEF TypeOK
        <4>3. ASSUME NEW i \in 1..(Len(stack) - 1), NEW m \in Succ(stack[i]) \ todo'[stack[i]]
              PROVE  m \in done \/ m = stack'[i + 1]
          BY <1>0, <3>2, <3>7, <4>1, <4>2, <4>3 DEF Looked
        <4>4. ASSUME NEW m \in Succ(Top) \ todo'[Top]
              PROVE  m \in done \/ m = n
          <5>1. m = n \/ m \notin todo[Top]
            BY <2>1, <2>3, <4>4 DEF TypeOK
          <5>2. Len(stack) \in 1..Len(stack) /\ ~(Len(stack) < Len(stack))
            BY <1>0, <2>1
          <5> QED BY <1>0, <3>7, <4>4, <5>1, <5>2 DEF Looked, Top
        <4>5. Succ(n) \ todo'[n] = {}
          BY <2>1, <2>3, <2>7 DEF Fresh, TypeOK
        <4>6. ASSUME NEW i \in 1..(Len(stack) + 1), NEW m \in Succ(stack'[i]) \ todo'[stack'[i]]
              PROVE  m \in done \/ (i < Len(stack) + 1 /\ m = stack'[i + 1])
          <5>1. CASE i = Len(stack) + 1
            BY <3>2, <4>5, <4>6, <5>1
          <5>2. CASE i = Len(stack)
            <6>1. stack'[i] = Top /\ stack'[i + 1] = n /\ i < Len(stack) + 1
              BY <1>0, <2>1, <3>2, <5>2 DEF Top
            <6> QED BY <4>4, <4>6, <6>1
          <5>3. CASE i \in 1..(Len(stack) - 1)
            <6>1. i \in 1..Len(stack)
              BY <4>1, <5>3
            <6>2. stack'[i] = stack[i]
              BY <3>2, <6>1
            <6>3. i < Len(stack) + 1
              <7>1. Len(stack) \in Nat
                BY <1>0
              <7> QED BY <6>1, <7>1
            <6> QED BY <4>3, <4>6, <5>3, <6>2, <6>3
          <5> QED BY <1>0, <5>1, <5>2, <5>3
        <4> QED BY <2>1, <2>2, <3>2, <4>6 DEF Looked
      <3> QED BY <2>4, <3>3, <3>4, <3>5, <3>6, <3>7
    <2> QED BY <2>5, <2>6, <2>7
  <1>3. CASE Return
    <2>1. /\ stack # <<>> /\ todo[Top] = {}
          /\ done' = done \union {Top}
          /\ stack' = SubSeq(stack, 1, Len(stack) - 1)
          /\ UNCHANGED <<edges, todo, roots, cycles>>
      BY <1>3 DEF Return
    <2>2. \A m : Succ(m)' = Succ(m)
      BY <2>1 DEF Succ
    <2>3. /\ Len(stack') = Len(stack) - 1 /\ stack' \in Seq(Nodes)
          /\ DOMAIN stack' = 1..(Len(stack) - 1)
          /\ \A i \in 1..(Len(stack) - 1) : stack'[i] = stack[i]
          /\ Len(stack) \in 1..Len(stack)
      BY <1>0, <2>1
    <2>4. Top \in Nodes /\ Top \notin done /\ Top = stack[Len(stack)]
      BY <1>0, <2>3 DEF Top, TypeOK
    <2>5. OnStack' = OnStack \ {Top} /\ Top \in OnStack
      <3>1. /\ OnStack = {stack[i] : i \in 1..Len(stack)}
            /\ OnStack' = {stack[i] : i \in 1..(Len(stack) - 1)}
        BY <1>0, <2>3 DEF OnStack
      <3>2. Top \in OnStack
        BY <2>3, <2>4, <3>1
      <3>3. \A i \in 1..(Len(stack) - 1) : stack[i] # Top
        <4>1. \A i, j \in 1..Len(stack) : stack[i] = stack[j] => i = j
          BY <1>0 DEF TypeOK
        <4> QED BY <1>0, <2>3, <2>4, <4>1
      <3>4. 1..Len(stack) = 1..(Len(stack) - 1) \union {Len(stack)}
        BY <1>0, <2>3
      <3>5. OnStack = {stack[i] : i \in 1..(Len(stack) - 1)} \union {Top}
        BY <2>4, <3>1, <3>4
      <3> QED BY <3>1, <3>2, <3>3, <3>5
    <2>6. TypeOK'
      BY <1>0, <2>1, <2>3, <2>4 DEF TypeOK
    <2>7. Fresh' /\ Covered'
      BY <2>1, <2>2, <2>5 DEF Fresh, Covered
    <2>8. StackIsPath' /\ ReportedAreCycles'
      BY <1>0, <2>1, <2>2, <2>3 DEF StackIsPath, ReportedAreCycles
    <2>9. ASSUME cycles = <<>> PROVE Looked' /\ DoneClosed' /\ DoneUnknotted'
      <3>1. Looked /\ DoneClosed /\ DoneUnknotted
        BY <2>9
      <3>2. Succ(Top) \subseteq done
        <4>1. \A m \in Succ(stack[Len(stack)]) \ todo[stack[Len(stack)]] :
                m \in done \/ (Len(stack) < Len(stack) /\ m = stack[Len(stack) + 1])
          BY <1>0, <2>3, <3>1 DEF Looked
        <4>2. ~(Len(stack) < Len(stack))
          BY <1>0
        <4>3. \A m \in Succ(Top) \ {} : m \in done
          BY <2>1, <2>4, <4>1, <4>2
        <4> QED BY <4>3
      <3>3. DoneClosed'
        BY <2>1, <2>2, <3>1, <3>2 DEF DoneClosed
      <3>4. \A S \in SUBSET (done \union {Top}) : ~Knot(S)
        BY <2>4, <3>1, <3>2, FinishUnknotted
      <3>5. DoneUnknotted'
        BY <2>1, <2>2, <3>4 DEF DoneUnknotted, Knot
      <3>6. Looked'
        BY <1>0, <2>1, <2>2, <2>3, <2>4, <3>1 DEF Looked
      <3> QED BY <3>3, <3>5, <3>6
    <2> QED BY <2>1, <2>6, <2>7, <2>8, <2>9
  <1>4. CASE UNCHANGED vars
    <2>1. /\ UNCHANGED <<edges, stack, todo, done, roots, cycles>>
          /\ \A m : Succ(m)' = Succ(m)
          /\ OnStack' = OnStack
      BY <1>4 DEF vars, Succ, OnStack
    <2> QED BY <2>1 DEF TypeOK, Looked, DoneClosed, DoneUnknotted, Knot, Fresh,
                        Covered, StackIsPath, ReportedAreCycles
  <1> QED BY <1>1, <1>2, <1>3, <1>4 DEF Next

----------------------------------------------------------------------------
(* The nodes of a path that is reported are a knot.                         *)
LEMMA CycleIsKnot ==
  ASSUME TypeOK, ReportedAreCycles, cycles # <<>>
  PROVE  \E S \in SUBSET Nodes : Knot(S)
  <1> DEFINE c == cycles[1]
             S == {c[j] : j \in 1..(Len(c) - 1)}
  <1>1. cycles \in Seq(Seq(Nodes)) /\ 1 \in DOMAIN cycles
    BY DEF TypeOK
  <1>2. /\ c \in Seq(Nodes) /\ Len(c) \in Nat /\ Len(c) >= 2 /\ c[1] = c[Len(c)]
        /\ \A j \in 1..(Len(c) - 1) : <<c[j], c[j + 1]>> \in edges
    BY <1>1 DEF ReportedAreCycles
  <1> HIDE DEF c
  <1>3. S \in SUBSET Nodes /\ c[1] \in S
    BY <1>2
  <1>4. ASSUME NEW j \in 1..(Len(c) - 1) PROVE Succ(c[j]) \intersect S # {}
    <2>1. c[j + 1] \in S
      <3>1. CASE j + 1 = Len(c)
        BY <1>2, <1>3, <3>1
      <3>2. CASE j + 1 \in 1..(Len(c) - 1)
        BY <3>2
      <3> QED BY <1>2, <3>1, <3>2
    <2> QED BY <1>2, <1>3, <2>1 DEF Succ
  <1>5. Knot(S)
    BY <1>3, <1>4 DEF Knot
  <1> QED BY <1>3, <1>5

(* When the search has ended, every node that depends on any is finished.   *)
LEMMA Answer == ASSUME IInv PROVE FoundIffCyclic
  <1> SUFFICES ASSUME Finished
               PROVE  cycles # <<>> <=> \E S \in SUBSET Nodes : Knot(S)
    BY DEF FoundIffCyclic
  <1>1. ASSUME cycles = <<>>, NEW S \in SUBSET Nodes, Knot(S) PROVE FALSE
    <2>1. OnStack = {} /\ roots = {}
      BY DEF Finished, OnStack
    <2>2. S \subseteq done
      BY <1>1, <2>1 DEF IInv, Covered, Knot
    <2> QED BY <1>1, <2>2 DEF IInv, DoneUnknotted
  <1>2. cycles # <<>> => \E S \in SUBSET Nodes : Knot(S)
    BY CycleIsKnot DEF IInv
  <1> QED BY <1>1, <1>2

(* The invariant holds throughout the search.                               *)
THEOREM Invariance == Spec => []IInv
  BY InitIInv, StepIInv, PTL DEF Spec

(* Type correctness: a node is on the stack once, and never after its visit *)
(* has returned.                                                            *)
THEOREM TypeCorrect == Spec => []TypeOK
  <1>1. IInv => TypeOK
    BY DEF IInv
  <1> QED BY Invariance, <1>1, PTL

(* The claim in the comment of findCycles, and its converse: when the       *)
(* search has ended it has reported a cycle exactly if the graph has one.   *)
THEOREM CycleExistenceIsSound == Spec => []FoundIffCyclic
  BY Invariance, Answer, PTL

(* Every reported path is a cycle of the graph.                             *)
THEOREM ReportsAreGenuine == Spec => []ReportedAreCycles
  <1>1. IInv => ReportedAreCycles
    BY DEF IInv
  <1> QED BY Invariance, <1>1, PTL

----------------------------------------------------------------------------
(* The verdict of the command.                                              *)

LayerOK == layer \in [Nodes -> Orders \union {Undeclared, NoLayer}]

ScanOK == scanned \subseteq Nodes /\ edges \subseteq scanned \X scanned

\* Why a command that checked the architecture has exited.
Verdict ==
  mode = "" /\ exitCode # Running =>
    \/ artifact # "fresh" /\ exitCode = 1
    \/ artifact = "fresh" /\ Finished /\ exitCode = IF Report.valid THEN 0 ELSE 1

Unreported == exitCode = Running => report = {}

SInv == IInv /\ LayerOK /\ ScanOK /\ Verdict /\ Unreported

----------------------------------------------------------------------------
(* No module is missing from the rules or from their layers.                *)
LEMMA AllHaveLayers ==
  ASSUME LayerOK, ScanOK
  PROVE  MissingLayers = {} /\ UnknownModules = {} <=>
           scanned \union Declared \subseteq Layered
  <1>1. scanned \subseteq Nodes /\ \A e \in edges : e[1] \in scanned /\ e[2] \in scanned
    BY DEF ScanOK
  <1>2. MissingLayers = {} <=> \A n \in Nodes : layer[n] # NoLayer
    BY DEF MissingLayers
  <1>3. UnknownModules = {} <=> \A n \in scanned : layer[n] # Undeclared
    <2>1. ASSUME \A n \in scanned : layer[n] # Undeclared PROVE UnknownModules = {}
      <3>1. scanned \subseteq Declared
        BY <1>1, <2>1 DEF Declared
      <3>2. \A e \in edges : {e[1], e[2]} \ Declared = {}
        BY <1>1, <3>1
      <3> QED BY <3>1, <3>2 DEF UnknownModules
    <2>2. ASSUME NEW n \in scanned, layer[n] = Undeclared PROVE UnknownModules # {}
      <3>1. n \in scanned \ Declared
        BY <2>2 DEF Declared
      <3>2. Violation("ARCH_UNKNOWN_MODULE", n, n) \in UnknownModules
        BY <3>1 DEF UnknownModules
      <3> QED BY <3>2
    <2> QED BY <2>1, <2>2
  <1>4. /\ Layered \subseteq Declared
        /\ \A n \in Declared : n \in Layered <=> layer[n] # NoLayer
        /\ \A n \in Nodes \ Declared : layer[n] # NoLayer
    BY OrdersAssumption DEF LayerOK, Layered, Declared
  <1>5. scanned \subseteq Declared <=> \A n \in scanned : layer[n] # Undeclared
    BY <1>1 DEF Declared
  <1>6. Declared \subseteq Layered <=> \A n \in Nodes : layer[n] # NoLayer
    BY <1>4 DEF Declared
  <1> QED BY <1>2, <1>3, <1>4, <1>5, <1>6

(* Between modules that have layers, edges that are not against them point  *)
(* strictly down.                                                           *)
LEMMA OthersPointDown ==
  ASSUME ScanOK, scanned \subseteq Layered
  PROVE  /\ AgainstTheLayers \subseteq edges
         /\ \A e \in edges : e \in AgainstTheLayers <=> ~(layer[e[2]] < layer[e[1]])
         /\ ForbiddenEdges = {} <=> AgainstTheLayers \ exceptions = {}
  <1>1. \A e \in edges : e[1] \in scanned /\ e[2] \in scanned
    BY DEF ScanOK
  <1>2. \A e \in edges : /\ {e[1], e[2]} \subseteq Layered
                         /\ layer[e[1]] \in Nat /\ layer[e[2]] \in Nat
    BY <1>1, OrdersAssumption DEF Layered
  <1>3. ForbiddenEdges = {} <=> AgainstTheLayers \ exceptions = {}
    BY DEF ForbiddenEdges, ExceptionsApplied
  <1> QED BY <1>2, <1>3 DEF AgainstTheLayers

(* The report has no violation exactly if the architecture is sound.        *)
LEMMA ReportIsRight ==
  ASSUME IInv, LayerOK, ScanOK, Finished PROVE Report.valid <=> Sound
  <1>1. cycles \in Seq(Seq(Nodes))
    BY DEF IInv, TypeOK
  <1>2. MissingLayers = {} /\ UnknownModules = {} <=>
          scanned \union Declared \subseteq Layered
    BY AllHaveLayers
  <1>3. ASSUME scanned \subseteq Layered
        PROVE  ForbiddenEdges = {} <=> \A e \in edges \ exceptions : layer[e[2]] < layer[e[1]]
    BY <1>3, OthersPointDown
  <1>4. Cycles = {} <=> \A S \in SUBSET Nodes : ~Knot(S)
    <2>1. Cycles = {} <=> DOMAIN cycles = {}
      BY DEF Cycles
    <2>2. DOMAIN cycles = {} <=> cycles = <<>>
      BY <1>1
    <2>3. FoundIffCyclic
      BY Answer
    <2> QED BY <2>1, <2>2, <2>3 DEF FoundIffCyclic
  <1>5. Report.valid <=>
          MissingLayers = {} /\ UnknownModules = {} /\ ForbiddenEdges = {} /\ Cycles = {}
    <2>1. Report.valid <=> MissingLayers \union UnknownModules \union ForbiddenEdges \union Cycles = {}
      BY DEF Report
    <2> QED BY <2>1
  <1> QED BY <1>2, <1>3, <1>4, <1>5 DEF Sound

(* The command starts in its invariant.                                     *)
LEMMA ScriptInitSInv == ASSUME ScriptInit PROVE SInv
  <1>1. Init /\ exitCode = Running /\ report = {}
    BY DEF ScriptInit
  <1>2. LayerOK
    BY DEF ScriptInit, InitImpact, InitCheck, LayerOK
  <1>3. ScanOK
    BY DEF ScriptInit, ScanOK
  <1> QED BY <1>1, <1>2, <1>3, InitIInv DEF SInv, Verdict, Unreported

(* What the search sees of a step of the script.                            *)
LEMMA ScriptStepIsSearchStep == ScriptNext => [Next]_vars
  BY DEF ScriptNext, ComputeImpact, WriteArtifact, RejectArtifact, Check,
         CheckArchitecture, Search, ReturnReport

(* Every step of the command keeps it.                                      *)
LEMMA ScriptStepSInv == ASSUME SInv, [ScriptNext]_scriptVars PROVE SInv'
  <1> USE DEF SInv
  <1>1. [Next]_vars
    BY ScriptStepIsSearchStep DEF scriptVars
  <1>2. IInv'
    BY <1>1, StepIInv
  <1>3. UNCHANGED <<edges, scanned, layer, exceptions>>
    BY DEF ScriptNext, ComputeImpact, WriteArtifact, RejectArtifact, Check, CheckArchitecture,
           Search, ReturnReport, Next, VisitRoot, Look, Return, scriptVars, archVars, vars
  <1>4. LayerOK' /\ ScanOK'
    BY <1>3 DEF LayerOK, ScanOK
  <1>5. CASE ComputeImpact
    BY <1>2, <1>4, <1>5 DEF ComputeImpact, archVars, Verdict, Unreported
  <1>6. CASE WriteArtifact
    BY <1>2, <1>4, <1>6 DEF WriteArtifact, archVars, Verdict, Unreported
  <1>7. CASE RejectArtifact
    BY <1>2, <1>4, <1>7 DEF RejectArtifact, Accepted, archVars, Verdict, Unreported
  <1>8. CASE Check
    <2>1. CASE Search
      <3>1. report' = report
        BY <2>1 DEF Search, archVars
      <3>2. report' = {} /\ exitCode' = Running
        BY <1>8, <3>1 DEF Check, Unreported
      <3> QED BY <1>2, <1>4, <3>2 DEF Verdict, Unreported
    <2>2. CASE ReturnReport
      <3>1. Finished' = Finished /\ Report' = Report /\ Finished /\ report' # {}
        BY <1>3, <2>2 DEF ReturnReport, Finished, Report, MissingLayers, UnknownModules,
             ForbiddenEdges, ExceptionsApplied, AgainstTheLayers, Cycles, Declared, Layered, vars
      <3>2. exitCode' = IF Report.valid THEN 0 ELSE 1
        BY <1>8, <3>1 DEF Check
      <3>3. artifact' = "fresh"
        BY <1>8 DEF Check, Accepted
      <3> QED BY <1>2, <1>4, <3>1, <3>2, <3>3, RunningAssumption DEF Verdict, Unreported
    <2> QED BY <1>8, <2>1, <2>2 DEF Check, CheckArchitecture
  <1>9. CASE UNCHANGED scriptVars
    <2>1. UNCHANGED <<edges, stack, roots, cycles, scanned, layer, exceptions, report, mode, artifact, exitCode>>
      BY <1>9 DEF scriptVars, archVars, vars
    <2>2. Finished' = Finished /\ Report' = Report
      BY <2>1 DEF Finished, Report, MissingLayers, UnknownModules, ForbiddenEdges,
           ExceptionsApplied, AgainstTheLayers, Cycles, Declared, Layered
    <2> QED BY <1>2, <1>4, <2>1, <2>2 DEF Verdict, Unreported
  <1> QED BY <1>5, <1>6, <1>7, <1>8, <1>9 DEF ScriptNext

(* The architecture command exits with 0 exactly when the committed scan is *)
(* fresh and the architecture is sound, whatever the workspace is.          *)
THEOREM ExitCodeIsRight == ScriptSpec => []ExitZeroIffSound
  <1>0. 0 # 1
    OBVIOUS
  <1>1. ASSUME SInv PROVE ExitZeroIffSound
    <2> SUFFICES ASSUME mode = "", exitCode # Running
                 PROVE  exitCode = 0 <=> artifact = "fresh" /\ Sound
      BY DEF ExitZeroIffSound
    <2>1. \/ artifact # "fresh" /\ exitCode = 1
          \/ artifact = "fresh" /\ Finished /\ exitCode = IF Report.valid THEN 0 ELSE 1
      BY <1>1 DEF SInv, Verdict
    <2>2. CASE artifact # "fresh" /\ exitCode = 1
      <3>1. exitCode # 0
        BY <2>2, <1>0, Zenon
      <3> QED BY <2>2, <3>1
    <2>3. CASE artifact = "fresh" /\ Finished /\ exitCode = IF Report.valid THEN 0 ELSE 1
      <3>1. Report.valid <=> Sound
        BY <1>1, <2>3, ReportIsRight DEF SInv
      <3>2. CASE Report.valid
        <4>1. exitCode = 0
          BY <2>3, <3>2
        <4> QED BY <2>3, <3>1, <3>2, <4>1
      <3>3. CASE ~Report.valid
        <4>1. exitCode = 1
          BY <2>3, <3>3
        <4>2. exitCode # 0
          BY <4>1, <1>0, Zenon
        <4> QED BY <3>1, <3>3, <4>2
      <3> QED BY <3>2, <3>3
    <2> QED BY <2>1, <2>2, <2>3
  <1> QED BY ScriptInitSInv, ScriptStepSInv, <1>1, PTL DEF ScriptSpec

----------------------------------------------------------------------------
(* The impact report.                                                       *)

Reached == I!Changed \union impacted

Expanded == \A n \in Reached : n \in ToSet(queue) \/ I!Dependents(n) \subseteq Reached

Needed == \A S \in SUBSET Nodes : I!Changed \subseteq S /\ Closed(S) => Reached \subseteq S

Graph == edges \subseteq Nodes \X Nodes /\ files \subseteq I!File

Searched ==
  /\ impacted \subseteq Nodes
  /\ queue \in Seq(Nodes) /\ ToSet(queue) \subseteq Reached
  /\ Expanded
  /\ Needed
  /\ exitCode = 0 => queue = <<>>

ImpactInv == Graph /\ (mode = "--impact" => Searched)

----------------------------------------------------------------------------
(* The changed modules are modules of the graph.                            *)
LEMMA ChangedAreNodes == ASSUME files \subseteq I!File PROVE I!Changed \subseteq Nodes
  BY DEF I!Changed, I!Mapped, I!File, Declared

(* A list of the elements of a set of modules.                              *)
LEMMA OrderingIsList ==
  ASSUME NEW S \in SUBSET Nodes, NEW q \in I!Orderings(S)
  PROVE  q \in Seq(Nodes) /\ ToSet(q) = S
  <1>1. q \in [1..Cardinality(S) -> S] /\ ToSet(q) = S
    BY DEF I!Orderings, I!ToSet, ToSet, I!Cardinality, Cardinality
  <1>2. Cardinality(S) \in Nat
    BY FiniteAssumption, FS_Subset, FS_CardinalityType
  <1>3. q \in Seq(S)
    BY <1>1, <1>2
  <1> QED BY <1>1, <1>3, SeqMonotonic

(* What taking the head off a queue and adding a list does to its elements. *)
LEMMA Requeued ==
  ASSUME NEW s \in Seq(Nodes), s # <<>>, NEW q \in Seq(Nodes)
  PROVE  /\ Head(s) \in ToSet(s) /\ Tail(s) \o q \in Seq(Nodes)
         /\ ToSet(s) \subseteq {Head(s)} \union ToSet(Tail(s) \o q)
         /\ ToSet(q) \subseteq ToSet(Tail(s) \o q)
         /\ ToSet(Tail(s) \o q) \subseteq ToSet(s) \union ToSet(q)
  <1> DEFINE t == Tail(s)
             u == t \o q
  <1>1. /\ t \in Seq(Nodes) /\ Len(t) = Len(s) - 1 /\ Len(s) \in Nat /\ Len(s) >= 1
        /\ \A i \in 1..Len(t) : t[i] = s[i + 1]
        /\ Head(s) = s[1]
    BY HeadTailProperties
  <1>2. Len(q) \in Nat /\ Len(t) \in Nat
    BY <1>1
  <1> HIDE DEF t
  <1>3. /\ u \in Seq(Nodes) /\ Len(u) = Len(t) + Len(q)
        /\ \A i \in 1..Len(t) + Len(q) : u[i] = IF i <= Len(t) THEN t[i] ELSE q[i - Len(t)]
    BY <1>1, ConcatProperties
  <1> HIDE DEF u
  <1>4. /\ DOMAIN s = 1..Len(s) /\ DOMAIN q = 1..Len(q) /\ DOMAIN u = 1..(Len(t) + Len(q))
    BY <1>3
  <1>5. Head(s) \in ToSet(s)
    BY <1>1, <1>4 DEF ToSet
  <1>6. ASSUME NEW i \in 1..Len(s) PROVE s[i] \in {Head(s)} \union ToSet(u)
    <2>1. CASE i = 1
      BY <1>1, <2>1
    <2>2. CASE i # 1
      <3>1. i - 1 \in 1..Len(t) /\ i - 1 \in 1..(Len(t) + Len(q))
        BY <1>1, <1>2, <1>6, <2>2
      <3>2. u[i - 1] = s[i]
        BY <1>1, <1>3, <1>6, <3>1
      <3> QED BY <1>4, <3>1, <3>2 DEF ToSet
    <2> QED BY <2>1, <2>2
  <1>7. ASSUME NEW i \in 1..Len(q) PROVE q[i] \in ToSet(u)
    <2>1. i + Len(t) \in 1..(Len(t) + Len(q)) /\ ~(i + Len(t) <= Len(t))
          /\ (i + Len(t)) - Len(t) = i
      BY <1>2, <1>7
    <2>2. u[i + Len(t)] = q[i]
      BY <1>3, <2>1
    <2> QED BY <1>4, <2>1, <2>2 DEF ToSet
  <1>8. ASSUME NEW i \in 1..(Len(t) + Len(q)) PROVE u[i] \in ToSet(s) \union ToSet(q)
    <2>1. CASE i <= Len(t)
      <3>1. i \in 1..Len(t) /\ i + 1 \in 1..Len(s)
        BY <1>1, <1>2, <1>8, <2>1
      <3> QED BY <1>1, <1>3, <1>4, <1>8, <2>1, <3>1 DEF ToSet
    <2>2. CASE ~(i <= Len(t))
      <3>1. i - Len(t) \in 1..Len(q)
        BY <1>2, <1>8, <2>2
      <3> QED BY <1>3, <1>4, <1>8, <2>2, <3>1 DEF ToSet
    <2> QED BY <2>1, <2>2
  <1>9. u = Tail(s) \o q
    BY DEF u, t
  <1>10. ToSet(s) \subseteq {Head(s)} \union ToSet(u)
    BY <1>4, <1>6 DEF ToSet
  <1>11. ToSet(q) \subseteq ToSet(u)
    BY <1>4, <1>7 DEF ToSet
  <1>12. ToSet(u) \subseteq ToSet(s) \union ToSet(q)
    BY <1>4, <1>8 DEF ToSet
  <1> QED BY <1>3, <1>5, <1>9, <1>10, <1>11, <1>12

(* The queue starts with the changed modules, and nothing else is reached.  *)
LEMMA ImpactInit == ASSUME ScriptInit PROVE ImpactInv
  <1>1. edges \subseteq Nodes \X Nodes
    BY DEF ScriptInit, Init
  <1>2. files \subseteq I!File
    BY DEF ScriptInit, InitImpact, InitCheck, kSubset
  <1>3. impacted = {} /\ queue \in I!Orderings(I!Changed) /\ exitCode = Running
    BY DEF ScriptInit, I!Init
  <1>4. queue \in Seq(Nodes) /\ ToSet(queue) = I!Changed
    BY <1>2, <1>3, ChangedAreNodes, OrderingIsList
  <1>5. Reached = I!Changed
    BY <1>3 DEF Reached
  <1>6. Expanded /\ Needed
    BY <1>4, <1>5 DEF Expanded, Needed
  <1> QED BY <1>1, <1>2, <1>3, <1>4, <1>5, <1>6, RunningAssumption DEF ImpactInv, Graph, Searched

(* What no step changes.                                                    *)
LEMMA Frozen ==
  ASSUME [ScriptNext]_scriptVars
  PROVE  /\ edges' = edges /\ files' = files /\ layer' = layer
         /\ mode' = "--impact" => mode = "--impact"
  BY DEF ScriptNext, ComputeImpact, WriteArtifact, RejectArtifact, Check, CheckArchitecture,
         Search, ReturnReport, Next, VisitRoot, Look, Return, scriptVars, archVars, vars

(* A turn of the loop over the queue keeps the invariant of the search.     *)
LEMMA ImpactStep == ASSUME ImpactInv, [ScriptNext]_scriptVars PROVE ImpactInv'
  <1>1. /\ I!Changed' = I!Changed /\ Graph' = Graph
        /\ \A n : I!Dependents(n)' = I!Dependents(n)
        /\ \A S : Closed(S)' = Closed(S)
    BY Frozen DEF I!Changed, I!Mapped, I!Dependents, I!File, Declared, Graph, Closed
  <1>2. SUFFICES ASSUME mode = "--impact", Searched, Graph PROVE Searched'
    BY <1>1, Frozen DEF ImpactInv
  <1>3. CASE UNCHANGED <<impacted, queue, exitCode>>
    <2>1. Reached' = Reached
      BY <1>1, <1>3 DEF Reached
    <2> QED BY <1>1, <1>2, <1>3, <2>1 DEF Searched, Expanded, Needed
  <1>4. CASE I!Computed /\ UNCHANGED <<impacted, queue>>
    <2>1. Reached' = Reached /\ queue = <<>>
      BY <1>1, <1>4 DEF Reached, I!Computed
    <2> QED BY <1>1, <1>2, <1>4, <2>1 DEF Searched, Expanded, Needed
  <1>5. CASE I!VisitDependents /\ exitCode = Running /\ UNCHANGED exitCode
    <2> DEFINE h == Head(queue)
               new == I!Dependents(h) \ (I!Changed \union impacted)
    <2>1. queue # <<>> /\ impacted' = impacted \union new
      BY <1>5 DEF I!VisitDependents
    <2>2. PICK q \in I!Orderings(new) : queue' = Tail(queue) \o q
      BY <1>5 DEF I!VisitDependents
    <2>3. new \subseteq Nodes
      BY DEF I!Dependents
    <2>4. q \in Seq(Nodes) /\ ToSet(q) = new
      BY <2>2, <2>3, OrderingIsList
    <2>5. /\ h \in ToSet(queue) /\ queue' \in Seq(Nodes)
          /\ ToSet(queue) \subseteq {h} \union ToSet(queue')
          /\ new \subseteq ToSet(queue')
          /\ ToSet(queue') \subseteq ToSet(queue) \union new
      BY <1>2, <2>1, <2>2, <2>4, Requeued DEF Searched
    <2>6. Reached' = Reached \union new /\ I!Dependents(h) \subseteq Reached \union new
      BY <1>1, <2>1 DEF Reached
    <2> HIDE DEF h, new
    <2>7. Expanded'
      BY <1>1, <1>2, <2>5, <2>6 DEF Searched, Expanded
    <2>8. Needed'
      <3> SUFFICES ASSUME NEW S \in SUBSET Nodes, I!Changed \subseteq S, Closed(S)
                   PROVE  Reached \union new \subseteq S
        BY <1>1, <2>6 DEF Needed
      <3>1. Reached \subseteq S /\ h \in S
        BY <1>2, <2>5 DEF Searched, Needed
      <3>2. new \subseteq S
        BY <3>1 DEF new, I!Dependents, Closed
      <3> QED BY <3>1, <3>2
    <2>9. impacted' \subseteq Nodes /\ ToSet(queue') \subseteq Reached' /\ exitCode' # 0
      BY <1>2, <1>5, <2>1, <2>3, <2>5, <2>6, RunningAssumption DEF Searched
    <2> QED BY <2>5, <2>7, <2>8, <2>9 DEF Searched
  <1> QED BY <1>2, <1>3, <1>4, <1>5 DEF ScriptNext, ComputeImpact, WriteArtifact,
             RejectArtifact, Check, scriptVars

(* An impact report demands what each declared module demands that          *)
(* transitively depends on the module of a changed file, and nothing more.  *)
THEOREM ReportIsExact == ScriptSpec => []ImpactIsExact
  <1>1. ASSUME ImpactInv PROVE ImpactIsExact
    <2> DEFINE owners == {f.module : f \in {g \in files : g.scanned \/ g.module \in Declared}}
               dependents == {n \in Nodes : \A S \in SUBSET Nodes :
                                owners \subseteq S /\ Closed(S) => n \in S}
    <2> SUFFICES ASSUME mode = "--impact", exitCode = 0
                 PROVE  I!Demanding = dependents \intersect Declared
      BY DEF ImpactIsExact
    <2>1. owners = I!Changed
      BY DEF I!Changed, I!Mapped
    <2>2. Graph /\ Searched /\ queue = <<>>
      BY <1>1 DEF ImpactInv, Searched
    <2>3. Reached \subseteq Nodes
      BY <2>2, ChangedAreNodes DEF Reached, Searched, Graph
    <2>4. Closed(Reached)
      <3>1. ToSet(queue) = {}
        BY <2>2 DEF ToSet
      <3> SUFFICES ASSUME NEW e \in edges, e[2] \in Reached PROVE e[1] \in Reached
        BY DEF Closed
      <3>2. e[1] \in I!Dependents(e[2])
        BY <2>2 DEF I!Dependents, Graph
      <3> QED BY <2>2, <3>1, <3>2 DEF Searched, Expanded
    <2>5. dependents \subseteq Reached
      BY <2>1, <2>3, <2>4 DEF Reached
    <2>6. Reached \subseteq dependents
      BY <2>1, <2>2, <2>3 DEF Searched, Needed
    <2> QED BY <2>5, <2>6 DEF I!Demanding, Reached
  <1> QED BY ImpactInit, ImpactStep, <1>1, PTL DEF ScriptSpec

----------------------------------------------------------------------------
(* The reports, and the shape of every state.                               *)

\* At most one report is made, of the search as it ended.
Filed == report \subseteq {Report} /\ (report # {} => Finished)

\* Without --impact nothing is impacted; and no changed module is.
Quiet ==
  /\ mode # "--impact" => impacted = {} /\ ToSet(queue) = {}
  /\ impacted \intersect I!Changed = {}

ScriptInv ==
  /\ SInv /\ ImpactInv /\ Filed /\ Quiet
  /\ exceptions \in Exceptions /\ exitCode \in {Running, 0, 1}

----------------------------------------------------------------------------
(* The command starts with all that is known of it.                         *)
LEMMA ScriptInvInit == ASSUME ScriptInit PROVE ScriptInv
  <1>1. impacted = {} /\ queue \in I!Orderings(I!Changed)
    BY DEF ScriptInit, I!Init
  <1>2. mode # "--impact" => files = {}
    BY DEF ScriptInit, InitImpact, InitCheck
  <1>3. ASSUME files = {} PROVE ToSet(queue) = {}
    <2>1. I!Changed = {}
      BY <1>3 DEF I!Changed
    <2> QED BY <1>1, <2>1, OrderingIsList
  <1>4. exceptions \in Exceptions
    BY ExceptionsAssumption DEF ScriptInit, InitImpact, InitCheck
  <1>5. report = {} /\ exitCode = Running
    BY DEF ScriptInit
  <1> QED BY <1>1, <1>2, <1>3, <1>4, <1>5, ScriptInitSInv, ImpactInit
          DEF ScriptInv, Filed, Quiet

(* A report that is made is that of the search as it ended.                 *)
LEMMA FiledStep == ASSUME SInv, Filed, [ScriptNext]_scriptVars PROVE Filed'
  <1>1. CASE UNCHANGED scriptVars
    <2>1. UNCHANGED <<edges, stack, roots, cycles, scanned, layer, exceptions, report>>
      BY <1>1 DEF scriptVars, archVars, vars
    <2>2. Report' = Report /\ Finished' = Finished
      BY <2>1 DEF Finished, Report, MissingLayers, UnknownModules,
         ForbiddenEdges, ExceptionsApplied, AgainstTheLayers, Cycles, Declared, Layered
    <2> QED BY <2>1, <2>2 DEF Filed
  <1>2. CASE ReturnReport
    <2>1. UNCHANGED <<edges, stack, roots, cycles, scanned, layer, exceptions>> /\ report' = {Report}
      BY <1>2 DEF ReturnReport, vars
    <2>2. Report' = Report /\ Finished' = Finished
      BY <2>1 DEF Finished, Report, MissingLayers, UnknownModules,
         ForbiddenEdges, ExceptionsApplied, AgainstTheLayers, Cycles, Declared, Layered
    <2> QED BY <1>2, <2>1, <2>2 DEF Filed, ReturnReport
  <1>3. CASE ScriptNext /\ ~ReturnReport
    <2>1. exitCode = Running /\ report' = report
      BY <1>3 DEF ScriptNext, ComputeImpact, WriteArtifact, RejectArtifact, Check,
         CheckArchitecture, Search, archVars
    <2>2. report' = {}
      BY <2>1 DEF SInv, Unreported
    <2> QED BY <2>2 DEF Filed
  <1> QED BY <1>1, <1>2, <1>3

(* Only a command that computes an impact touches the queue.                *)
LEMMA QuietStep == ASSUME Quiet, [ScriptNext]_scriptVars PROVE Quiet'
  <1>1. I!Changed' = I!Changed
    BY Frozen DEF I!Changed, I!Mapped, Declared
  <1>2. CASE ComputeImpact
    <2>1. CASE I!VisitDependents
      BY <1>1, <1>2, <2>1 DEF ComputeImpact, I!VisitDependents, Quiet
    <2>2. CASE UNCHANGED <<impacted, queue>>
      BY <1>1, <1>2, <2>2 DEF ComputeImpact, Quiet
    <2> QED BY <1>2, <2>1, <2>2 DEF ComputeImpact
  <1>3. CASE UNCHANGED <<impacted, queue>> /\ (mode' # "--impact" => mode # "--impact")
    BY <1>1, <1>3 DEF Quiet
  <1> QED BY <1>2, <1>3 DEF ScriptNext, WriteArtifact, RejectArtifact, Check, scriptVars

(* Every step of the command keeps all that is known of it.                 *)
LEMMA ScriptInvStep == ASSUME ScriptInv, [ScriptNext]_scriptVars PROVE ScriptInv'
  <1>1. UNCHANGED exceptions
    BY DEF ScriptNext, ComputeImpact, WriteArtifact, RejectArtifact, Check, CheckArchitecture,
       Search, ReturnReport, scriptVars, archVars
  <1>2. exitCode' \in {Running, 0, 1}
    BY DEF ScriptInv, ScriptNext, ComputeImpact, WriteArtifact, RejectArtifact, Check, scriptVars
  <1> QED BY <1>1, <1>2, ScriptStepSInv, ImpactStep, FiledStep, QuietStep DEF ScriptInv

(* All of this holds throughout a command.                                  *)
LEMMA ScriptInvariance == ScriptSpec => []ScriptInv
  BY ScriptInvInit, ScriptInvStep, PTL DEF ScriptSpec

(* Every state has the shapes that the code gives it; one report is made.   *)
THEOREM ScriptTypeCorrect == ScriptSpec => []ScriptTypeOK
  <1>1. ASSUME ScriptInv PROVE ScriptTypeOK
    <2>1. /\ TypeOK /\ layer \in [Nodes -> Orders \union {Undeclared, NoLayer}]
          /\ scanned \subseteq Nodes /\ edges \subseteq scanned \X scanned
      BY <1>1 DEF ScriptInv, SInv, IInv, LayerOK, ScanOK
    <2>2. \A r \in report : r.valid = (r.violations = {})
      BY <1>1 DEF ScriptInv, Filed, Report
    <2>3. Cardinality(report) <= 1
      <3>1. CASE report = {}
        BY <3>1, FS_EmptySet
      <3>2. CASE report = {Report}
        <4>1. Cardinality({Report}) = 1
          BY FS_Singleton, Zenon
        <4> QED BY <3>2, <4>1
      <3> QED BY <1>1, <3>1, <3>2 DEF ScriptInv, Filed
    <2>4. impacted \subseteq Nodes \ I!Changed /\ ToSet(queue) \subseteq I!Changed \union impacted
      BY <1>1 DEF ScriptInv, Quiet, ImpactInv, Searched, Reached
    <2> QED BY <1>1, <2>1, <2>2, <2>3, <2>4 DEF ScriptInv, ScriptTypeOK
  <1> QED BY <1>1, ScriptInvariance, PTL

(* Layers that only point down have no cycle: the module of least layer in  *)
(* one would depend on a module of a lower layer.                           *)
LEMMA DownwardHasNoKnot ==
  ASSUME ScanOK, scanned \subseteq Layered, \A e \in edges : layer[e[2]] < layer[e[1]],
         NEW S \in SUBSET Nodes, Knot(S)
  PROVE  FALSE
  <1> DEFINE Levels == {layer[n] : n \in S}
  <1>0. S \subseteq Layered
    <2>1. \A n \in S : \E m : <<n, m>> \in edges
      BY DEF Knot, Succ
    <2> QED BY <2>1 DEF ScanOK
  <1>1. Levels \subseteq Nat /\ Levels # {}
    BY <1>0, OrdersAssumption DEF Layered, Knot
  <1>2. PICK k \in Levels : \A m \in Levels : ~(<<m, k>> \in OpToRel(<, Nat))
    <2> HIDE DEF Levels
    <2> QED BY <1>1, WFMin, NatLessThanWellFounded
  <1>3. \A m \in Levels : ~(m < k)
    BY <1>1, <1>2 DEF OpToRel
  <1>4. PICK n \in S : layer[n] = k
    OBVIOUS
  <1>5. PICK m \in S : <<n, m>> \in edges
    BY DEF Knot, Succ
  <1>6. layer[m] < layer[n]
    BY <1>5
  <1> QED BY <1>3, <1>4, <1>6

(* Where a cycle is reported, its cause is too: a violation of another kind *)
(* or an exception that was applied (contracts/architecture.ts:104).        *)
THEOREM CyclesAreExplained == ScriptSpec => []CyclesHaveACause
  <1>1. ASSUME ScriptInv PROVE CyclesHaveACause
    <2> SUFFICES ASSUME report = {Report}, Finished,
                        NEW v \in Report.violations, v.code = "ARCH_CYCLE",
                        \A w \in Report.violations : w.code = "ARCH_CYCLE",
                        Report.exceptionsApplied = {}
                 PROVE  FALSE
      BY <1>1 DEF ScriptInv, Filed, CyclesHaveACause
    <2>1. IInv /\ LayerOK /\ ScanOK
      BY <1>1 DEF ScriptInv, SInv
    <2>2. /\ Report.violations = MissingLayers \union UnknownModules \union ForbiddenEdges \union Cycles
          /\ ExceptionsApplied = {}
      BY DEF Report
    <2>3. \A w \in MissingLayers \union UnknownModules \union ForbiddenEdges : w.code # "ARCH_CYCLE"
      BY DEF MissingLayers, UnknownModules, ForbiddenEdges, Violation
    <2>4. MissingLayers = {} /\ UnknownModules = {} /\ ForbiddenEdges = {}
      BY <2>2, <2>3
    <2>5. scanned \subseteq Layered
      BY <2>1, <2>4, AllHaveLayers
    <2>6. \A e \in edges : layer[e[2]] < layer[e[1]]
      BY <2>1, <2>2, <2>4, <2>5, OthersPointDown DEF ExceptionsApplied
    <2>7. cycles # <<>>
      BY <2>2, <2>4 DEF Cycles
    <2>8. PICK S \in SUBSET Nodes : Knot(S)
      BY <2>1, <2>7, Answer DEF FoundIffCyclic
    <2> QED BY <2>1, <2>5, <2>6, <2>8, DownwardHasNoKnot
  <1> QED BY <1>1, ScriptInvariance, PTL

----------------------------------------------------------------------------
(* Every command ends.  What is left to do is counted: a turn of the outer  *)
(* loop or of the loop in visit starts at most one visit, and dependents    *)
(* that a turn of the loop over the queue adds to it are impacted from then *)
(* on.                                                                      *)

Unseen == {e \in Nodes \X Nodes : e[2] \in todo[e[1]]}

SearchLeft == 2 * Cardinality(roots) + 2 * Cardinality(Unseen) + Len(stack)

ImpactLeft == Len(queue) + Cardinality(Nodes \ impacted)

StepsLeft ==
  (IF exitCode = Running THEN 1 ELSE 0)
  + (IF mode = "--impact" THEN ImpactLeft
     ELSE (IF mode = "--write" THEN 1 ELSE 0) + SearchLeft)

\* The guards of the step that is next.
HasNext ==
  \/ mode = "--impact" /\ I!Computed
  \/ /\ mode = "--impact" /\ queue # <<>>
     /\ I!Orderings(I!Dependents(Head(queue)) \ (I!Changed \union impacted)) # {}
  \/ mode = "--write"
  \/ mode = "" /\ ~Accepted
  \/ /\ mode = "" /\ Accepted
     /\ \/ stack = <<>> /\ \E n \in Nodes : Least(n, roots)
        \/ stack # <<>> /\ \E n \in Nodes : Least(n, todo[Top])
        \/ stack # <<>> /\ todo[Top] = {}
        \/ Finished /\ report = {}

ModeOK == mode \in {"", "--write", "--impact"}

----------------------------------------------------------------------------
(* A set of modules is finite, and so is a set of pairs of them.            *)
LEMMA SubsetsAreFinite ==
  /\ \A S \in SUBSET Nodes : IsFiniteSet(S) /\ Cardinality(S) \in Nat
  /\ \A S \in SUBSET (Nodes \X Nodes) : IsFiniteSet(S) /\ Cardinality(S) \in Nat
  <1>1. IsFiniteSet(Nodes \X Nodes)
    BY FiniteAssumption, FS_Product
  <1> QED BY <1>1, FiniteAssumption, FS_Subset, FS_CardinalityType

(* What is left of the search is a number.                                  *)
LEMMA SearchLeftType ==
  ASSUME TypeOK
  PROVE  /\ IsFiniteSet(roots) /\ Cardinality(roots) \in Nat
         /\ IsFiniteSet(Unseen) /\ Cardinality(Unseen) \in Nat
         /\ Len(stack) \in Nat
         /\ SearchLeft \in Nat
  <1>1. Unseen \in SUBSET (Nodes \X Nodes)
    BY DEF Unseen
  <1>2. IsFiniteSet(roots) /\ Cardinality(roots) \in Nat
    BY SubsetsAreFinite DEF TypeOK
  <1>3. IsFiniteSet(Unseen) /\ Cardinality(Unseen) \in Nat
    BY <1>1, SubsetsAreFinite
  <1>4. Len(stack) \in Nat
    BY DEF TypeOK
  <1> QED BY <1>2, <1>3, <1>4 DEF SearchLeft

(* Each step of the search leaves less of it.                               *)
LEMMA SearchStepsDown ==
  ASSUME TypeOK, TypeOK', Next
  PROVE  SearchLeft' \in Nat /\ SearchLeft' < SearchLeft
  <1> DEFINE R == Cardinality(roots)
             U == Cardinality(Unseen)
             L == Len(stack)
  <1>1. R \in Nat /\ U \in Nat /\ L \in Nat /\ IsFiniteSet(roots) /\ IsFiniteSet(Unseen)
    BY SearchLeftType
  <1>2. stack \in Seq(Nodes) /\ stack' \in Seq(Nodes)
    BY DEF TypeOK
  <1>6. Cardinality(roots') \in Nat /\ Cardinality(Unseen') \in Nat /\ Len(stack') \in Nat
    <2>1. Unseen' \subseteq Nodes \X Nodes /\ roots' \subseteq Nodes
      BY DEF Unseen, TypeOK
    <2> QED BY <1>2, <2>1, SubsetsAreFinite
  <1>7. /\ SearchLeft = 2 * R + 2 * U + L
        /\ SearchLeft' = 2 * Cardinality(roots') + 2 * Cardinality(Unseen') + Len(stack')
    BY DEF SearchLeft
  <1> HIDE DEF R, U, L
  <1>3. ASSUME NEW n \in Nodes, VisitRoot(n) PROVE SearchLeft' < SearchLeft
    <2>1. n \in roots /\ roots' = roots \ {n} /\ stack = <<>> /\ todo' = todo
      BY <1>3 DEF VisitRoot, Least
    <2>2. Cardinality(roots') = R - 1
      BY <1>1, <2>1, FS_RemoveElement DEF R
    <2>3. Cardinality(Unseen') = U
      BY <2>1 DEF Unseen, U
    <2>4. L = 0 /\ (Len(stack') = 0 \/ Len(stack') = 1)
      BY <1>3, <2>1 DEF VisitRoot, L
    <2>5. \A r, u \in Nat : \A l \in {0, 1} : 2 * (r - 1) + 2 * u + l < 2 * r + 2 * u + 0
      OBVIOUS
    <2>6. /\ SearchLeft = 2 * R + 2 * U + 0
          /\ SearchLeft' = 2 * (R - 1) + 2 * U + Len(stack')
      BY <1>7, <2>2, <2>3, <2>4
    <2>7. Len(stack') \in {0, 1}
      BY <2>4
    <2> QED BY <1>1, <2>5, <2>6, <2>7, Zenon
  <1>4. ASSUME NEW n \in Nodes, Look(n) PROVE SearchLeft' < SearchLeft
    <2>1. /\ stack # <<>> /\ n \in todo[Top] /\ roots' = roots
          /\ todo' = [todo EXCEPT ![Top] = @ \ {n}]
      BY <1>4 DEF Look, Least
    <2>2. Top \in Nodes
      BY <1>2, <2>1 DEF Top
    <2>3. todo \in [Nodes -> SUBSET Nodes]
      BY DEF TypeOK
    <2>4. <<Top, n>> \in Unseen /\ Unseen' = Unseen \ {<<Top, n>>}
      BY <2>1, <2>2, <2>3 DEF Unseen
    <2>5. Cardinality(Unseen') = U - 1
      BY <1>1, <2>4, FS_RemoveElement DEF U
    <2>6. Len(stack') = L \/ Len(stack') = L + 1
      BY <1>2, <1>4 DEF Look, L
    <2>7. Cardinality(roots') = R
      BY <2>1 DEF R
    <2> QED BY <1>1, <1>6, <1>7, <2>5, <2>6, <2>7
  <1>5. ASSUME Return PROVE SearchLeft' < SearchLeft
    <2>1. Cardinality(roots') = R /\ Cardinality(Unseen') = U
      BY <1>5 DEF Return, Unseen, R, U
    <2>2. stack # <<>> /\ stack' = SubSeq(stack, 1, Len(stack) - 1)
      BY <1>5 DEF Return
    <2>3. stack \in Seq(Nodes) /\ Len(stack) \in Nat /\ DOMAIN stack = 1..Len(stack)
      BY <1>2
    <2>4. Len(stack') = L - 1
      BY <2>2, <2>3 DEF L
    <2> QED BY <1>1, <1>6, <1>7, <2>1, <2>4
  <1>8. SearchLeft' \in Nat
    BY <1>6, <1>7
  <1> QED BY <1>3, <1>4, <1>5, <1>8 DEF Next

----------------------------------------------------------------------------
(* The elements of a finite set can be listed once each.                    *)
LEMMA OrderingIsLong ==
  ASSUME NEW S \in SUBSET Nodes
  PROVE  /\ \A q \in I!Orderings(S) : Len(q) = Cardinality(S)
         /\ I!Orderings(S) # {}
  <1>1. Cardinality(S) \in Nat /\ ExistsBijection(1..Cardinality(S), S)
    BY SubsetsAreFinite, FS_CardinalityType
  <1>2. ASSUME NEW q \in I!Orderings(S) PROVE Len(q) = Cardinality(S)
    <2>1. q \in [1..Cardinality(S) -> S]
      BY DEF I!Orderings, I!Cardinality, Cardinality
    <2> QED BY <1>1, <2>1
  <1>3. PICK q \in Bijection(1..Cardinality(S), S) : TRUE
    BY <1>1 DEF ExistsBijection
  <1>4. q \in [1..Cardinality(S) -> S] /\ \A x \in S : \E i \in 1..Cardinality(S) : q[i] = x
    BY <1>3 DEF Bijection, Surjection
  <1>5. ToSet(q) = S
    BY <1>4 DEF ToSet
  <1>6. q \in I!Orderings(S)
    BY <1>4, <1>5 DEF I!Orderings, I!ToSet, ToSet, I!Cardinality, Cardinality
  <1> QED BY <1>2, <1>6

(* What is left of an impact report is a number.                            *)
LEMMA ImpactLeftType ==
  ASSUME Searched PROVE ImpactLeft \in Nat
  BY SubsetsAreFinite DEF Searched, ImpactLeft

(* Each turn of the loop over the queue leaves less of it.                  *)
LEMMA ImpactStepsDown ==
  ASSUME Searched, I!VisitDependents
  PROVE  ImpactLeft' \in Nat /\ ImpactLeft' < ImpactLeft
  <1> DEFINE new == I!Dependents(Head(queue)) \ (I!Changed \union impacted)
             rest == Nodes \ impacted
  <1>1. queue # <<>> /\ impacted' = impacted \union new
    BY DEF I!VisitDependents
  <1>2. PICK q \in I!Orderings(new) : queue' = Tail(queue) \o q
    BY DEF I!VisitDependents
  <1>3. new \in SUBSET rest /\ new \in SUBSET Nodes /\ rest \in SUBSET Nodes
    BY DEF I!Dependents
  <1> HIDE DEF new
  <1>4. q \in Seq(Nodes) /\ Len(q) = Cardinality(new)
    BY <1>2, <1>3, OrderingIsList, OrderingIsLong
  <1>5. Len(queue') = Len(queue) - 1 + Cardinality(new) /\ Len(queue) \in Nat
    BY <1>1, <1>2, <1>4, HeadTailProperties, ConcatProperties DEF Searched
  <1>6. Nodes \ impacted' = rest \ new /\ rest \intersect new = new
    BY <1>1, <1>3
  <1> HIDE DEF rest
  <1>7. Cardinality(rest \ new) = Cardinality(rest) - Cardinality(new)
    BY <1>3, <1>6, SubsetsAreFinite, FS_Difference
  <1>8. Cardinality(rest) \in Nat /\ Cardinality(new) \in Nat
    BY <1>3, SubsetsAreFinite
  <1>9. ImpactLeft' = Len(queue') + Cardinality(rest \ new)
    BY <1>6 DEF ImpactLeft
  <1>10. ImpactLeft = Len(queue) + Cardinality(rest)
    BY DEF ImpactLeft, rest
  <1>11. Cardinality(rest \ new) \in Nat /\ Len(queue') \in Nat
    <2>1. rest \ new \in SUBSET Nodes
      BY <1>3
    <2>2. queue' \in Seq(Nodes)
      BY <1>1, <1>2, <1>4, HeadTailProperties, ConcatProperties DEF Searched
    <2> QED BY <2>1, <2>2, SubsetsAreFinite
  <1> QED BY <1>5, <1>7, <1>8, <1>9, <1>10, <1>11

----------------------------------------------------------------------------
(* A command has one of three modes.                                        *)
LEMMA ModeInvariance == ScriptSpec => []ModeOK
  <1>1. ScriptInit => ModeOK
    BY DEF ScriptInit, InitImpact, InitCheck, ModeOK
  <1>2. ModeOK /\ [ScriptNext]_scriptVars => ModeOK'
    BY DEF ModeOK, ScriptNext, ComputeImpact, WriteArtifact, RejectArtifact, Check, scriptVars
  <1> QED BY <1>1, <1>2, PTL DEF ScriptSpec

(* What a command has left to do is a number.                               *)
LEMMA StepsLeftType ==
  ASSUME ScriptInv PROVE StepsLeft \in Nat
  <1>1. SearchLeft \in Nat
    BY SearchLeftType DEF ScriptInv, SInv, IInv
  <1>2. mode = "--impact" => ImpactLeft \in Nat
    BY ImpactLeftType DEF ScriptInv, ImpactInv
  <1> QED BY <1>1, <1>2 DEF StepsLeft

(* Each step of a command leaves less to do.                                *)
LEMMA StepsDown ==
  ASSUME ScriptInv, ScriptInv', ScriptNext
  PROVE  StepsLeft' < StepsLeft
  <1>1. TypeOK /\ TypeOK'
    BY DEF ScriptInv, SInv, IInv
  <1>2. SearchLeft \in Nat
    BY <1>1, SearchLeftType
  <1>3. exitCode = Running
    BY DEF ScriptNext, ComputeImpact, WriteArtifact, RejectArtifact, Check
  <1>4. CASE ComputeImpact
    <2>1. mode = "--impact" /\ mode' = "--impact" /\ Searched
      BY <1>4 DEF ComputeImpact, ScriptInv, ImpactInv
    <2>2. ImpactLeft \in Nat
      BY <2>1, ImpactLeftType
    <2>3. CASE I!VisitDependents /\ UNCHANGED exitCode
      <3>1. ImpactLeft' \in Nat /\ ImpactLeft' < ImpactLeft
        BY <2>1, <2>3, ImpactStepsDown
      <3>2. StepsLeft = 1 + ImpactLeft /\ StepsLeft' = 1 + ImpactLeft'
        BY <1>3, <2>1, <2>3 DEF StepsLeft
      <3>3. \A a, b \in Nat : a < b => 1 + a < 1 + b
        OBVIOUS
      <3> QED BY <2>2, <3>1, <3>2, <3>3, Zenon
    <2>4. CASE exitCode' = 0 /\ UNCHANGED <<impacted, queue>>
      <3>1. ImpactLeft' = ImpactLeft
        BY <2>4 DEF ImpactLeft
      <3>2. StepsLeft = 1 + ImpactLeft /\ StepsLeft' = 0 + ImpactLeft'
        BY <1>3, <2>1, <2>4, RunningAssumption DEF StepsLeft
      <3> QED BY <2>2, <3>1, <3>2
    <2> QED BY <1>4, <2>3, <2>4 DEF ComputeImpact
  <1>5. ASSUME UNCHANGED <<stack, todo, roots>> PROVE SearchLeft' = SearchLeft
    BY <1>5 DEF SearchLeft, Unseen
  <1>6. CASE WriteArtifact
    <2>1. mode = "--write" /\ mode' = "" /\ exitCode' = exitCode
      BY <1>6 DEF WriteArtifact
    <2>2. SearchLeft' = SearchLeft
      BY <1>5, <1>6 DEF WriteArtifact, vars
    <2>3. StepsLeft = 1 + (1 + SearchLeft) /\ StepsLeft' = 1 + (0 + SearchLeft')
      BY <1>3, <2>1 DEF StepsLeft
    <2> QED BY <1>2, <2>2, <2>3
  <1>7. CASE RejectArtifact
    <2>1. mode = "" /\ mode' = "" /\ exitCode' # Running
      BY <1>7, RunningAssumption DEF RejectArtifact
    <2>2. SearchLeft' = SearchLeft
      BY <1>5, <1>7 DEF RejectArtifact, vars
    <2>3. StepsLeft = 1 + (0 + SearchLeft) /\ StepsLeft' = 0 + (0 + SearchLeft')
      BY <1>3, <2>1 DEF StepsLeft
    <2> QED BY <1>2, <2>2, <2>3
  <1>8. CASE Check /\ Search
    <2>1. mode = "" /\ mode' = "" /\ report' = report
      BY <1>8 DEF Check, Search, archVars
    <2>2. SearchLeft' \in Nat /\ SearchLeft' < SearchLeft
      BY <1>1, <1>8, SearchStepsDown DEF Search
    <2>3. exitCode' = Running
      BY <1>3, <1>8, <2>1 DEF Check, ScriptInv, SInv, Unreported
    <2>4. StepsLeft = 1 + (0 + SearchLeft) /\ StepsLeft' = 1 + (0 + SearchLeft')
      BY <1>3, <2>1, <2>3 DEF StepsLeft
    <2>5. \A a, b \in Nat : a < b => 1 + (0 + a) < 1 + (0 + b)
      OBVIOUS
    <2> QED BY <1>2, <2>2, <2>4, <2>5, Zenon
  <1>9. CASE Check /\ ReturnReport
    <2>1. mode = "" /\ mode' = "" /\ exitCode' # Running
      BY <1>9, RunningAssumption DEF Check, ReturnReport
    <2>2. SearchLeft' = SearchLeft
      BY <1>5, <1>9 DEF ReturnReport, vars
    <2>3. StepsLeft = 1 + (0 + SearchLeft) /\ StepsLeft' = 0 + (0 + SearchLeft')
      BY <1>3, <2>1 DEF StepsLeft
    <2> QED BY <1>2, <2>2, <2>3
  <1> QED BY <1>4, <1>6, <1>7, <1>8, <1>9 DEF ScriptNext, Check, CheckArchitecture

(* Every command ends on every graph, whatever it was asked to do: each of  *)
(* its steps leaves less to do, where what is left is a natural number      *)
(* (architecture.ts:130-161, impact.ts:51-61).                              *)
THEOREM CommandsRunDown ==
  ScriptSpec => [](StepsLeft \in Nat) /\ [][StepsLeft' < StepsLeft]_scriptVars
  <1>1. ScriptInv => StepsLeft \in Nat
    BY StepsLeftType
  <1>2. ScriptInv /\ ScriptInv' /\ [ScriptNext]_scriptVars => [StepsLeft' < StepsLeft]_scriptVars
    BY StepsDown
  <1> QED BY <1>1, <1>2, ScriptInvariance, PTL DEF ScriptSpec

(* A set of modules that is not empty has a least one.                      *)
LEMMA LeastExists ==
  ASSUME NEW S \in SUBSET Nodes, S # {}
  PROVE  \E n \in Nodes : Least(n, S)
  <1>1. S \subseteq Nat
    BY NodesAssumption
  <1>2. PICK k \in S : \A m \in S : ~(<<m, k>> \in OpToRel(<, Nat))
    BY <1>1, WFMin, NatLessThanWellFounded
  <1>3. \A m \in S : ~(m < k)
    BY <1>1, <1>2 DEF OpToRel
  <1>4. \A m \in S : k <= m
    BY <1>1, <1>3
  <1> QED BY <1>4 DEF Least

(* A command that has not exited has a next step: neither the search nor    *)
(* the loop over the queue can be stuck on any graph.                       *)
THEOREM CommandsAreNeverStuck == ScriptSpec => [](exitCode = Running => HasNext)
  <1>1. ASSUME ScriptInv, ModeOK, exitCode = Running PROVE HasNext
    <2>1. CASE mode = "--impact"
      <3> DEFINE new == I!Dependents(Head(queue)) \ (I!Changed \union impacted)
      <3>1. new \in SUBSET Nodes
        BY DEF I!Dependents
      <3>2. I!Orderings(new) # {}
        BY <3>1, OrderingIsLong
      <3> QED BY <2>1, <3>2 DEF HasNext, I!Computed
    <2>2. CASE mode = "" /\ Accepted
      <3>1. TypeOK /\ report = {}
        BY <1>1 DEF ScriptInv, SInv, IInv, Unreported
      <3>2. CASE stack = <<>> /\ roots # {}
        <4>1. \E n \in Nodes : Least(n, roots)
          BY <3>1, <3>2, LeastExists DEF TypeOK
        <4> QED BY <2>2, <3>2, <4>1 DEF HasNext
      <3>3. CASE stack = <<>> /\ roots = {}
        BY <2>2, <3>1, <3>3 DEF HasNext, Finished
      <3>4. CASE stack # <<>> /\ todo[Top] # {}
        <4>1. Top \in Nodes
          BY <3>1, <3>4 DEF TypeOK, Top
        <4>2. todo[Top] \in SUBSET Nodes
          BY <3>1, <4>1 DEF TypeOK
        <4>3. \E n \in Nodes : Least(n, todo[Top])
          BY <3>4, <4>2, LeastExists
        <4> QED BY <2>2, <3>4, <4>3 DEF HasNext
      <3>5. CASE stack # <<>> /\ todo[Top] = {}
        BY <2>2, <3>5 DEF HasNext
      <3> QED BY <3>2, <3>3, <3>4, <3>5
    <2> QED BY <1>1, <2>1, <2>2 DEF ModeOK, HasNext
  <1> QED BY <1>1, ScriptInvariance, ModeInvariance, PTL
=============================================================================
