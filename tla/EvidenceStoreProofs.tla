------------------------ MODULE EvidenceStoreProofs ------------------------
(***************************************************************************)
(* For any number of processes, rings and seals: no interleaving of         *)
(* commands and kills leaves a chain that parses and does not verify, and   *)
(* commands that run one at a time implement an append-only log.            *)
(***************************************************************************)
EXTENDS EvidenceStore, ChainProofs

(* A chain that a running command may hold when n ids were drawn.           *)
Draft(c, n) == /\ IsChain(c) /\ c # <<>>
               /\ Last(c).id \in Nat /\ Last(c).id < n
               /\ \E k \in Rings : VerifyChain(c, k)

Shape ==
  /\ overlap \in BOOLEAN
  /\ disk.kind \in {"absent", "empty", "garbled", "chain"}
  /\ disk.kind # "chain" => disk.chain = <<>>
  /\ pc \in [Procs -> {"idle", "sealed", "truncated", "written"}]
  /\ nextId \in 0..MaxSeals
  /\ killed \in BOOLEAN

(* Every chain in a file or in a process is one that verifies; what was     *)
(* printed has an id that is not drawn again.                               *)
Sound ==
  /\ IsChain(disk.chain) /\ \E k \in Rings : VerifyChain(disk.chain, k)
  /\ DOMAIN mem = Procs
  /\ \A p \in Procs : IF Idle(p) THEN mem[p] = <<>> ELSE Draft(mem[p], nextId)
  /\ \A r \in acked : IsRecord(r) /\ r.id \in Nat /\ r.id < nextId
  /\ IsChain(shown)

Readable == disk.kind \in {"absent", "chain"}

(* A chain keeps whatever was reported and whatever was shown.              *)
Keeps(c) == acked \subseteq Range(c) /\ IsPrefix(shown, c)

(* One at a time: where the running command is says what the file holds.    *)
Serial ==
  /\ \A p, q \in Procs : ~Idle(p) /\ ~Idle(q) => p = q
  /\ disk.kind # "garbled"
  /\ Readable => Keeps(disk.chain)
  /\ disk.kind = "empty" => killed \/ Writing # {}
  /\ \A p \in Procs :
       /\ pc[p] = "sealed" => Readable /\ Front(mem[p]) = disk.chain
       /\ pc[p] = "truncated" => disk.kind = "empty" /\ Keeps(Front(mem[p]))
       /\ pc[p] = "written" => disk.kind = "chain" /\ disk.chain = mem[p]

IInv == Shape /\ Sound /\ (~overlap => Serial)

----------------------------------------------------------------------------
(* The empty chain verifies with every key.                                 *)
LEMMA EmptyChain ==
  /\ IsChain(<<>>) /\ IsSeq(<<>>) /\ Range(<<>>) = {} /\ Len(<<>>) = 0
  /\ \A k : VerifyChain(<<>>, k)
  <1>1. <<>> \in Seq({}) /\ Len(<<>>) = 0 /\ DOMAIN <<>> = {}
    OBVIOUS
  <1>2. Range(<<>>) = {}
    BY <1>1 DEF Range
  <1> QED BY <1>1, <1>2 DEF IsChain, IsSeq, VerifyChain

(* A chain is a prefix of itself.                                           *)
LEMMA PrefixReflexive ==
  ASSUME NEW c, IsSeq(c)
  PROVE  IsPrefix(c, c)
  <1>1. Len(c) \in Nat
    BY DEF IsSeq
  <1> QED BY <1>1, PrefixPointwise

(* A prefix of a prefix is one.                                             *)
LEMMA PrefixTransitive ==
  ASSUME NEW a, IsSeq(a), NEW b, IsSeq(b), NEW c, IsSeq(c),
         IsPrefix(a, b), IsPrefix(b, c)
  PROVE  IsPrefix(a, c)
  <1>1. Len(a) \in Nat /\ Len(b) \in Nat /\ Len(c) \in Nat
    BY DEF IsSeq
  <1>2. Len(a) <= Len(b) /\ \A i \in 1..Len(a) : a[i] = b[i]
    BY PrefixPointwise
  <1>3. Len(b) <= Len(c) /\ \A i \in 1..Len(b) : b[i] = c[i]
    BY PrefixPointwise
  <1>4. Len(a) <= Len(c) /\ \A i \in 1..Len(a) : a[i] = c[i]
    BY <1>1, <1>2, <1>3
  <1> QED BY <1>4, PrefixPointwise

(* A chain without its last record, and with it.                            *)
LEMMA FrontIsShorter ==
  ASSUME NEW c, IsSeq(c), c # <<>>
  PROVE  /\ IsSeq(Front(c)) /\ IsPrefix(Front(c), c)
         /\ Len(c) = Len(Front(c)) + 1
         /\ Range(c) = Range(Front(c)) \union {Last(c)}
  <1>1. c \in Seq(Range(c)) /\ Len(c) \in Nat /\ Len(c) # 0
    BY DEF IsSeq
  <1>2. Len(c) - 1 \in 0..Len(c)
    BY <1>1
  <1>3. /\ IsSeq(Front(c)) /\ Len(Front(c)) = Len(c) - 1
        /\ \A i \in 1..(Len(c) - 1) : Front(c)[i] = c[i]
    BY <1>2, CutIsSeq DEF Front
  <1>4. IsPrefix(Front(c), c)
    BY <1>1, <1>3, PrefixPointwise
  <1>5. Range(c) = Range(Front(c)) \union {Last(c)}
    <2>1. DOMAIN c = 1..Len(c) /\ DOMAIN Front(c) = 1..(Len(c) - 1)
      BY <1>1, <1>3 DEF IsSeq
    <2>2. 1..Len(c) = (1..(Len(c) - 1)) \union {Len(c)}
      BY <1>1
    <2> QED BY <1>3, <2>1, <2>2 DEF Range, Last
  <1> QED BY <1>1, <1>3, <1>4, <1>5

(* Taking off the record that was appended.                                 *)
LEMMA FrontOfAppend ==
  ASSUME NEW c, IsSeq(c), NEW r
  PROVE  Front(Append(c, r)) = c /\ Last(Append(c, r)) = r /\ Append(c, r) # <<>>
  <1> DEFINE d == Append(c, r)
  <1>1. /\ IsSeq(d) /\ Len(c) \in Nat /\ Len(d) = Len(c) + 1
        /\ \A i \in 1..Len(c) : d[i] = c[i]
        /\ d[Len(c) + 1] = r
    BY AppendIsSeq
  <1> HIDE DEF d
  <1>2. Len(d) - 1 = Len(c) /\ Len(c) \in 0..Len(d)
    BY <1>1
  <1>3. /\ IsSeq(SubSeq(d, 1, Len(c))) /\ Len(SubSeq(d, 1, Len(c))) = Len(c)
        /\ \A i \in 1..Len(c) : SubSeq(d, 1, Len(c))[i] = d[i]
    BY <1>1, <1>2, CutIsSeq
  <1>4. Front(d) = c
    <2>1. SubSeq(d, 1, Len(c)) = c
      BY <1>1, <1>3, SeqEqual DEF IsSeq
    <2> QED BY <1>2, <2>1 DEF Front
  <1>5. d # <<>> /\ Last(d) = r
    BY <1>1, <1>2, EmptyChain DEF Last
  <1> QED BY <1>4, <1>5 DEF d

(* What is sealed is a record, with the id it was given.                    *)
LEMMA SealIsRecord ==
  ASSUME NEW c, NEW id, NEW x, NEW a, NEW k
  PROVE  IsRecord(Seal(c, id, x, a, k)) /\ Seal(c, id, x, a, k).id = id
  <1>1. \E n, h, d, g : Seal(c, id, x, a, k) =
          [id |-> id, sequence |-> n, input |-> x, prevDigest |-> h,
           signedBy |-> a, recordDigest |-> d, signature |-> g]
    BY Zenon DEF Seal
  <1> QED BY <1>1 DEF IsRecord

----------------------------------------------------------------------------
(* The store starts in the invariant.                                       *)
LEMMA InitIInv ==
  ASSUME Init
  PROVE  IInv
  <1>1. Shape
    <2>1. overlap \in BOOLEAN /\ killed \in BOOLEAN
      BY Zenon DEF Init
    <2>2. 0 \in 0..MaxSeals
      BY EvidenceStoreAssumption
    <2> QED BY <2>1, <2>2 DEF Init, Shape, Absent
  <1>2. Sound
    BY EvidenceStoreAssumption, EmptyChain DEF Init, Sound, Absent, Idle
  <1>3. Serial
    <2>1. IsPrefix(<<>>, <<>>)
      BY EmptyChain, PrefixReflexive
    <2> QED BY <2>1 DEF Init, Serial, Absent, Idle, Keeps
  <1> QED BY <1>1, <1>2, <1>3 DEF IInv

(* One process moves and the others stay where they are.                    *)
Moves(p, to) == pc' = [pc EXCEPT ![p] = to]

(* A process that moves on leaves the others where they are.                *)
LEMMA Moved ==
  ASSUME Shape, NEW p \in Procs, NEW to \in {"idle", "sealed", "truncated", "written"},
         Moves(p, to)
  PROVE  /\ pc' \in [Procs -> {"idle", "sealed", "truncated", "written"}]
         /\ pc'[p] = to
         /\ \A q \in Procs \ {p} : pc'[q] = pc[q]
  <1>1. pc \in [Procs -> {"idle", "sealed", "truncated", "written"}]
    BY DEF Shape
  <1> QED BY <1>1 DEF Moves

(* Sealing in memory keeps the invariant.                                   *)
LEMMA SealStep ==
  ASSUME IInv, NEW p \in Procs, NEW k \in Rings, NEW x \in Inputs, SealRecord(p, k, x)
  PROVE  IInv'
  <1> DEFINE c == disk.chain
             r == Seal(c, nextId, x, Authority, k)
             d == Append(c, r)
  <1>1. IsChain(c) /\ IsSeq(c) /\ VerifyChain(c, k) /\ nextId \in Nat
    BY EvidenceStoreAssumption
    DEF IInv, Shape, Sound, SealRecord, Opens, IsChain, IsSeq
  <1>2. /\ IsSeq(d) /\ Range(d) = Range(c) \union {r} /\ d # <<>>
        /\ Front(d) = c /\ Last(d) = r
    BY <1>1, AppendIsSeq, FrontOfAppend
  <1>3. IsRecord(r) /\ r.id = nextId
    BY SealIsRecord
  <1>4. VerifyChain(d, k)
    <2>1. HasKey(k, k.defaultKeyId)
      BY EvidenceStoreAssumption
    <2> QED BY <1>1, <2>1, SealExtends
  <1>5. IsChain(d)
    BY <1>1, <1>2, <1>3 DEF IsChain, IsSeq
  <1>6. /\ Moves(p, "sealed") /\ mem' = [mem EXCEPT ![p] = d]
        /\ nextId < MaxSeals /\ nextId' = nextId + 1
        /\ UNCHANGED <<overlap, disk, acked, shown, killed>>
        /\ MayStart(p) /\ Readable
    BY DEF SealRecord, Moves, Opens, Readable
  <1> HIDE DEF d, r
  <1>7. Draft(d, nextId')
    <2>1. Last(d).id \in Nat /\ Last(d).id < nextId'
      BY <1>1, <1>2, <1>3, <1>6
    <2> QED BY <1>2, <1>4, <1>5, <2>1 DEF Draft
  <1>8. /\ pc' \in [Procs -> {"idle", "sealed", "truncated", "written"}]
        /\ pc'[p] = "sealed" /\ \A q \in Procs \ {p} : pc'[q] = pc[q]
    BY <1>6, Moved DEF IInv
  <1>9. Shape'
    BY <1>6, <1>8, EvidenceStoreAssumption DEF IInv, Shape
  <1>10. Sound'
    <2>1. DOMAIN mem' = Procs /\ mem'[p] = d /\ \A q \in Procs \ {p} : mem'[q] = mem[q]
      BY <1>6 DEF IInv, Sound
    <2>2. ASSUME NEW q \in Procs
          PROVE  (IF Idle(q) THEN mem[q] = <<>> ELSE Draft(mem[q], nextId))'
      <3>1. CASE q = p
        BY <1>7, <1>8, <2>1, <3>1 DEF Idle, Draft
      <3>2. CASE q # p
        <4>1. IF Idle(q) THEN mem[q] = <<>> ELSE Draft(mem[q], nextId)
          BY DEF IInv, Sound
        <4> QED BY <1>1, <1>6, <1>8, <2>1, <3>2, <4>1 DEF Idle, Draft
      <3> QED BY <3>1, <3>2
    <2>3. \A a \in acked' : IsRecord(a) /\ a.id \in Nat /\ a.id < nextId'
      BY <1>1, <1>6 DEF IInv, Sound
    <2> QED BY <1>6, <2>1, <2>2, <2>3 DEF IInv, Sound
  <1>11. ASSUME ~overlap' PROVE Serial'
    <2>1. Serial /\ \A q \in Procs : Idle(q)
      BY <1>6, <1>11 DEF IInv, MayStart
    <2>2. mem'[p] = d
      BY <1>6 DEF IInv, Sound
    <2>3. (Readable /\ Front(mem[p]) = disk.chain)'
      BY <1>2, <1>6, <2>2 DEF Readable
    <2>4. Readable' => Keeps(disk.chain)'
      BY <1>6, <2>1 DEF Serial, Keeps, Readable
    <2> QED BY <1>6, <1>8, <2>1, <2>3, <2>4 DEF Serial, Idle, Readable
  <1> QED BY <1>9, <1>10, <1>11 DEF IInv

(* The other processes keep their chains.                                   *)
LEMMA Held ==
  ASSUME Shape, Sound, NEW p \in Procs,
         NEW to \in {"idle", "sealed", "truncated", "written"}, Moves(p, to),
         nextId' = nextId, DOMAIN mem' = Procs,
         \A q \in Procs \ {p} : mem'[q] = mem[q],
         IF to = "idle" THEN mem'[p] = <<>> ELSE Draft(mem'[p], nextId)
  PROVE  \A q \in Procs : (IF Idle(q) THEN mem[q] = <<>> ELSE Draft(mem[q], nextId))'
  <1> TAKE q \in Procs
  <1>1. pc'[p] = to /\ \A o \in Procs \ {p} : pc'[o] = pc[o]
    BY Moved
  <1>2. CASE q = p
    BY <1>1, <1>2 DEF Idle
  <1>3. CASE q # p
    <2>1. IF Idle(q) THEN mem[q] = <<>> ELSE Draft(mem[q], nextId)
      BY DEF Sound
    <2> QED BY <1>1, <1>3, <2>1 DEF Idle
  <1> QED BY <1>2, <1>3

(* The chain of a process that runs.                                        *)
LEMMA RunningHolds ==
  ASSUME Sound, NEW p \in Procs, ~Idle(p)
  PROVE  /\ Draft(mem[p], nextId) /\ IsChain(mem[p]) /\ IsSeq(mem[p])
         /\ mem[p] # <<>> /\ IsRecord(Last(mem[p]))
         /\ Last(mem[p]) \in Range(mem[p])
         /\ \E k \in Rings : VerifyChain(mem[p], k)
  <1>1. Draft(mem[p], nextId)
    BY DEF Sound
  <1>2. IsSeq(mem[p]) /\ IsChain(mem[p]) /\ mem[p] # <<>>
    BY <1>1 DEF Draft, IsChain, IsSeq
  <1>3. Last(mem[p]) \in Range(mem[p])
    BY <1>2, FrontIsShorter
  <1> QED BY <1>1, <1>2, <1>3 DEF Draft, IsChain

(* Opening the file for writing keeps the invariant.                        *)
LEMMA TruncateStep ==
  ASSUME IInv, NEW p \in Procs, Truncate(p)
  PROVE  IInv'
  <1>1. /\ Moves(p, "truncated") /\ pc[p] = "sealed" /\ disk' = Empty
        /\ UNCHANGED <<overlap, mem, nextId, acked, shown, killed>>
    BY DEF Truncate, Moves
  <1>2. /\ pc' \in [Procs -> {"idle", "sealed", "truncated", "written"}]
        /\ pc'[p] = "truncated" /\ \A q \in Procs \ {p} : pc'[q] = pc[q]
    BY <1>1, Moved DEF IInv
  <1>3. Shape'
    BY <1>1, <1>2 DEF IInv, Shape, Empty
  <1>4. Sound'
    <2>1. Draft(mem[p], nextId) /\ DOMAIN mem = Procs
      BY <1>1, RunningHolds DEF IInv, Idle, Sound
    <2>2. \A q \in Procs : (IF Idle(q) THEN mem[q] = <<>> ELSE Draft(mem[q], nextId))'
      BY <1>1, <2>1, Held DEF IInv
    <2>3. IsChain(disk'.chain) /\ \E k \in Rings : VerifyChain(disk'.chain, k)
      BY <1>1, EmptyChain, EvidenceStoreAssumption DEF Empty
    <2> QED BY <1>1, <2>1, <2>2, <2>3 DEF IInv, Sound
  <1>5. ASSUME ~overlap' PROVE Serial'
    <2>1. Serial
      BY <1>1, <1>5 DEF IInv
    <2>2. \A q \in Procs : ~Idle(q) => q = p
      BY <1>1, <2>1 DEF Serial, Idle
    <2>3. Keeps(Front(mem[p]))
      BY <1>1, <2>1 DEF Serial
    <2>4. Keeps(Front(mem[p]))' /\ disk'.kind = "empty"
      BY <1>1, <2>3 DEF Keeps, Empty
    <2>5. p \in Writing'
      BY <1>2 DEF Writing
    <2>6. \A q \in Procs \ {p} : pc'[q] = "idle"
      BY <1>2, <2>2 DEF Idle
    <2> QED BY <1>2, <2>4, <2>5, <2>6 DEF Serial, Idle, Readable
  <1> QED BY <1>3, <1>4, <1>5 DEF IInv

(* Filling the file keeps the invariant, also over what another one wrote.  *)
LEMMA WriteStep ==
  ASSUME IInv, NEW p \in Procs, Write(p)
  PROVE  IInv'
  <1>1. /\ Moves(p, "written") /\ pc[p] = "truncated"
        /\ disk' = Chain(mem[p]) \/ (disk.kind # "empty" /\ disk' = Garbled)
        /\ UNCHANGED <<overlap, mem, nextId, acked, shown, killed>>
    BY DEF Write, Moves
  <1>2. /\ pc' \in [Procs -> {"idle", "sealed", "truncated", "written"}]
        /\ pc'[p] = "written" /\ \A q \in Procs \ {p} : pc'[q] = pc[q]
    BY <1>1, Moved DEF IInv
  <1>3. Shape'
    BY <1>1, <1>2 DEF IInv, Shape, Chain, Garbled
  <1>4. /\ Draft(mem[p], nextId) /\ DOMAIN mem = Procs /\ IsChain(mem[p])
        /\ IsSeq(mem[p]) /\ mem[p] # <<>> /\ \E k \in Rings : VerifyChain(mem[p], k)
    BY <1>1, RunningHolds DEF IInv, Idle, Sound
  <1>5. Sound'
    <2>1. \A q \in Procs : (IF Idle(q) THEN mem[q] = <<>> ELSE Draft(mem[q], nextId))'
      BY <1>1, <1>4, Held DEF IInv
    <2>2. IsChain(disk'.chain) /\ \E k \in Rings : VerifyChain(disk'.chain, k)
      BY <1>1, <1>4, EmptyChain, EvidenceStoreAssumption DEF Chain, Garbled
    <2> QED BY <1>1, <1>4, <2>1, <2>2 DEF IInv, Sound
  <1>6. ASSUME ~overlap' PROVE Serial'
    <2>1. Serial
      BY <1>1, <1>6 DEF IInv
    <2>2. \A q \in Procs \ {p} : pc'[q] = "idle"
      BY <1>1, <1>2, <2>1 DEF Serial, Idle
    <2>3. disk' = Chain(mem[p])
      BY <1>1, <2>1 DEF Serial
    <2>4. Keeps(mem[p])
      <3>1. acked \subseteq Range(Front(mem[p])) /\ IsPrefix(shown, Front(mem[p]))
        BY <1>1, <2>1 DEF Serial, Keeps
      <3>2. /\ IsSeq(Front(mem[p])) /\ IsPrefix(Front(mem[p]), mem[p])
            /\ Range(Front(mem[p])) \subseteq Range(mem[p])
        BY <1>4, FrontIsShorter
      <3>3. IsSeq(shown)
        BY DEF IInv, Sound, IsChain, IsSeq
      <3>4. IsPrefix(shown, mem[p])
        BY <1>4, <3>1, <3>2, <3>3, PrefixTransitive
      <3> QED BY <3>1, <3>2, <3>4 DEF Keeps
    <2>5. Keeps(disk.chain)' /\ disk'.kind = "chain" /\ disk'.chain = mem'[p]
      BY <1>1, <2>3, <2>4 DEF Keeps, Chain
    <2> QED BY <1>2, <2>2, <2>5 DEF Serial, Idle, Readable
  <1> QED BY <1>3, <1>5, <1>6 DEF IInv

(* Reporting a record as sealed keeps the invariant.                        *)
LEMMA ReportStep ==
  ASSUME IInv, NEW p \in Procs, Report(p)
  PROVE  IInv'
  <1>1. /\ Moves(p, "idle") /\ pc[p] = "written" /\ mem' = [mem EXCEPT ![p] = <<>>]
        /\ acked' = acked \union {Last(mem[p])}
        /\ UNCHANGED <<overlap, disk, nextId, shown, killed>>
    BY DEF Report, Moves
  <1>2. /\ pc' \in [Procs -> {"idle", "sealed", "truncated", "written"}]
        /\ pc'[p] = "idle" /\ \A q \in Procs \ {p} : pc'[q] = pc[q]
    BY <1>1, Moved DEF IInv
  <1>3. Shape'
    BY <1>1, <1>2 DEF IInv, Shape
  <1>4. /\ Draft(mem[p], nextId) /\ DOMAIN mem = Procs /\ IsRecord(Last(mem[p]))
        /\ Last(mem[p]) \in Range(mem[p])
    BY <1>1, RunningHolds DEF IInv, Idle, Sound
  <1>5. DOMAIN mem' = Procs /\ mem'[p] = <<>> /\ \A q \in Procs \ {p} : mem'[q] = mem[q]
    BY <1>1, <1>4
  <1>6. Sound'
    <2>1. \A q \in Procs : (IF Idle(q) THEN mem[q] = <<>> ELSE Draft(mem[q], nextId))'
      BY <1>1, <1>5, Held DEF IInv
    <2>2. \A a \in acked' : IsRecord(a) /\ a.id \in Nat /\ a.id < nextId'
      BY <1>1, <1>4 DEF IInv, Sound, Draft
    <2> QED BY <1>1, <1>5, <2>1, <2>2 DEF IInv, Sound
  <1>7. ASSUME ~overlap' PROVE Serial'
    <2>1. Serial
      BY <1>1, <1>7 DEF IInv
    <2>2. \A q \in Procs : pc'[q] = "idle"
      BY <1>1, <1>2, <2>1 DEF Serial, Idle
    <2>3. disk.kind = "chain" /\ disk.chain = mem[p] /\ Keeps(disk.chain)
      BY <1>1, <2>1 DEF Serial, Readable
    <2>4. Keeps(disk.chain)' /\ disk'.kind = "chain"
      BY <1>1, <1>4, <2>3 DEF Keeps
    <2> QED BY <2>2, <2>4 DEF Serial, Idle, Readable
  <1> QED BY <1>3, <1>6, <1>7 DEF IInv

(* A kill at any point keeps the invariant.                                 *)
LEMMA CrashStep ==
  ASSUME IInv, NEW p \in Procs, Crash(p)
  PROVE  IInv'
  <1>1. /\ Moves(p, "idle") /\ ~Idle(p) /\ mem' = [mem EXCEPT ![p] = <<>>]
        /\ killed' = (killed \/ pc[p] = "truncated")
        /\ UNCHANGED <<overlap, disk, nextId, acked, shown>>
    BY DEF Crash, Moves
  <1>2. /\ pc' \in [Procs -> {"idle", "sealed", "truncated", "written"}]
        /\ pc'[p] = "idle" /\ \A q \in Procs \ {p} : pc'[q] = pc[q]
    BY <1>1, Moved DEF IInv
  <1>3. Shape'
    <2>1. killed' \in BOOLEAN /\ overlap' \in BOOLEAN
      BY <1>1, Zenon DEF IInv, Shape
    <2> QED BY <1>1, <1>2, <2>1 DEF IInv, Shape
  <1>4. DOMAIN mem = Procs
    BY DEF IInv, Sound
  <1>5. DOMAIN mem' = Procs /\ mem'[p] = <<>> /\ \A q \in Procs \ {p} : mem'[q] = mem[q]
    BY <1>1, <1>4
  <1>6. Sound'
    <2>1. \A q \in Procs : (IF Idle(q) THEN mem[q] = <<>> ELSE Draft(mem[q], nextId))'
      BY <1>1, <1>5, Held DEF IInv
    <2> QED BY <1>1, <1>5, <2>1 DEF IInv, Sound
  <1>7. ASSUME ~overlap' PROVE Serial'
    <2>1. Serial
      BY <1>1, <1>7 DEF IInv
    <2>2. \A q \in Procs : pc'[q] = "idle"
      BY <1>1, <1>2, <2>1 DEF Serial, Idle
    <2>3. Readable' => Keeps(disk.chain)'
      BY <1>1, <2>1 DEF Serial, Readable, Keeps
    <2>4. disk'.kind = "empty" => killed'
      BY <1>1, <2>1 DEF Serial, Writing, Idle
    <2> QED BY <1>1, <2>1, <2>2, <2>3, <2>4 DEF Serial, Idle
  <1> QED BY <1>3, <1>6, <1>7 DEF IInv

(* Reading keeps the invariant.                                             *)
LEMMA InspectStep ==
  ASSUME IInv, NEW p \in Procs, NEW k \in Rings, Inspect(p, k)
  PROVE  IInv'
  <1>1. /\ Readable /\ MayStart(p) /\ shown' = disk.chain
        /\ UNCHANGED <<overlap, disk, pc, mem, nextId, acked, killed>>
    BY DEF Inspect, Opens, Readable
  <1>2. Shape'
    BY <1>1 DEF IInv, Shape
  <1>3. Sound'
    BY <1>1 DEF IInv, Sound, Idle
  <1>4. ASSUME ~overlap' PROVE Serial'
    <2>1. Serial /\ \A q \in Procs : Idle(q)
      BY <1>1, <1>4 DEF IInv, MayStart
    <2>2. IsPrefix(disk.chain, disk.chain)
      BY PrefixReflexive DEF IInv, Sound, IsChain, IsSeq
    <2>3. Keeps(disk.chain)'
      BY <1>1, <2>1, <2>2 DEF Serial, Keeps
    <2> QED BY <1>1, <2>1, <2>3 DEF Serial, Idle, Readable
  <1> QED BY <1>2, <1>3, <1>4 DEF IInv

(* So does doing nothing.                                                   *)
LEMMA StutterStep ==
  ASSUME IInv, UNCHANGED vars
  PROVE  IInv'
  <1>1. Shape' /\ Sound'
    BY DEF IInv, Shape, Sound, Idle, vars
  <1>2. ~overlap' => Serial'
    BY DEF IInv, Serial, Readable, Keeps, Idle, Writing, vars
  <1> QED BY <1>1, <1>2 DEF IInv

(* Every step of every process keeps the invariant.                         *)
LEMMA StepIInv ==
  ASSUME IInv, [Next]_vars
  PROVE  IInv'
  <1>1. ASSUME NEW p \in Procs, NEW k \in Rings, NEW x \in Inputs, SealRecord(p, k, x)
        PROVE  IInv'
    BY <1>1, SealStep
  <1>2. ASSUME NEW p \in Procs, NEW k \in Rings, Inspect(p, k) PROVE IInv'
    BY <1>2, InspectStep
  <1>3. ASSUME NEW p \in Procs, NEW k \in Rings, Refuse(p, k) PROVE IInv'
    BY <1>3, StutterStep DEF Refuse
  <1>4. ASSUME NEW p \in Procs, Truncate(p) \/ Write(p) \/ Report(p) \/ Crash(p)
        PROVE  IInv'
    BY <1>4, TruncateStep, WriteStep, ReportStep, CrashStep
  <1> QED BY <1>1, <1>2, <1>3, <1>4, StutterStep DEF Next

(* The invariant holds throughout.                                          *)
LEMMA Invariance == Spec => []IInv
  BY InitIInv, StepIInv, PTL DEF Spec

----------------------------------------------------------------------------
(* Every state has the shapes that the code gives it, for all commands.     *)
THEOREM TypeCorrect == Spec => []TypeOK
  <1>1. ASSUME IInv PROVE TypeOK
    <2>1. ASSUME NEW p \in Procs PROVE IsChain(mem[p]) /\ (~Idle(p) => mem[p] # <<>>)
      BY <1>1, EmptyChain DEF IInv, Sound, Draft
    <2>2. \A r \in acked : IsRecord(r) /\ r.id < nextId
      BY <1>1 DEF IInv, Sound
    <2>3. DOMAIN mem = Procs /\ IsChain(disk.chain) /\ IsChain(shown)
      BY <1>1 DEF IInv, Sound
    <2> QED BY <1>1, <2>1, <2>2, <2>3, Zenon DEF IInv, Shape, TypeOK
  <1> QED BY <1>1, Invariance, PTL

(* However commands of any number of processes interleave and are killed,   *)
(* a chain that parses verifies as a whole under the ring of one command    *)
(* (store.ts:46, :60).                                                      *)
THEOREM RacesNeverForge == Spec => []DiskSound
  <1>1. IInv => DiskSound
    BY DEF IInv, Sound, DiskSound
  <1> QED BY <1>1, Invariance, PTL

(* One at a time, commands lose no record that was reported as sealed       *)
(* without every later command saying so (evidence.ts:61, store.ts:62).     *)
THEOREM NothingIsLostSilently == Spec => []NoSilentLoss
  <1>1. ASSUME IInv PROVE NoSilentLoss
    <2>1. ASSUME ~overlap, NEW k \in Rings, Opens(k) PROVE acked \subseteq Range(disk.chain)
      BY <1>1, <2>1 DEF IInv, Serial, Opens, Readable, Keeps
    <2> QED BY <2>1 DEF NoSilentLoss, SealedIsKept
  <1> QED BY <1>1, Invariance, PTL

(* One at a time, the file is unreadable only because a process was killed  *)
(* between the two halves of its write (store.ts:62).                       *)
THEOREM OnlyKillsMakeItUnreadable == Spec => []UnreadableOnlyIfKilled
  <1>1. ASSUME IInv PROVE UnreadableOnlyIfKilled
    <2>1. SUFFICES ASSUME ~overlap, \A p \in Procs : Idle(p),
                          ~(\E k \in Rings : Opens(k))
                   PROVE  killed
      BY DEF UnreadableOnlyIfKilled
    <2>2. Serial /\ \E k \in Rings : VerifyChain(disk.chain, k)
      BY <1>1, <2>1 DEF IInv, Sound
    <2>3. ~Readable
      BY <2>1, <2>2 DEF Opens, Readable
    <2>4. disk.kind = "empty"
      BY <1>1, <2>2, <2>3 DEF IInv, Shape, Serial, Readable
    <2>5. Writing = {}
      BY <2>1 DEF Writing, Idle
    <2> QED BY <2>2, <2>4, <2>5 DEF Serial
  <1> QED BY <1>1, Invariance, PTL

(* One at a time, what a command shows extends what any earlier one showed. *)
THEOREM ShownOnlyGrows == Spec => ReadersSeeGrowth
  <1>1. ASSUME IInv, [Next]_vars PROVE [~overlap => IsPrefix(shown, shown')]_vars
    <2>1. SUFFICES ASSUME ~overlap, Next PROVE IsPrefix(shown, shown')
      BY <1>1
    <2>2. IsPrefix(shown, shown)
      BY <1>1, PrefixReflexive DEF IInv, Sound, IsChain, IsSeq
    <2>3. CASE UNCHANGED shown
      BY <2>2, <2>3
    <2>4. ASSUME NEW p \in Procs, NEW k \in Rings, Inspect(p, k)
          PROVE  IsPrefix(shown, shown')
      BY <1>1, <2>1, <2>4 DEF Inspect, Opens, IInv, Serial, Readable, Keeps
    <2>5. UNCHANGED shown \/ \E p \in Procs, k \in Rings : Inspect(p, k)
      BY <2>1 DEF Next, SealRecord, Refuse, Truncate, Write, Report, Crash, vars
    <2> QED BY <2>3, <2>4, <2>5
  <1> QED BY <1>1, Invariance, PTL DEF Spec, ReadersSeeGrowth

----------------------------------------------------------------------------
(* The log that the file stands for, by the processes that write.           *)
LEMMA SameLog ==
  ASSUME UNCHANGED <<overlap, disk>>, Writing = {}, Writing' = {}
  PROVE  UNCHANGED <<CommittedLog, Unreadable>>
  BY DEF CommittedLog, Unreadable

(* While one command writes, the abstract log is what it read.              *)
LEMMA OneWrites ==
  ASSUME ~overlap, NEW p \in Procs, Writing = {p}
  PROVE  CommittedLog = Front(mem[p]) /\ Unreadable = FALSE
  <1>1. (CHOOSE q \in Writing : TRUE) = p
    OBVIOUS
  <1> QED BY <1>1, Zenon DEF CommittedLog, Unreadable, Front

(* The same of the state after a step.                                      *)
LEMMA OneWillWrite ==
  ASSUME ~overlap', NEW p \in Procs, Writing' = {p}
  PROVE  CommittedLog' = Front(mem'[p]) /\ Unreadable' = FALSE
  <1>1. (CHOOSE q \in Writing' : TRUE) = p
    OBVIOUS
  <1> QED BY <1>1, Zenon DEF CommittedLog, Unreadable, Front

(* While no command writes, the abstract log is the file.                   *)
LEMMA NoneWrites ==
  ASSUME ~overlap, Writing = {}
  PROVE  /\ CommittedLog = disk.chain
         /\ IF disk.kind \in {"empty", "garbled"}
            THEN Unreadable = TRUE ELSE Unreadable = FALSE
  BY Zenon DEF CommittedLog, Unreadable

(* The same of the state after a step.                                      *)
LEMMA NoneWillWrite ==
  ASSUME ~overlap', Writing' = {}
  PROVE  /\ CommittedLog' = disk'.chain
         /\ IF disk'.kind \in {"empty", "garbled"}
            THEN Unreadable' = TRUE ELSE Unreadable' = FALSE
  BY Zenon DEF CommittedLog, Unreadable

(* Every step of the store is a step of the abstract log or none.           *)
LEMMA StepsOfTheLog ==
  ASSUME IInv, IInv', [Next]_vars
  PROVE  [Promise!Next]_<<CommittedLog, Unreadable>>
  <1> SUFFICES ASSUME Next, ~UNCHANGED <<CommittedLog, Unreadable>>
               PROVE  Promise!Next
    <2>1. ASSUME UNCHANGED vars PROVE UNCHANGED <<CommittedLog, Unreadable>>
      BY <2>1 DEF vars, CommittedLog, Unreadable, Writing
    <2> QED BY <2>1
  <1>1. UNCHANGED overlap
    BY DEF Next, SealRecord, Inspect, Refuse, Truncate, Write, Report, Crash, vars
  <1>2. ~overlap /\ ~overlap' /\ Serial /\ Serial'
    <2>1. overlap => UNCHANGED <<CommittedLog, Unreadable>>
      BY <1>1 DEF CommittedLog, Unreadable
    <2> QED BY <1>1, <2>1 DEF IInv
  <1>3. pc \in [Procs -> {"idle", "sealed", "truncated", "written"}]
    BY DEF IInv, Shape
  <1>4. ASSUME NEW p \in Procs, pc[p] # "truncated",
               NEW to \in {"idle", "sealed", "written"}, Moves(p, to),
               ~Idle(p) \/ MayStart(p), UNCHANGED disk
        PROVE  FALSE
    <2>1. pc'[p] = to /\ \A q \in Procs \ {p} : pc'[q] = pc[q]
      BY <1>4, Moved DEF IInv
    <2>2. \A q \in Procs \ {p} : pc[q] = "idle"
      BY <1>2, <1>4 DEF Serial, Idle, MayStart
    <2>3. Writing = {} /\ Writing' = {}
      BY <1>4, <2>1, <2>2 DEF Writing
    <2> QED BY <1>1, <1>4, <2>3, SameLog
  <1>5. ASSUME NEW p \in Procs, Truncate(p) PROVE FALSE
    <2>1. pc[p] = "sealed" /\ Moves(p, "truncated") /\ UNCHANGED mem
      BY <1>5 DEF Truncate, Moves
    <2>2. pc'[p] = "truncated" /\ \A q \in Procs \ {p} : pc'[q] = pc[q]
      BY <2>1, Moved DEF IInv
    <2>3. \A q \in Procs \ {p} : pc[q] = "idle"
      BY <1>2, <2>1 DEF Serial, Idle
    <2>4. Writing = {} /\ Writing' = {p}
      BY <2>1, <2>2, <2>3 DEF Writing
    <2>5. Readable /\ Front(mem[p]) = disk.chain
      BY <1>2, <2>1 DEF Serial
    <2>6. CommittedLog = disk.chain /\ Unreadable = FALSE
      BY <1>2, <2>4, <2>5, NoneWrites DEF Readable
    <2>7. CommittedLog' = Front(mem'[p]) /\ Unreadable' = FALSE
      BY <1>2, <2>4, OneWillWrite
    <2> QED BY <2>1, <2>5, <2>6, <2>7
  <1>6. ASSUME NEW p \in Procs, pc[p] = "truncated", NEW to \in {"idle", "written"},
               Moves(p, to)
        PROVE  /\ Writing = {p} /\ Writing' = {}
               /\ CommittedLog = Front(mem[p]) /\ Unreadable = FALSE
               /\ CommittedLog' = disk'.chain
               /\ IF disk'.kind \in {"empty", "garbled"}
                  THEN Unreadable' = TRUE ELSE Unreadable' = FALSE
    <2>1. pc'[p] = to /\ \A q \in Procs \ {p} : pc'[q] = pc[q]
      BY <1>6, Moved DEF IInv
    <2>2. \A q \in Procs \ {p} : pc[q] = "idle"
      BY <1>2, <1>6 DEF Serial, Idle
    <2>3. Writing = {p} /\ Writing' = {}
      BY <1>6, <2>1, <2>2 DEF Writing
    <2> QED BY <1>2, <2>3, OneWrites, NoneWillWrite
  <1>7. ASSUME NEW p \in Procs, Write(p) PROVE Promise!Next
    <2>1. pc[p] = "truncated" /\ Moves(p, "written")
      BY <1>7 DEF Write, Moves
    <2>2. disk' = Chain(mem[p])
      BY <1>2, <1>7 DEF Write, Serial
    <2>3. /\ CommittedLog = Front(mem[p]) /\ Unreadable = FALSE
          /\ CommittedLog' = mem[p] /\ Unreadable' = FALSE
      BY <1>6, <2>1, <2>2 DEF Chain
    <2>4. IsSeq(mem[p]) /\ mem[p] # <<>>
      BY <2>1, RunningHolds DEF IInv, Idle
    <2>5. Len(mem[p]) = Len(Front(mem[p])) + 1 /\ IsPrefix(Front(mem[p]), mem[p])
      BY <2>4, FrontIsShorter
    <2> QED BY <2>3, <2>5 DEF Promise!Next, Promise!Commit, Promise!IsPrefix, IsPrefix
  <1>8. ASSUME NEW p \in Procs, Crash(p) PROVE Promise!Next
    <2>1. Moves(p, "idle") /\ ~Idle(p) /\ UNCHANGED disk
      BY <1>8 DEF Crash, Moves
    <2>2. pc[p] = "truncated"
      BY <1>4, <2>1
    <2>3. disk.kind = "empty" /\ disk.chain = <<>>
      BY <1>2, <2>2 DEF IInv, Shape, Serial
    <2>4. CommittedLog' = <<>> /\ Unreadable' = TRUE
      BY <1>6, <2>1, <2>2, <2>3
    <2> QED BY <2>4 DEF Promise!Next, Promise!Lose
  <1>9. ASSUME NEW p \in Procs, NEW k \in Rings, NEW x \in Inputs, SealRecord(p, k, x)
        PROVE  FALSE
    <2>1. MayStart(p) /\ Moves(p, "sealed") /\ UNCHANGED disk
      BY <1>9 DEF SealRecord, Moves
    <2> QED BY <1>4, <2>1 DEF MayStart, Idle
  <1>10. ASSUME NEW p \in Procs, Report(p) PROVE FALSE
    <2>1. pc[p] = "written" /\ Moves(p, "idle") /\ UNCHANGED disk
      BY <1>10 DEF Report, Moves
    <2> QED BY <1>4, <2>1 DEF Idle
  <1>11. ASSUME NEW p \in Procs, NEW k \in Rings, Inspect(p, k) \/ Refuse(p, k)
         PROVE  FALSE
    <2>1. UNCHANGED <<overlap, disk, pc, mem>>
      BY <1>11 DEF Inspect, Refuse, vars
    <2>2. UNCHANGED <<CommittedLog, Unreadable>>
      BY <2>1 DEF CommittedLog, Unreadable, Writing
    <2> QED BY <2>2
  <1> QED BY <1>5, <1>7, <1>8, <1>9, <1>10, <1>11 DEF Next

(* Commands that run one at a time implement a log that grows one record at *)
(* a time and is only ever lost whole, with every reader told (log.ts:47,   *)
(* store.ts:58-63).                                                         *)
THEOREM StoreIsAppendOnly == Spec => ImplementsAppendOnlyLog
  <1>1. Init => Promise!Init
    <2>1. ASSUME Init PROVE CommittedLog = <<>> /\ Unreadable = FALSE
      <3>1. Writing = {}
        BY <2>1 DEF Init, Writing
      <3> QED BY <2>1, <3>1 DEF Init, Absent, CommittedLog, Unreadable
    <2> QED BY <2>1 DEF Promise!Init
  <1>2. IInv /\ IInv' /\ [Next]_vars => [Promise!Next]_<<CommittedLog, Unreadable>>
    BY StepsOfTheLog
  <1> QED BY <1>1, <1>2, Invariance, PTL
          DEF Spec, ImplementsAppendOnlyLog, Promise!Spec
============================================================================
