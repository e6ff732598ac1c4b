--------------------------- MODULE EvidenceStore ---------------------------
(***************************************************************************)
(* The file-backed evidence store of the nas CLI: several command processes *)
(* share .nas/evidence/chain.json and nothing else.  `nas evidence add'     *)
(* reads and verifies the file, seals a record in memory, truncates the     *)
(* file (writeFileSync opens it with O_TRUNC), writes the whole chain and   *)
(* prints "sealed".  Another process runs, or this one is killed, between   *)
(* any two of these file operations.  The signing key comes from each       *)
(* command's environment, so commands may run with different keys.          *)
(***************************************************************************)
EXTENDS EvidenceChain, SequencesExt

CONSTANTS Procs,       \* nas processes
          Rings,       \* the key rings that commands build from the environment
          Inputs,      \* evidence inputs
          Authority,   \* CLI_AUTHORITY
          MaxSeals     \* bound on the records ever sealed

ASSUME EvidenceStoreAssumption ==
  /\ MaxSeals \in Nat
  /\ Rings # {} /\ \A k \in Rings : HasKey(k, k.defaultKeyId)

\* A text of the file that is no JSON array of records, for its two reasons:
\* a write has truncated it and not filled it, or two writes overlapped.
Absent  == [kind |-> "absent",  chain |-> <<>>]
Empty   == [kind |-> "empty",   chain |-> <<>>]
Garbled == [kind |-> "garbled", chain |-> <<>>]
Chain(c) == [kind |-> "chain",  chain |-> c]

VARIABLES overlap, \* may a command start while another is running?  Nothing in
                   \* the code prevents it; whether it happens is up to the users
          disk,    \* the file at chainPath
          pc,      \* where each process is
          mem,     \* the chain of the EvidenceLog each process holds
          nextId,  \* record ids drawn so far
          acked,   \* history: records that a command printed as sealed
          shown,   \* history: the last chain a list or verify command showed
          killed   \* history: was a process killed between truncate and write?

vars == <<overlap, disk, pc, mem, nextId, acked, shown, killed>>

Idle(p) == pc[p] = "idle"

MayStart(p) == Idle(p) /\ (overlap \/ \A q \in Procs : Idle(q))

(* The file parses, and the chain in it passes the EvidenceLog constructor; *)
(* an absent file is the empty chain.                                       *)
Opens(k) == disk.kind \in {"absent", "chain"} /\ VerifyChain(disk.chain, k)

----------------------------------------------------------------------------
Init ==
  /\ overlap \in BOOLEAN
  /\ disk = Absent
  /\ pc = [p \in Procs |-> "idle"]
  /\ mem = [p \in Procs |-> <<>>]
  /\ nextId = 0
  /\ acked = {}
  /\ shown = <<>>
  /\ killed = FALSE

\* Bug: add starts a new chain when the file does not parse.
SealLenient(p, k, x) ==
  /\ MayStart(p)
  /\ nextId < MaxSeals
  /\ VerifyChain(disk.chain, k)
  /\ pc' = [pc EXCEPT ![p] = "sealed"]
  /\ mem' = [mem EXCEPT ![p] =
       Append(disk.chain, Seal(disk.chain, nextId, x, Authority, k))]
  /\ nextId' = nextId + 1
  /\ UNCHANGED <<overlap, disk, acked, shown, killed>>

\* Bug: add does not verify the chain that it extends.
SealUnverified(p, k, x) ==
  /\ MayStart(p)
  /\ nextId < MaxSeals
  /\ disk.kind \in {"absent", "chain"}
  /\ pc' = [pc EXCEPT ![p] = "sealed"]
  /\ mem' = [mem EXCEPT ![p] =
       Append(disk.chain, Seal(disk.chain, nextId, x, Authority, k))]
  /\ nextId' = nextId + 1
  /\ UNCHANGED <<overlap, disk, acked, shown, killed>>

\* Bug: the same id is drawn again for the next record.
SealReusingId(p, k, x) ==
  /\ MayStart(p)
  /\ nextId < MaxSeals
  /\ Opens(k)
  /\ pc' = [pc EXCEPT ![p] = "sealed"]
  /\ mem' = [mem EXCEPT ![p] =
       Append(disk.chain, Seal(disk.chain, nextId, x, Authority, k))]
  /\ UNCHANGED <<overlap, disk, nextId, acked, shown, killed>>

(* `nas evidence add' up to the write: buildSigner, EvidenceStore.open and  *)
(* EvidenceLog.append.  Only the read touches the file, so it is one step.  *)
SealRecord(p, k, x) ==
  /\ MayStart(p)
  /\ nextId < MaxSeals
  /\ Opens(k)
  /\ pc' = [pc EXCEPT ![p] = "sealed"]
  /\ mem' = [mem EXCEPT ![p] =
       Append(disk.chain, Seal(disk.chain, nextId, x, Authority, k))]
  /\ nextId' = nextId + 1
  /\ UNCHANGED <<overlap, disk, acked, shown, killed>>

\* A command on a file it cannot open exits 1 and changes nothing.
Refuse(p, k) == MayStart(p) /\ ~Opens(k) /\ UNCHANGED vars

\* Bug: the file is opened without O_TRUNC.
TruncateNot(p) ==
  /\ pc[p] = "sealed"
  /\ pc' = [pc EXCEPT ![p] = "truncated"]
  /\ UNCHANGED <<overlap, disk, mem, nextId, acked, shown, killed>>

\* #persist, first half: the file is opened for writing and truncated.
Truncate(p) ==
  /\ pc[p] = "sealed"
  /\ disk' = Empty
  /\ pc' = [pc EXCEPT ![p] = "truncated"]
  /\ UNCHANGED <<overlap, mem, nextId, acked, shown, killed>>

\* Bug: only the record that was appended is written.
WriteLastRecord(p) ==
  /\ pc[p] = "truncated"
  /\ disk' = Chain(<<Last(mem[p])>>)
  /\ pc' = [pc EXCEPT ![p] = "written"]
  /\ UNCHANGED <<overlap, mem, nextId, acked, shown, killed>>

(* #persist, second half: the chain is written from offset 0.  If another   *)
(* process filled the file since this one truncated it, the longer text     *)
(* keeps its tail; chains of any lengths can have texts of any lengths.     *)
Write(p) ==
  /\ pc[p] = "truncated"
  /\ \/ disk' = Chain(mem[p])
     \/ disk.kind # "empty" /\ disk' = Garbled
  /\ pc' = [pc EXCEPT ![p] = "written"]
  /\ UNCHANGED <<overlap, mem, nextId, acked, shown, killed>>

\* The command prints "sealed <id>" and exits 0.
Report(p) ==
  /\ pc[p] = "written"
  /\ acked' = acked \union {Last(mem[p])}
  /\ pc' = [pc EXCEPT ![p] = "idle"]
  /\ mem' = [mem EXCEPT ![p] = <<>>]
  /\ UNCHANGED <<overlap, disk, nextId, shown, killed>>

\* `nas evidence verify' and `nas evidence list': open the chain and show it.
Inspect(p, k) ==
  /\ MayStart(p)
  /\ Opens(k)
  /\ shown' = disk.chain
  /\ UNCHANGED <<overlap, disk, pc, mem, nextId, acked, killed>>

\* The process is killed; what it wrote so far stays in the file.
Crash(p) ==
  /\ ~Idle(p)
  /\ killed' = (killed \/ pc[p] = "truncated")
  /\ pc' = [pc EXCEPT ![p] = "idle"]
  /\ mem' = [mem EXCEPT ![p] = <<>>]
  /\ UNCHANGED <<overlap, disk, nextId, acked, shown>>

Next ==
  \E p \in Procs :
    \/ \E k \in Rings, x \in Inputs : SealRecord(p, k, x)
    \/ \E k \in Rings : Inspect(p, k) \/ Refuse(p, k)
    \/ Truncate(p)
    \/ Write(p)
    \/ Report(p)
    \/ Crash(p)

Spec == Init /\ [][Next]_vars

----------------------------------------------------------------------------
IsRecord(r) ==
  DOMAIN r = {"id", "sequence", "input", "prevDigest", "signedBy",
              "recordDigest", "signature"}

IsChain(c) == c \in Seq(Range(c)) /\ \A r \in Range(c) : IsRecord(r)

TypeOK ==
  /\ overlap \in BOOLEAN
  /\ disk.kind \in {"absent", "empty", "garbled", "chain"}
  /\ disk.kind # "chain" => disk.chain = <<>>
  /\ IsChain(disk.chain)
  /\ pc \in [Procs -> {"idle", "sealed", "truncated", "written"}]
  /\ DOMAIN mem = Procs /\ \A p \in Procs : IsChain(mem[p])
  /\ \A p \in Procs : ~Idle(p) => mem[p] # <<>>
  /\ nextId \in 0..MaxSeals
  /\ \A r \in acked : IsRecord(r) /\ r.id < nextId
  /\ IsChain(shown)
  /\ killed \in BOOLEAN

(* However commands interleave, crash and change keys, a chain in the file  *)
(* verifies as a whole under one single-key ring: races lose records or     *)
(* leave a file that does not parse, they never leave a chain that parses   *)
(* and does not verify, and no chain mixes two keys (store.ts:46, :60).     *)
DiskSound ==
  disk.kind = "chain" => \E k \in Rings : VerifyChain(disk.chain, k)

(* A command that opens the file finds every record that any command        *)
(* reported as sealed (evidence.ts:61): what log.ts:47 calls append-only and *)
(* README.md:49 says of deletion.                                           *)
SealedIsKept ==
  \A k \in Rings : Opens(k) => acked \subseteq Range(disk.chain)

(* Without overlapping commands, and with any number of kills, the file     *)
(* never hides a loss.                                                      *)
NoSilentLoss == ~overlap => SealedIsKept

(* Without overlapping commands readers see one growing log: what list or   *)
(* verify shows extends what any earlier list or verify showed.             *)
ReadersSeeGrowth == [][~overlap => IsPrefix(shown, shown')]_vars

(* Without overlapping commands the file is unreadable to every key only    *)
(* because a process was killed between the two halves of writeFileSync     *)
(* (store.ts:62).                                                           *)
UnreadableOnlyIfKilled ==
  /\ ~overlap
  /\ \A p \in Procs : Idle(p)
  /\ ~(\E k \in Rings : Opens(k))
  => killed

----------------------------------------------------------------------------
(* Refinement of AppendOnlyLog, for commands that run one at a time: until  *)
(* the second half of its write, the record a command adds is not committed. *)
(* Overlapping commands promise nothing, so their log is mapped to no log.  *)
Writing == {p \in Procs : pc[p] = "truncated"}

CommittedLog ==
  IF overlap THEN <<>>
  ELSE IF Writing = {} THEN disk.chain
  ELSE LET c == mem[CHOOSE p \in Writing : TRUE] IN SubSeq(c, 1, Len(c) - 1)

Unreadable == ~overlap /\ Writing = {} /\ disk.kind \in {"empty", "garbled"}

Promise == INSTANCE AppendOnlyLog WITH log <- CommittedLog,
                                       unreadable <- Unreadable

(* Run one at a time, commands implement an append-only log that is only    *)
(* ever lost whole and loudly.                                              *)
ImplementsAppendOnlyLog == Promise!Spec
============================================================================
