--------------------------- MODULE AppendOnlyLog ---------------------------
(***************************************************************************)
(* What a file-backed evidence store promises when commands run one at a    *)
(* time: a log that grows one record at a time and is never rewritten.  It   *)
(* may become unreadable as a whole, after a crash, and it then stays so:    *)
(* records are never lost silently.                                         *)
(***************************************************************************)
EXTENDS SequencesExt, Naturals

VARIABLES log,        \* the committed records
          unreadable  \* the log was lost, and every reader is told so

Init == log = <<>> /\ unreadable = FALSE

Commit ==
  /\ ~unreadable
  /\ Len(log') = Len(log) + 1
  /\ IsPrefix(log, log')
  /\ UNCHANGED unreadable

Lose ==
  /\ unreadable' = TRUE
  /\ log' = <<>>

Next == Commit \/ Lose

Spec == Init /\ [][Next]_<<log, unreadable>>
============================================================================
