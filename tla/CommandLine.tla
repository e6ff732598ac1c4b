---------------------------- MODULE CommandLine ----------------------------
(***************************************************************************)
(* How nas reads its arguments (cli/args.ts).  An argument is a flag, which *)
(* starts with "--", or a word; a parsed line is its positional words and a *)
(* function from the flags on it to their values.                          *)
(***************************************************************************)
EXTENDS Integers, Sequences, FiniteSets

CONSTANTS Flags,  \* the arguments that start with "--"
          Bare    \* the value of a flag that no word follows

Put(flags, name, value) ==
  [f \in DOMAIN flags \union {name} |-> IF f = name THEN value ELSE flags[f]]

(* parseArgs: a flag takes the word after it as its value; what is said of  *)
(* a flag later on the line replaces what was said before.  This is what    *)
(* it makes of the arguments from each place on.                            *)
ParseFrom(argv) ==
  LET rest[i \in 1..(Len(argv) + 1)] ==
        LET taken == i < Len(argv) /\ argv[i + 1] \notin Flags
            later == rest[IF taken THEN i + 2 ELSE i + 1]
            value == IF taken THEN argv[i + 1] ELSE Bare
        IN IF i > Len(argv) THEN [positionals |-> <<>>, flags |-> [f \in {} |-> Bare]]
           ELSE IF argv[i] \notin Flags
                THEN [rest[i + 1] EXCEPT !.positionals = <<argv[i]>> \o @]
           ELSE IF argv[i] \in DOMAIN later.flags THEN later
           ELSE [later EXCEPT !.flags = Put(@, argv[i], value)]
  IN rest

ParseArgs(argv) == ParseFrom(argv)[1]

Word(args, n, word) == n <= Len(args.positionals) /\ args.positionals[n] = word

\* optionalFlag finds a string.
Given(args, flag) == flag \in DOMAIN args.flags /\ args.flags[flag] # Bare

\* A string that is not empty: what requireFlag asks for, and gate of --out.
HasValue(args, flag) ==
  flag \in DOMAIN args.flags /\ args.flags[flag] \notin {Bare, ""}

----------------------------------------------------------------------------
(* What a line says, told argument by argument: a word that no flag takes   *)
(* stands for itself, in its place, and the last mention of a flag counts.  *)
Places(argv) ==
  {i \in DOMAIN argv : argv[i] \notin Flags /\ (i > 1 => argv[i - 1] \notin Flags)}

Says(argv, n, word) ==
  \E i \in Places(argv) :
    argv[i] = word /\ Cardinality({j \in Places(argv) : j <= i}) = n

AsksFor(argv, flag) ==
  \E i \in DOMAIN argv :
    /\ argv[i] = flag
    /\ \A j \in DOMAIN argv : argv[j] = flag => j <= i
    /\ i < Len(argv) /\ argv[i + 1] \notin Flags \union {""}
============================================================================
