------------------------------ MODULE Options ------------------------------
(***************************************************************************)
(* Command lines.  option_parser_t::parse (fesvr/option_parser.cc) serves  *)
(* spike, and htif_t::parse_arguments (fesvr/htif.cc) what spike leaves.   *)
(* A word of the command line is a record: a kind, a name and a value,     *)
(*   [kind |-> "short" (-xVALUE), "long" (--name or --name=VALUE),         *)
(*             "plus" (+name or +name=VALUE), or "word", name, val],       *)
(* where val is "none" if the word has no value of its own.                *)
(***************************************************************************)
EXTENDS Naturals, Sequences, SequencesExt

None == "none"
Failure == [failed |-> TRUE]    \* error() exits, and so do the exceptions

\* The word as it stands.
Text(w) == IF w.kind = "word" THEN w.name ELSE "-" \o w.name

----------------------------------------------------------------------------
(* option_parser_t: an option has a letter or a name, takes an argument or *)
(* not, and runs an action.  The state of the walk: what was run, and the  *)
(* option that waits for the next word, or the rest once a word ends it.   *)

CONSTANT SpikeOptions   \* the options that were registered: records [key, arg]

Known(w) == \E o \in SpikeOptions : o.key = w.name
Takes(w) == (CHOOSE o \in SpikeOptions : o.key = w.name).arg

Ran(s, key, val) == [s EXCEPT !.ran = Append(@, <<key, val>>), !.waits = None]
Fail(s) == [s EXCEPT !.failed = TRUE]

\* optarg: what follows the letter, or the `='; only a long option takes the next word.
MutOption(s, w) == IF ~ Known(w) THEN Fail(s)
                   ELSE IF w.val # None \/ ~ Takes(w) THEN Ran(s, w.name, w.val)
                   ELSE IF w.kind = "long" THEN [s EXCEPT !.waits = w.name] ELSE Fail(s)

Option(s, w) == IF ~ Known(w) \/ (w.val # None /\ ~ Takes(w)) THEN Fail(s)
                ELSE IF w.val # None \/ ~ Takes(w) THEN Ran(s, w.name, w.val)
                ELSE IF w.kind = "long" THEN [s EXCEPT !.waits = w.name] ELSE Fail(s)

\* The walk stops at the first word that is no option; the word an option waits for is
\* taken as it is, even if it looks like an option.
OptionStep(s, w) == IF s.failed \/ s.rest # <<>> THEN [s EXCEPT !.rest = Append(@, w)]
                    ELSE IF s.waits # None THEN Ran(s, s.waits, Text(w))
                    ELSE IF w.kind \in {"word", "plus"} THEN [s EXCEPT !.rest = <<w>>]
                    ELSE Option(s, w)

parse(argv) == LET s == FoldLeft(OptionStep, [ran |-> <<>>, waits |-> None, rest |-> <<>>, failed |-> FALSE], argv)
               IN IF s.failed \/ s.waits # None THEN Failure ELSE [ran |-> s.ran, rest |-> s.rest]

----------------------------------------------------------------------------
(* htif_t: HTIF_LONG_OPTIONS, walked by getopt_long, which takes the next   *)
(* word for a required argument and only a `=' for an optional one.        *)

Required == {"disk", "signature", "chroot", "payload"}
OptionalArg == {"rfb", "signature-granularity"}
Switches == {"help"}
\* The forms that parse_arguments gives to its plus-arguments; it jumps back with the same code.
PlusWithValue == {"rfb", "disk", "signature", "chroot", "payload", "signature-granularity"}
PlusAlone == {"help", "h", "rfb"}

Nothing == [displays |-> <<>>, sig_file |-> None, chroot |-> None, payloads |-> <<>>,
            line_size |-> 16, targs |-> <<>>, permissive |-> FALSE,
            waits |-> None, done |-> FALSE, failed |-> FALSE]

\* The cases of the switch.
Set(s, name, val) ==
    CASE name \in {"help", "h", "disk"} -> Fail(s)
      [] name = "rfb" -> [s EXCEPT !.displays = Append(@, IF val = None THEN "0" ELSE val), !.waits = None]
      [] name = "signature" -> [s EXCEPT !.sig_file = val, !.waits = None]
      [] name = "chroot" -> [s EXCEPT !.chroot = val, !.waits = None]
      [] name = "payload" -> [s EXCEPT !.payloads = Append(@, val), !.waits = None]
      [] name = "signature-granularity" ->       \* atoi(NULL): the end of the process
           IF val = None THEN Fail(s) ELSE [s EXCEPT !.line_size = val, !.waits = None]

Long(s, w) == IF w.name \in Required THEN IF w.val = None THEN [s EXCEPT !.waits = w.name] ELSE Set(s, w.name, w.val)
              ELSE IF w.name \in OptionalArg \/ (w.name \in Switches /\ w.val = None) THEN Set(s, w.name, w.val)
              ELSE IF s.permissive THEN s ELSE Fail(s)             \* '?'

Permissive(s, w) == IF w.name = "permissive-off"
                    THEN IF s.permissive THEN [s EXCEPT !.permissive = FALSE] ELSE Fail(s)
                    ELSE IF s.permissive THEN Fail(s) ELSE [s EXCEPT !.permissive = TRUE]

\* A word that nobody knows begins the target's arguments, or is dropped if permissive.
Stranger(s, w) == IF s.permissive THEN s ELSE [s EXCEPT !.done = TRUE, !.targs = <<w>>]

Plus(s, w) == IF w.name \in {"permissive", "permissive-off"} THEN Permissive(s, w)
              ELSE IF (w.val # None /\ w.name \in PlusWithValue) \/ (w.val = None /\ w.name \in PlusAlone)
                   THEN Set(s, w.name, w.val)
              ELSE Stranger(s, w)

ArgumentStep(s, w) ==
    IF s.failed THEN s
    ELSE IF s.done THEN [s EXCEPT !.targs = Append(@, w)]
    ELSE IF s.waits # None THEN Set(s, s.waits, Text(w))
    ELSE CASE w.kind = "short" -> IF w.name = "h" \/ ~ s.permissive THEN Fail(s) ELSE s
           [] w.kind = "long" -> Long(s, w)
           [] w.kind = "plus" -> Plus(s, w)
           [] w.kind = "word" -> Stranger(s, w)

\* parse_arguments(): no program is an error, and so is a missing argument.
parse_arguments(argv) ==
    LET s == FoldLeft(ArgumentStep, Nothing, argv)
    IN IF s.failed \/ s.targs = <<>> \/ (s.waits # None /\ ~ s.permissive) THEN Failure ELSE s
=============================================================================
