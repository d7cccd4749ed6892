------------------------------ MODULE ShellQuote ------------------------------
(***************************************************************************)
(* remediation_command (compute_offset_reset_plan.py): an argument list is *)
(* quoted and joined, and a human pastes the line into bash, which takes   *)
(* it apart again.  A character stands for all those that quoting and bash *)
(* treat alike: "safe" is alphanumeric or in @%+=:,./-_, "special" has a   *)
(* meaning to bash outside of quotes.                                      *)
(***************************************************************************)
EXTENDS SequencesExt

CONSTANT ArgLists  \* the argument lists

Classes == {"safe", "space", "quote", "backslash", "special"}

ASSUME ArgListsAssumption == ArgLists \subseteq Seq(Seq(Classes)) \ {<<>>}

VARIABLES args, line, understood

quoteVars == <<args, line, understood>>

NotRun    == <<<<"not run">>>>
QuoteInit == args \in ArgLists /\ line = <<>> /\ understood = NotRun

----------------------------------------------------------------------------
\* Mutant: embedded quotes are left as they are.
EscapedNot(c) == <<c>>

\* arg.replace("'", "'\\''")
Escaped(c) == IF c = "quote" THEN <<"quote", "backslash", "quote", "quote">> ELSE <<c>>

_quote_for_shell(arg) ==
  IF arg # <<>> /\ \A n \in DOMAIN arg : arg[n] = "safe"
  THEN arg
  ELSE <<"quote">> \o FlattenSeq([n \in DOMAIN arg |-> Escaped(arg[n])]) \o <<"quote">>

remediation_command(argv) ==
  Tail(FlattenSeq([n \in DOMAIN argv |-> <<"space">> \o _quote_for_shell(argv[n])]))

Render_command ==
  /\ line = <<>>
  /\ line' = remediation_command(args)
  /\ UNCHANGED <<args, understood>>

----------------------------------------------------------------------------
\* Bash: the words so far, the one being read, and how it reads on.
Reading(words, word, how) == [words |-> words, word |-> word, how |-> how]

Step(r, c) ==
  LET add == Append(r.word, c)
  IN  CASE r.how = "broken"                  -> r
        [] r.how = "quoted" /\ c = "quote"   -> Reading(r.words, r.word, "bare")
        [] r.how = "quoted" /\ c # "quote"   -> Reading(r.words, add, "quoted")
        [] r.how = "escaped"                 -> Reading(r.words, add, "bare")
        [] r.how = "between" /\ c = "space"  -> r
        [] r.how = "bare" /\ c = "space"     -> Reading(Append(r.words, r.word), <<>>, "between")
        [] OTHER ->
             CASE c = "quote"     -> Reading(r.words, r.word, "quoted")
               [] c = "backslash" -> Reading(r.words, r.word, "escaped")
               [] c = "special"   -> Reading(r.words, r.word, "broken")
               [] OTHER           -> Reading(r.words, add, "bare")

NothingRead == Reading(<<>>, <<>>, "between")

\* How it reads after each character.
Reads(text) ==
  LET read[n \in 0..Len(text)] == IF n = 0 THEN NothingRead ELSE Step(read[n - 1], text[n])
  IN  read

Bash(text) ==
  LET r == Reads(text)[Len(text)]
  IN  CASE r.how = "bare"    -> Append(r.words, r.word)
        [] r.how = "between" -> r.words
        [] OTHER             -> <<<<"not a command">>>>

Paste ==
  /\ line # <<>> /\ understood = NotRun
  /\ understood' = Bash(line)
  /\ UNCHANGED <<args, line>>

QuoteNext == Render_command \/ Paste

QuoteSpec == QuoteInit /\ [][QuoteNext]_quoteVars

\* "Quote a CLI argument so the resulting string is safe to copy-paste into
\* bash" (compute_offset_reset_plan.py:239): bash understands the arguments the
\* plan was made with, whatever characters group and topic names have.
PasteRoundTrips == understood \in {NotRun, args}
=============================================================================
