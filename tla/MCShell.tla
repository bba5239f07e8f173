------------------------------- MODULE MCShell -------------------------------
(* Lines of each kind: with a command that is executed in the background,   *)
(* with the operators, with a redirection, with a recalled line; and what   *)
(* the shell may remember from before, a line that is not cut at a word.    *)
EXTENDS Shell

Simple(word, rest)      == [word |-> word, rest |-> rest]
Line(op, first, second) == [op |-> op, first |-> first, second |-> second]

Command(word)  == Simple(word, FALSE)
Only(simple)   == Line("none", simple, Command(""))
Background     == Only(Simple("run", TRUE))

MCLines == { Background, Only(Command("!")), Only(Command("exit")), Only(Command("")),
             Line("&&", Command("run"), Command("ps")),
             Line("||", Command("run"), Command("cd")),
             Line(">", Command("run"), Command("")),
             Line(";", Command("!"), Command("run")) }

MCHistories == {<<Background>>}
=============================================================================
