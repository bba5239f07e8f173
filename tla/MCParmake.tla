------------------------------ MODULE MCParmake ------------------------------
(* Makefiles for TLC.                                                      *)
EXTENDS Parmake, TLC

CONSTANTS a, b, c, d

\* No target is a file, so every rule is executed.
NoFiles == [r \in Rule |-> 0]

\* a needs b and c, which both need d: a failure of d spreads along both.
Diamond == (a :> <<b, c>>) @@ (b :> <<d>>) @@ (c :> <<d>>) @@ (d :> <<>>)

\* a's first dependency takes longer than its second.
Lopsided == (a :> <<b, c>>) @@ (b :> <<d>>) @@ (c :> <<>>) @@ (d :> <<>>)

\* c needs itself through d.
Loop == (a :> <<b>>) @@ (b :> <<>>) @@ (c :> <<d>>) @@ (d :> <<c>>)

Make(ds, ms, gs) == [deps |-> ds, mtime |-> ms, goals |-> gs]

Times == (a :> 2) @@ (b :> 1) @@ (c :> 2) @@ (d :> 1)

MCMakefiles == { Make(Diamond, NoFiles, <<a>>), Make(Diamond, Times, <<a, c>>),
                 Make(Lopsided, NoFiles, <<a, d>>),
                 Make(Loop, NoFiles, <<c, a>>), Make(Loop, NoFiles, <<c>>) }

CycleSecond == { Make(Loop, NoFiles, <<a, c>>) }
=============================================================================
