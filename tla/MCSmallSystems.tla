---------------------------- MODULE MCSmallSystems ----------------------------
(* Small systems that share nothing, side by side: in every behaviour one   *)
(* of them runs, and the others stay where they start.                      *)
EXTENDS Cracker1, MCCracker2, ChatRoom, Mapreduce

CONSTANTS g1, g2, g3

VARIABLE system

Init == /\ system \in {"cracker1", "cracker2", "chat room", "mapreduce"}
        /\ Cracker1Init /\ Cracker2Init /\ ChatInit /\ MapreduceInit
        /\ system # "cracker1"  => input = <<>>
        /\ system # "cracker2"  => lines = <<>>
        /\ system # "chat room" => unsent = {}

allVars == <<cracker1Vars, cracker2Vars, chatVars, mapreduceVars, system>>

Cracker1(step) == system = "cracker1" /\ step
                  /\ UNCHANGED <<cracker2Vars, chatVars, mapreduceVars, system>>

Cracker2(step) == system = "cracker2" /\ step
                  /\ UNCHANGED <<cracker1Vars, chatVars, mapreduceVars, system>>

ChatRoom(step) == system = "chat room" /\ step
                  /\ UNCHANGED <<cracker1Vars, cracker2Vars, mapreduceVars, system>>

Mapreduce(step) == system = "mapreduce" /\ step
                   /\ UNCHANGED <<cracker1Vars, cracker2Vars, chatVars, system>>

Next == \/ Cracker1(Cracker1Next) \/ Cracker2(Cracker2Next)
        \/ ChatRoom(ChatNext) \/ Mapreduce(MapreduceNext)

Spec == Init /\ [][Next]_allVars

\* As long as any thread of the system that runs can take a step, one of them
\* does.  This is less than Cracker1Fairness, Cracker2Fairness, ChatFairness and
\* MapreduceFairSpec promise, which is a step of every thread, and enough: no
\* thread steps for ever.
AnyThread == \/ Cracker1(Cracker1Next) \/ Cracker2(Cracker2Next)
             \/ ChatRoom(RunServer \/ \E s \in Slot : ProcessClient(s))
             \/ Mapreduce(ParentStep \/ ChildStep)

FairSpec == Spec /\ WF_allVars(AnyThread)

\* No line; fewer lines than workers; and more.
MCInputs == { <<>>, <<TRUE>>, <<TRUE, FALSE>>, <<FALSE, TRUE, TRUE, FALSE>> }

\* Nobody talks, or two of the guests do.
MCTalkers == {{}, {g1, g2}}

\* When cracker1 runs, it ends with every line counted (AllCounted).
Cracker1Ends == system = "cracker1" => AllCounted

\* When cracker2 runs, it ends with all threads joined (AllJoined).
Cracker2Ends == system = "cracker2" => AllJoined

\* When mapreduce runs, it ends with every piece reduced (AllReduced), unless a
\* fork, a mapper or the reducer fails.
MapreduceEnds == system = "mapreduce" => AllReduced
=============================================================================
