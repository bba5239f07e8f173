------------------------------- MODULE Parmake -------------------------------
(***************************************************************************)
(* parallel_make/parmake.c: parmake itself.  The main thread drops the     *)
(* targets with cycles, lists the rules to build and starts the workers of *)
(* ParmakeRun.  What parser_parse_makefile returns is the input.           *)
(***************************************************************************)
EXTENDS ParmakeRun

CONSTANT Makefiles    \* records: deps, mtime and goals of a parsed makefile

VARIABLES target_list,   \* the goals still wanted
          at,            \* vector_check's index, from 1
          main           \* "check", "collect", "run", "done" or "overflow"

mainVars == <<target_list, at, main>>
allVars  == <<vars, mainVars>>

Init == /\ WorkersInit
        /\ all_vertex_dfs = <<>>
        /\ \E m \in Makefiles : /\ deps = m.deps
                                /\ mtime = m.mtime
                                /\ target_list = m.goals
        /\ at = 1
        /\ main = "check"

\* Deeper than any call that returns: every recursion on a path this long
\* repeats itself.
Depth == 3 * Cardinality(Rule)

\* cycle_detect(r) called with visited_vertex = V returns 0 or 1, or 2 when it
\* recurses without end.  Each return destroys the set, so only the walk into
\* the first neighbour still knows the vertices above it.
CycleDetect ==
  LET detect[k \in 0..Depth] ==
        [r \in Rule, V \in SUBSET Rule |->
           IF k = 0 THEN 2
           ELSE IF r \in V THEN 1
           ELSE LET found(i) == detect[k - 1][deps[r][i],
                                              IF i = 1 THEN V \cup {r} ELSE {}]
                    hits == { i \in DOMAIN deps[r] : found(i) # 0 }
                IN  IF hits = {} THEN 0 ELSE found(Min(hits))]
  IN  detect[Depth]

\* get_all_vertex_dfs, without the test of visited_vertex: children, then r.
PostOrder ==
  LET post[k \in 0..Depth] ==
        [r \in Rule |->
           IF k = 0 THEN <<>>
           ELSE Append(FlattenSeq([i \in DOMAIN deps[r] |-> post[k - 1][deps[r][i]]]),
                       r)]
  IN  post[Depth]

\* Some walk along the dependencies of r comes back to a rule it has left.
Reaches(r) == LET step(S) == S \cup UNION { ToSet(deps[q]) : q \in S }
                  grow[k \in 0..Cardinality(Rule)] ==
                    IF k = 0 THEN ToSet(deps[r]) ELSE step(grow[k - 1])
              IN  grow[Cardinality(Rule)]
Cyclic(r) == \E q \in {r} \cup Reaches(r) : q \in Reaches(q)

\* Fault: a rule that two targets need is listed twice.
PushAlways(seq, r) == Append(seq, r)

\* set_contains: a rule already in the list is not pushed again.
PushNew(seq, r) == IF r \in ToSet(seq) THEN seq ELSE Append(seq, r)

-----------------------------------------------------------------------------
\* One iteration of vector_check's loop, which advances the index twice.
CheckTarget ==
  /\ main = "check" /\ at <= Len(target_list)
  /\ LET found == CycleDetect[target_list[at], {}] IN
       /\ target_list' = IF found = 1 THEN RemoveAt(target_list, at) ELSE target_list
       /\ at' = IF found = 1 THEN at + 1 ELSE at + 2
       /\ main' = IF found = 2 THEN "overflow" ELSE main
  /\ UNCHANGED vars

\* The loop ends; with no target left parmake returns 0.
Checked == /\ main = "check" /\ at > Len(target_list)
           /\ main' = IF target_list = <<>> THEN "done" ELSE "collect"
           /\ UNCHANGED <<vars, target_list, at>>

\* get_all_vertex_dfs on every target; on a cycle it never returns.
Collect == /\ main = "collect"
           /\ IF \E i \in DOMAIN target_list : Cyclic(target_list[i])
              THEN main' = "overflow" /\ UNCHANGED all_vertex_dfs
              ELSE /\ main' = "run"
                   /\ all_vertex_dfs' =
                        FoldLeft(PushNew, <<>>,
                          FlattenSeq([i \in DOMAIN target_list |->
                                        PostOrder[target_list[i]]]))
           /\ UNCHANGED <<files, monitor, state, claim, runs, pc, target_list, at>>

Workers(w) == main = "run" /\ Run(w) /\ UNCHANGED mainVars

\* All threads are joined and everything is freed.
Join == /\ main = "run"
        /\ \A w \in Thread : pc[w] = "exit"
        /\ main' = "done"
        /\ UNCHANGED <<vars, target_list, at>>

Next == \/ CheckTarget \/ Checked \/ Collect \/ Join
        \/ \E w \in Thread : Workers(w)
        \/ main = "run" /\ (\E w \in Thread : Wake(w)) /\ UNCHANGED mainVars

Spec == Init /\ [][Next]_allVars

FairSpec == /\ Spec
            /\ WF_allVars(CheckTarget \/ Checked \/ Collect \/ Join)
            /\ \A w \in Thread : WF_allVars(Workers(w))

-----------------------------------------------------------------------------
\* Every rule that a wanted target needs is done or failed.
Complete == \A i \in DOMAIN target_list :
              \A r \in {target_list[i]} \cup Reaches(target_list[i]) : state[r] # 0

\* A build ends, and when it does every rule that a wanted target needs is
\* done or failed: no worker sleeps through the last broadcast, and none
\* leaves while a rule is unclaimed.
Ends == (<>[][\A w \in Thread : ~Wake(w)]_vars) => <>(main = "done" /\ Complete)

\* vector_check deletes the targets that have cycles.
CyclicTargetsDeleted ==
  main = "collect" => \A i \in DOMAIN target_list : ~Cyclic(target_list[i])
=============================================================================
