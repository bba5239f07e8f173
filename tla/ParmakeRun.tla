------------------------------ MODULE ParmakeRun ------------------------------
(***************************************************************************)
(* parallel_make/parmake.c: the worker threads (run and its helpers).      *)
(*                                                                         *)
(* Monitor's mutex is target_mut, which guards the list of rules still to  *)
(* be claimed; its condition variable is cv.  g_mut guards the states of   *)
(* the rules; nothing blocks while it is held, so its sections are single  *)
(* actions.  set_state broadcasts under g_mut, but workers wait on cv with *)
(* target_mut, so a broadcast may come after a worker has looked and       *)
(* before it sleeps: Scan and Sleep are separate actions.                  *)
(***************************************************************************)
EXTENDS Monitor, Integers, Sequences, SequencesExt

CONSTANTS Rule,
          NoRule,
          Now         \* modification time of a file that a command writes

ASSUME NoRuleAssumption == NoRule \notin Rule
ASSUME NowAssumption == Now \in Nat

VARIABLES deps,            \* the rules each rule depends on, in order
          mtime,           \* modification time of each target; 0: not a file
          all_vertex_dfs,  \* the rules nobody has claimed yet
          state,           \* of each rule: 0 not settled, 1 done, -1 failed
          rule,            \* per worker: the rule it has claimed
          outcome,         \* per worker: its local variable get_state
          runs             \* history: how often a rule's commands were run

files   == <<deps, mtime>>
claim   == <<rule, outcome>>
vars    == <<files, monitor, all_vertex_dfs, state, claim, runs, pc>>

WorkersInit == /\ MonitorInit
               /\ state = [r \in Rule |-> 0]
               /\ rule = [w \in Thread |-> NoRule]
               /\ outcome = [w \in Thread |-> 0]
               /\ runs = [r \in Rule |-> 0]
               /\ pc = [w \in Thread |-> "loop"]

NotDone(r) == { i \in DOMAIN deps[r] : state[deps[r][i]] # 1 }

\* Fault: only the first dependency is looked at.
CheckFirstDependency(r, s) ==
  s = IF deps[r] = <<>> THEN 1 ELSE state[Head(deps[r])]

\* Fault: any state that is not 0 counts as done.
CheckAnySettled(r, s) ==
  LET open == { i \in DOMAIN deps[r] : state[deps[r][i]] = 0 }
  IN  s = IF open = {} THEN 1 ELSE 0

\* check_dependencies answers s: 1 if every dependency of r is done, else the
\* state of the first one that is not.  A failure behind an unfinished
\* dependency is not seen yet.
CheckDependencies(r, s) ==
  \/ s = 1 /\ NotDone(r) = {}
  \/ \E i \in NotDone(r) : /\ \A j \in NotDone(r) : i <= j
                           /\ s = state[deps[r][i]]

\* check_file_dependencies answers s: 0 if r's target is not a file or no
\* dependency is older; else what the first older one says, -1 if it is not a
\* file itself and 1 if it is.
Older(r) == { i \in DOMAIN deps[r] : mtime[deps[r][i]] < mtime[r] }

CheckFileDependencies(r, s) ==
  \/ s = 0 /\ Older(r) = {}
  \/ \E i \in Older(r) : /\ \A j \in Older(r) : i <= j
                         /\ s = IF mtime[deps[r][i]] = 0 THEN -1 ELSE 1

-----------------------------------------------------------------------------
LockTargets(w) == /\ Goto(w, "loop", "scan")
                  /\ Lock(w)
                  /\ UNCHANGED <<files, asleep, all_vertex_dfs, state, claim, runs>>

\* Nothing is left to claim: the worker ends.
Finish(w) == /\ Goto(w, "scan", "exit")
             /\ all_vertex_dfs = <<>>
             /\ Unlock(w)
             /\ UNCHANGED <<files, asleep, all_vertex_dfs, state, claim, runs>>

\* Claim the first rule in the list whose dependencies have an answer.
Claim(w) == \E i \in DOMAIN all_vertex_dfs, s \in {1, -1} :
  /\ Goto(w, "scan", IF s = 1 THEN "check" ELSE "release")
  /\ CheckDependencies(all_vertex_dfs[i], s)
  /\ \A j \in 1..(i - 1) : CheckDependencies(all_vertex_dfs[j], 0)
  /\ rule' = [rule EXCEPT ![w] = all_vertex_dfs[i]]
  /\ outcome' = [outcome EXCEPT ![w] = s]
  /\ all_vertex_dfs' = RemoveAt(all_vertex_dfs, i)
  /\ UNCHANGED <<files, monitor, state, runs>>

\* The scan found no such rule; g_mut is released and the wait still to come.
NothingReady(w) ==
  /\ Goto(w, "scan", "sleepy")
  /\ all_vertex_dfs # <<>>
  /\ \A i \in DOMAIN all_vertex_dfs : CheckDependencies(all_vertex_dfs[i], 0)
  /\ UNCHANGED <<files, monitor, all_vertex_dfs, state, claim, runs>>

Sleep(w) == /\ Goto(w, "sleepy", "sleep")
            /\ CondWait(w)
            /\ UNCHANGED <<files, all_vertex_dfs, state, claim, runs>>

\* pthread_cond_wait returns with target_mut, which is released at once.
Resume(w) == /\ Goto(w, "sleep", "loop")
             /\ w \notin asleep
             /\ owner = NoThread
             /\ UNCHANGED <<files, monitor, all_vertex_dfs, state, claim, runs>>

\* Compare modification times, still holding target_mut, then release it.
CheckFiles(w) == \E s \in {0, 1, -1} :
  /\ Goto(w, "check", IF s = 0 THEN "execute" ELSE "settle")
  /\ CheckFileDependencies(rule[w], s)
  /\ outcome' = [outcome EXCEPT ![w] = s]
  /\ Unlock(w)
  /\ UNCHANGED <<files, asleep, all_vertex_dfs, state, rule, runs>>

\* A dependency failed: target_mut is released and nothing is executed.
Release(w) == /\ Goto(w, "release", "settle")
              /\ Unlock(w)
              /\ UNCHANGED <<files, asleep, all_vertex_dfs, state, claim, runs>>

\* execute_commands: the commands succeed or one fails; they may write the
\* rule's own target.
Execute(w) == /\ Goto(w, "execute", "settle")
              /\ \E s \in {1, -1} : outcome' = [outcome EXCEPT ![w] = s]
              /\ \E m \in {mtime[rule[w]], Now} :
                    mtime' = [mtime EXCEPT ![rule[w]] = m]
              /\ runs' = [runs EXCEPT ![rule[w]] = @ + 1]
              /\ UNCHANGED <<deps, monitor, all_vertex_dfs, state, rule>>

\* Fault: the state is set and sleeping workers are not told.
SetStateQuietly(w) == /\ Goto(w, "settle", "loop")
                      /\ state' = [state EXCEPT ![rule[w]] = outcome[w]]
                      /\ rule' = [rule EXCEPT ![w] = NoRule]
                      /\ UNCHANGED <<files, monitor, all_vertex_dfs, outcome, runs>>

SetState(w) == /\ Goto(w, "settle", "loop")
               /\ state' = [state EXCEPT ![rule[w]] = outcome[w]]
               /\ rule' = [rule EXCEPT ![w] = NoRule]
               /\ Broadcast
               /\ UNCHANGED <<files, owner, all_vertex_dfs, outcome, runs>>

Wake(w) == /\ SpuriousWake(w)
           /\ UNCHANGED <<files, owner, all_vertex_dfs, state, claim, runs, pc>>

Run(w) == \/ LockTargets(w) \/ Finish(w) \/ Claim(w) \/ NothingReady(w)
          \/ Sleep(w) \/ Resume(w) \/ CheckFiles(w) \/ Release(w)
          \/ Execute(w) \/ SetState(w)

WorkersNext == \E w \in Thread : Run(w) \/ Wake(w)

\* The workers on their own: any makefile, any order of the list, but no rule
\* twice in it.
NoRepeats(s) == \A i, j \in DOMAIN s : s[i] = s[j] => i = j

RunInit == /\ WorkersInit
           /\ deps \in [Rule -> Seq(Rule)] /\ mtime \in [Rule -> Nat]
           /\ all_vertex_dfs \in Seq(Rule) /\ NoRepeats(all_vertex_dfs)

RunSpec == RunInit /\ [][WorkersNext]_vars

-----------------------------------------------------------------------------
PC == {"loop", "scan", "sleepy", "sleep", "check", "release", "execute",
       "settle", "exit"}

\* Types of the shared and of the workers' state.
TypeOK == /\ MonitorTypeOK
          /\ deps \in [Rule -> Seq(Rule)]
          /\ mtime \in [Rule -> Nat]
          /\ all_vertex_dfs \in Seq(Rule)
          /\ state \in [Rule -> {0, 1, -1}]
          /\ rule \in [Thread -> Rule \cup {NoRule}]
          /\ outcome \in [Thread -> {0, 1, -1}]
          /\ runs \in [Rule -> Nat]
          /\ pc \in [Thread -> PC]

Unclaimed == { all_vertex_dfs[i] : i \in DOMAIN all_vertex_dfs }

\* The commands of a rule run at most once, and only while or after every rule
\* it depends on is done, whatever the interleaving of workers.
DependenciesFirst ==
  /\ \A r \in Rule : runs[r] <= 1
  /\ \A r \in Rule : runs[r] > 0 => NotDone(r) = {}

\* A rule is unclaimed, or claimed by one worker, or settled, and never two
\* of these: no rule is lost between the list and set_state or taken twice.
OneOwner ==
  /\ \A w \in Thread : rule[w] # NoRule =>
        /\ rule[w] \notin Unclaimed
        /\ state[rule[w]] = 0
        /\ \A v \in Thread : rule[v] = rule[w] => v = w
  /\ \A r \in Unclaimed : state[r] = 0 /\ runs[r] = 0

\* A rule that depends on a failed one is never done and never executed.
FailureSpreads ==
  \A r \in Rule : (\E i \in DOMAIN deps[r] : state[deps[r][i]] = -1)
                    => state[r] # 1 /\ runs[r] = 0

\* What a rule has settled on is final.
Final == [][\A r \in Rule : state[r] # 0 => state'[r] = state[r]]_vars
=============================================================================
