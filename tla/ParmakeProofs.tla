---------------------------- MODULE ParmakeProofs ----------------------------
(***************************************************************************)
(* The workers of parmake for any makefile, any order of the list and any  *)
(* number of workers.                                                      *)
(***************************************************************************)
EXTENDS ParmakeRun, SequenceTheorems, TLAPS

\* What vector_erase leaves of the list.
LEMMA Removed ==
  ASSUME NEW s \in Seq(Rule), NEW i \in DOMAIN s
  PROVE  /\ RemoveAt(s, i) \in Seq(Rule)
         /\ Len(RemoveAt(s, i)) = Len(s) - 1
         /\ \A j \in 1..(Len(s) - 1) :
              RemoveAt(s, i)[j] = IF j < i THEN s[j] ELSE s[j + 1]
<1> DEFINE p == SubSeq(s, 1, i - 1)
           q == SubSeq(s, i + 1, Len(s))
<1>1. i \in 1..Len(s) /\ Len(s) \in Nat
  OBVIOUS
<1>2. /\ p \in Seq(Rule) /\ Len(p) = i - 1
      /\ \A j \in 1..(i - 1) : p[j] = s[j]
  <2>1. \A j \in 1..(i - 1) : s[j] \in Rule
    BY <1>1
  <2> QED
    BY <1>1, <2>1, SubSeqProperties
<1>3. /\ q \in Seq(Rule) /\ Len(q) = Len(s) - i
      /\ \A j \in 1..(Len(s) - i) : q[j] = s[i + j]
  <2>1. \A j \in (i + 1)..Len(s) : s[j] \in Rule
    BY <1>1
  <2> QED
    BY <1>1, <2>1, SubSeqProperties
<1>4. RemoveAt(s, i) = p \o q
  BY DEF RemoveAt
<1> HIDE DEF p, q
<1>5. /\ p \o q \in Seq(Rule) /\ Len(p \o q) = Len(p) + Len(q)
      /\ \A j \in 1..(Len(p) + Len(q)) :
           (p \o q)[j] = IF j <= Len(p) THEN p[j] ELSE q[j - Len(p)]
  BY <1>2, <1>3, ConcatProperties
<1>6. Len(p) + Len(q) = Len(s) - 1
  BY <1>1, <1>2, <1>3
<1>7. ASSUME NEW j \in 1..(Len(s) - 1)
      PROVE  (p \o q)[j] = IF j < i THEN s[j] ELSE s[j + 1]
  <2>1. (p \o q)[j] = IF j <= i - 1 THEN p[j] ELSE q[j - (i - 1)]
    BY <1>2, <1>5, <1>6, <1>7
  <2>2. CASE j < i
    BY <2>1, <2>2, <1>1, <1>2, <1>7
  <2>3. CASE ~(j < i)
    <3>1. j - (i - 1) \in 1..(Len(s) - i) /\ i + (j - (i - 1)) = j + 1 /\ ~(j <= i - 1)
      BY <2>3, <1>1, <1>7
    <3>2. q[j - (i - 1)] = s[i + (j - (i - 1))]
      BY ONLY <1>3, <3>1
    <3>3. (p \o q)[j] = q[j - (i - 1)]
      BY ONLY <2>1, <3>1
    <3>4. (p \o q)[j] = s[j + 1]
      BY ONLY <3>1, <3>2, <3>3
    <3> QED
      BY ONLY <2>3, <3>4
  <2> QED
    BY <2>2, <2>3
<1> QED
  BY <1>4, <1>5, <1>6, <1>7

\* Erasing entry i of a list without repeats removes that rule and no other.
LEMMA Erased ==
  ASSUME NEW s \in Seq(Rule), NoRepeats(s), NEW i \in DOMAIN s, NEW z,
         z = RemoveAt(s, i)
  PROVE  /\ z \in Seq(Rule) /\ NoRepeats(z)
         /\ \A j \in DOMAIN z : z[j] # s[i] /\ \E k \in DOMAIN s : z[j] = s[k]
<1>1. /\ z \in Seq(Rule) /\ Len(z) = Len(s) - 1
      /\ \A j \in 1..(Len(s) - 1) : z[j] = IF j < i THEN s[j] ELSE s[j + 1]
  <2>1. s \in Seq(Rule) /\ i \in DOMAIN s /\ z = RemoveAt(s, i)
    OBVIOUS
  <2> QED
    BY ONLY <2>1, Removed
<1>2. DOMAIN z = 1..(Len(s) - 1) /\ DOMAIN s = 1..Len(s) /\ Len(s) \in Nat
  <2>1. s \in Seq(Rule) /\ z \in Seq(Rule) /\ Len(z) = Len(s) - 1
    BY <1>1
  <2> QED
    BY ONLY <2>1
<1>3. ASSUME NEW j \in 1..(Len(s) - 1)
      PROVE  \E k \in 1..Len(s) : z[j] = s[k] /\ k # i /\ k = IF j < i THEN j ELSE j + 1
  <2>1. PICK n \in Nat : n = Len(s) /\ i \in 1..n /\ j \in 1..(n - 1)
    BY <1>2, <1>3
  <2>2. CASE j < i
    <3>1. z[j] = s[j] /\ j \in 1..n /\ j # i
      BY <1>1, <2>1, <2>2
    <3> QED
      BY ONLY <2>1, <2>2, <3>1
  <2>3. CASE ~(j < i)
    <3>1. z[j] = s[j + 1]
      BY <1>1, <2>3
    <3>2. j + 1 \in 1..n /\ j + 1 # i
      BY ONLY <2>1, <2>3
    <3> QED
      BY ONLY <2>1, <2>3, <3>1, <3>2
  <2> QED
    BY <2>2, <2>3
<1>4. \A k, l \in 1..Len(s) : s[k] = s[l] => k = l
  BY <1>2 DEF NoRepeats
<1>5. NoRepeats(z)
  <2>1. ASSUME NEW a \in 1..(Len(s) - 1), NEW b \in 1..(Len(s) - 1), z[a] = z[b]
        PROVE  a = b
    <3>1. PICK k \in 1..Len(s) : z[a] = s[k] /\ k = IF a < i THEN a ELSE a + 1
      BY <1>3
    <3>2. PICK l \in 1..Len(s) : z[b] = s[l] /\ l = IF b < i THEN b ELSE b + 1
      BY <1>3
    <3>3. k = l
      BY ONLY <1>4, <2>1, <3>1, <3>2
    <3>4. i \in Int /\ a \in Int /\ b \in Int
      BY <1>2
    <3> QED
      BY ONLY <3>1, <3>2, <3>3, <3>4
  <2> QED
    BY ONLY <1>2, <2>1 DEF NoRepeats
<1>6. \A j \in DOMAIN z : z[j] # s[i] /\ \E k \in DOMAIN s : z[j] = s[k]
  <2>1. ASSUME NEW j \in 1..(Len(s) - 1)  PROVE z[j] # s[i] /\ \E k \in DOMAIN s : z[j] = s[k]
    <3>1. PICK k \in 1..Len(s) : z[j] = s[k] /\ k # i
      BY <1>3
    <3>2. s[k] # s[i]
      BY <1>2, <1>4, <3>1
    <3> QED
      BY ONLY <1>2, <3>1, <3>2
  <2> QED
    BY ONLY <1>2, <2>1
<1> QED
  BY <1>1, <1>5, <1>6

-----------------------------------------------------------------------------
\* A worker holds target_mut from its lock to the end of the scan, through
\* the file check, and up to the wait.
MutexOK == \A w \in Thread :
             owner = w <=> pc[w] \in {"scan", "sleepy", "check", "release"}

\* A worker has a claimed rule exactly from Claim to SetState, and what it
\* learnt about the rule's dependencies still holds.
Claims(w) ==
  /\ rule[w] # NoRule <=> pc[w] \in {"check", "release", "execute", "settle"}
  /\ pc[w] \in {"check", "execute"} => NotDone(rule[w]) = {} /\ runs[rule[w]] = 0
  /\ pc[w] = "release" => outcome[w] = -1 /\ runs[rule[w]] = 0
  /\ pc[w] = "settle" => /\ outcome[w] # 0
                         /\ \/ NotDone(rule[w]) = {}
                            \/ outcome[w] = -1 /\ runs[rule[w]] = 0

ClaimOK == \A w \in Thread : Claims(w)

\* A rule that is done has its dependencies done.
DoneOK == \A r \in Rule : state[r] = 1 => NotDone(r) = {}

IInv == /\ TypeOK /\ MutexOK /\ ClaimOK /\ DoneOK /\ NoRepeats(all_vertex_dfs)
        /\ OneOwner /\ DependenciesFirst

USE NoThreadAssumption, NoRuleAssumption, NowAssumption

\* No rule is claimed or settled before the workers start.
LEMMA InitOK == RunInit => IInv
BY DEF RunInit, WorkersInit, MonitorInit, IInv, TypeOK, MonitorTypeOK, PC,
       MutexOK, ClaimOK, Claims, DoneOK, OneOwner, Unclaimed, DependenciesFirst

\* The steps that touch neither rules nor claims.
LEMMA QuietStep ==
  ASSUME IInv, NEW w \in Thread,
         \/ LockTargets(w) \/ Finish(w) \/ NothingReady(w) \/ Sleep(w)
         \/ Resume(w) \/ Wake(w) \/ UNCHANGED vars
  PROVE  IInv'
<1>1. UNCHANGED <<files, all_vertex_dfs, state, claim, runs>>
  BY DEF LockTargets, Finish, NothingReady, Sleep, Resume, Wake, vars
<1>2. TypeOK' /\ MutexOK'
  <2> USE DEF IInv, TypeOK, MonitorTypeOK, MutexOK, PC, Goto, files, claim, monitor
  <2>1. CASE LockTargets(w)
    BY <1>1, <2>1 DEF LockTargets, Lock
  <2>2. CASE Finish(w)
    BY <1>1, <2>2 DEF Finish, Unlock
  <2>3. CASE NothingReady(w)
    BY <1>1, <2>3 DEF NothingReady
  <2>4. CASE Sleep(w)
    BY <1>1, <2>4 DEF Sleep, CondWait, Unlock
  <2>5. CASE Resume(w)
    BY <1>1, <2>5 DEF Resume
  <2>6. CASE Wake(w)
    BY <1>1, <2>6 DEF Wake, SpuriousWake
  <2>7. CASE UNCHANGED vars
    BY <2>7 DEF vars
  <2> QED
    BY <2>1, <2>2, <2>3, <2>4, <2>5, <2>6, <2>7
<1>3. \A v \in Thread :
         /\ pc'[v] \in {"check", "release", "execute", "settle"}
              <=> pc[v] \in {"check", "release", "execute", "settle"}
         /\ pc[v] \in {"check", "release", "execute", "settle"} => pc'[v] = pc[v]
  BY DEF IInv, TypeOK, PC, Goto, LockTargets, Finish, NothingReady, Sleep,
         Resume, Wake, vars
<1>4. ClaimOK'
  BY <1>1, <1>3 DEF IInv, ClaimOK, Claims, NotDone, files, claim
<1>5. (DoneOK /\ NoRepeats(all_vertex_dfs) /\ OneOwner /\ DependenciesFirst)'
  BY <1>1 DEF IInv, DoneOK, NotDone, NoRepeats, OneOwner, Unclaimed,
              DependenciesFirst, files, claim
<1> QED
  BY <1>2, <1>4, <1>5 DEF IInv

\* Claim moves one rule from the list to the worker.
LEMMA ClaimStep == ASSUME IInv, NEW w \in Thread, Claim(w) PROVE IInv'
<1>1. PICK i \in DOMAIN all_vertex_dfs, s \in {1, -1} :
         /\ Goto(w, "scan", IF s = 1 THEN "check" ELSE "release")
         /\ CheckDependencies(all_vertex_dfs[i], s)
         /\ rule' = [rule EXCEPT ![w] = all_vertex_dfs[i]]
         /\ outcome' = [outcome EXCEPT ![w] = s]
         /\ all_vertex_dfs' = RemoveAt(all_vertex_dfs, i)
         /\ UNCHANGED <<files, monitor, state, runs>>
  BY DEF Claim
<1> DEFINE r == all_vertex_dfs[i]
<1>2. r \in Rule /\ r \in Unclaimed /\ all_vertex_dfs \in Seq(Rule)
  BY DEF IInv, TypeOK, Unclaimed
<1>3. state[r] = 0 /\ runs[r] = 0 /\ \A v \in Thread : rule[v] # r
  BY <1>2 DEF IInv, OneOwner
<1>4. s = 1 => NotDone(r) = {}
  BY <1>1 DEF CheckDependencies, NotDone
<1>5. /\ all_vertex_dfs' \in Seq(Rule) /\ NoRepeats(all_vertex_dfs')
      /\ \A j \in DOMAIN all_vertex_dfs' :
           /\ all_vertex_dfs'[j] # r
           /\ \E k \in DOMAIN all_vertex_dfs : all_vertex_dfs'[j] = all_vertex_dfs[k]
  BY <1>1, <1>2, Erased DEF IInv
<1>6. Unclaimed' \subseteq Unclaimed \ {r}
  BY <1>5 DEF Unclaimed
<1> HIDE DEF r
<1>7. TypeOK' /\ MutexOK'
  BY <1>1, <1>2, <1>5 DEF IInv, TypeOK, MonitorTypeOK, MutexOK, PC, Goto, files,
                          monitor, r
<1>8. ClaimOK'
  <2>1. /\ deps' = deps /\ state' = state /\ runs' = runs /\ s \in {1, -1}
        /\ rule' = [rule EXCEPT ![w] = r] /\ outcome' = [outcome EXCEPT ![w] = s]
        /\ pc' = [pc EXCEPT ![w] = IF s = 1 THEN "check" ELSE "release"]
    BY <1>1 DEF Goto, files, r
  <2>2. /\ DOMAIN rule = Thread /\ DOMAIN outcome = Thread /\ DOMAIN pc = Thread
        /\ \A v \in Thread : Claims(v)
    BY DEF IInv, TypeOK, PC, ClaimOK
  <2>4. Claims(w)'
    <3>1. rule'[w] = r /\ outcome'[w] = s /\ r # NoRule
      BY <1>2, <2>1, <2>2
    <3>2. pc'[w] = IF s = 1 THEN "check" ELSE "release"
      BY <2>1, <2>2
    <3>3. runs'[r] = 0
      BY <1>3, <2>1
    <3> QED
      BY ONLY <1>4, <2>1, <3>1, <3>2, <3>3 DEF Claims, NotDone
  <2>5. ASSUME NEW v \in Thread, v # w  PROVE Claims(v)'
    <3>1. rule'[v] = rule[v] /\ outcome'[v] = outcome[v] /\ pc'[v] = pc[v]
      BY <2>1, <2>2, <2>5
    <3> QED
      BY ONLY <2>1, <2>2, <2>5, <3>1 DEF Claims, NotDone
  <2> QED
    BY <2>4, <2>5 DEF ClaimOK
<1>9. OneOwner'
  BY <1>1, <1>2, <1>3, <1>6 DEF IInv, TypeOK, OneOwner, r
<1>10. (DoneOK /\ DependenciesFirst)'
  BY <1>1 DEF IInv, DoneOK, NotDone, DependenciesFirst, files
<1> QED
  BY <1>5, <1>7, <1>8, <1>9, <1>10 DEF IInv, NoRepeats

\* The file check keeps the claim.
LEMMA CheckStep ==
  ASSUME IInv, NEW w \in Thread, CheckFiles(w) \/ Release(w) PROVE IInv'
<1>1. (TypeOK /\ MutexOK)'
  <2> USE DEF IInv, TypeOK, MonitorTypeOK, MutexOK, PC, Goto, Unlock, files, claim
  <2>1. CASE CheckFiles(w)
    BY <2>1 DEF CheckFiles
  <2>2. CASE Release(w)
    BY <2>2 DEF Release
  <2> QED
    BY <2>1, <2>2
<1>2. /\ UNCHANGED <<rule, state, runs, deps>>
      /\ \A v \in Thread : v # w => pc'[v] = pc[v] /\ outcome'[v] = outcome[v]
      /\ pc'[w] \in {"execute", "settle"} /\ pc[w] \in {"check", "release"}
  BY DEF CheckFiles, Release, files, claim, IInv, TypeOK, Goto
<1>3. /\ pc'[w] = "settle" => outcome'[w] # 0
      /\ pc[w] = "release" => pc'[w] = "settle" /\ outcome'[w] = outcome[w]
  BY DEF CheckFiles, Release, claim, IInv, TypeOK, Goto, ClaimOK, Claims
<1>4. \A r \in Rule : NotDone(r)' = NotDone(r)
  BY <1>2 DEF NotDone
<1>5. \A v \in Thread : rule[v] # NoRule => rule[v] \in Rule
  BY DEF IInv, TypeOK
<1>6. ClaimOK'
  <2>1. Claims(w)'
    BY <1>2, <1>3, <1>4, <1>5 DEF IInv, ClaimOK, Claims
  <2>2. ASSUME NEW v \in Thread, v # w PROVE Claims(v)'
    BY <1>2, <1>4, <1>5, <2>2 DEF IInv, ClaimOK, Claims
  <2> QED
    BY <2>1, <2>2 DEF ClaimOK
<1>7. (DoneOK /\ NoRepeats(all_vertex_dfs) /\ OneOwner /\ DependenciesFirst)'
  BY DEF CheckFiles, Release, DoneOK, NotDone, NoRepeats, OneOwner, Unclaimed,
         DependenciesFirst, files, claim, IInv
<1> QED
  BY <1>1, <1>6, <1>7 DEF IInv

\* Commands run for a claimed rule whose dependencies are done, and only once.
LEMMA ExecuteStep == ASSUME IInv, NEW w \in Thread, Execute(w) PROVE IInv'
<1> USE DEF IInv, TypeOK, MonitorTypeOK, PC, Goto
<1>1. /\ rule[w] \in Rule /\ rule[w] \notin Unclaimed
      /\ NotDone(rule[w]) = {} /\ runs[rule[w]] = 0
      /\ \A v \in Thread : v # w => rule[v] # rule[w]
  BY DEF Execute, ClaimOK, Claims, OneOwner
<1>2. (TypeOK /\ MutexOK)'
  BY <1>1 DEF Execute, MutexOK, monitor
<1> PICK x : x = rule[w]
  OBVIOUS
<1>3. /\ x \in Rule /\ x \notin Unclaimed /\ NotDone(x) = {} /\ runs[x] = 0
      /\ rule[w] = x /\ \A v \in Thread : v # w => rule[v] # x
  BY <1>1
<1>4. /\ deps' = deps /\ state' = state /\ rule' = rule /\ all_vertex_dfs' = all_vertex_dfs
      /\ pc' = [pc EXCEPT ![w] = "settle"] /\ runs' = [runs EXCEPT ![x] = @ + 1]
      /\ \E s \in {1, -1} : outcome' = [outcome EXCEPT ![w] = s]
  BY <1>3 DEF Execute
<1>5. /\ DOMAIN pc = Thread /\ DOMAIN outcome = Thread /\ DOMAIN runs = Rule
      /\ \A v \in Thread : Claims(v) /\ (rule[v] # NoRule => rule[v] \in Rule)
  BY DEF ClaimOK
<1>6. /\ pc[w] = "execute" /\ pc'[w] = "settle" /\ outcome'[w] \in {1, -1}
      /\ runs'[x] = 1 /\ \A r \in Rule : r # x => runs'[r] = runs[r]
      /\ \A v \in Thread : v # w => pc'[v] = pc[v] /\ outcome'[v] = outcome[v]
  BY <1>3, <1>4, <1>5 DEF Execute
<1>7. ClaimOK'
  <2>1. Claims(w)'
    BY ONLY <1>3, <1>4, <1>5, <1>6 DEF Claims, NotDone
  <2>2. ASSUME NEW v \in Thread, v # w  PROVE Claims(v)'
    <3>1. rule[v] # NoRule => runs'[rule[v]] = runs[rule[v]]
      BY ONLY <1>3, <1>5, <1>6, <2>2
    <3>. QED
      BY ONLY <1>4, <1>5, <1>6, <2>2, <3>1 DEF Claims, NotDone
  <2>. QED
    BY <2>1, <2>2 DEF ClaimOK
<1>8. OneOwner'
  <2>1. \A r \in Unclaimed : r # x /\ r \in Rule
    BY <1>3 DEF Unclaimed
  <2>2. Unclaimed' = Unclaimed
    BY <1>4 DEF Unclaimed
  <2>. QED
    BY <1>4, <1>6, <2>1, <2>2 DEF OneOwner
<1>9. (NoRepeats(all_vertex_dfs) /\ DoneOK)'
  BY <1>4 DEF NoRepeats, DoneOK, NotDone
<1>10. DependenciesFirst'
  <2>1. DependenciesFirst
    OBVIOUS
  <2>. QED
    BY ONLY <1>3, <1>4, <1>6, <2>1 DEF DependenciesFirst, NotDone
<1> QED
  BY <1>2, <1>7, <1>8, <1>9, <1>10

\* Settling a rule only ever takes away from what is not done.
LEMMA SettleStep == ASSUME IInv, NEW w \in Thread, SetState(w) PROVE IInv'
<1> USE DEF IInv, TypeOK, MonitorTypeOK, PC, Goto
<1>1. /\ rule[w] \in Rule /\ rule[w] \notin Unclaimed /\ state[rule[w]] = 0
      /\ outcome[w] # 0 /\ (outcome[w] = 1 => NotDone(rule[w]) = {})
      /\ \A v \in Thread : v # w => rule[v] # rule[w]
  <2>1. pc[w] = "settle" /\ rule[w] # NoRule
    BY DEF SetState, ClaimOK, Claims
  <2>2. outcome[w] # 0 /\ (outcome[w] = 1 => NotDone(rule[w]) = {})
    <3>1. /\ outcome[w] # 0
          /\ NotDone(rule[w]) = {} \/ outcome[w] = -1
      BY <2>1, Zenon DEF ClaimOK, Claims
    <3>2. 1 # -1
      OBVIOUS
    <3> QED
      BY <3>1, <3>2, Zenon
  <2>3. /\ rule[w] \in Rule /\ rule[w] \notin Unclaimed /\ state[rule[w]] = 0
        /\ \A v \in Thread : v # w => rule[v] # rule[w]
    BY <2>1 DEF OneOwner
  <2> QED
    BY <2>2, <2>3
<1>2. /\ state' = [state EXCEPT ![rule[w]] = outcome[w]]
      /\ rule' = [rule EXCEPT ![w] = NoRule] /\ asleep' = {}
      /\ UNCHANGED <<deps, mtime, owner, all_vertex_dfs, outcome, runs>>
  BY DEF SetState, Broadcast, files
<1>3. \A r \in Rule : NotDone(r)' \subseteq NotDone(r)
  BY <1>1, <1>2 DEF NotDone
<1>4. (TypeOK /\ MutexOK)'
  BY <1>1, <1>2 DEF SetState, MutexOK
<1>5. ClaimOK'
  BY <1>1, <1>2, <1>3 DEF SetState, ClaimOK, Claims
<1>6. (OneOwner /\ NoRepeats(all_vertex_dfs))'
  <2>1. \A v \in Thread : rule'[v] # NoRule => v # w /\ rule'[v] = rule[v]
    BY <1>2
  <2>2. \A r \in Unclaimed : r # rule[w]
    BY <1>1
  <2>3. Unclaimed' = Unclaimed /\ NoRepeats(all_vertex_dfs)'
    BY <1>2 DEF Unclaimed, NoRepeats
  <2>4. \A r \in Rule : r # rule[w] => state'[r] = state[r]
    BY <1>2
  <2>5. \A r \in Unclaimed : state'[r] = 0 /\ runs'[r] = 0
    <3>1. Unclaimed \subseteq Rule
      BY DEF Unclaimed
    <3> QED
      BY <1>2, <2>2, <2>4, <3>1 DEF OneOwner
  <2>6. \A v \in Thread : rule'[v] # NoRule =>
          /\ rule'[v] \notin Unclaimed'
          /\ state'[rule'[v]] = 0
          /\ \A u \in Thread : rule'[u] = rule'[v] => u = v
    BY <1>1, <1>2, <2>1, <2>3, <2>4 DEF OneOwner
  <2> QED
    BY <2>3, <2>5, <2>6 DEF OneOwner
<1>7. (DoneOK /\ DependenciesFirst)'
  BY <1>1, <1>2, <1>3 DEF DoneOK, DependenciesFirst
<1> QED
  BY <1>4, <1>5, <1>6, <1>7

\* The invariant is inductive.
LEMMA Inductive == RunSpec => []IInv
<1>1. ASSUME IInv, [WorkersNext]_vars PROVE IInv'
  <2>1. CASE UNCHANGED vars
    BY <1>1, <2>1 DEF vars, IInv, TypeOK, MonitorTypeOK, MutexOK, ClaimOK, Claims, DoneOK,
                      NotDone, NoRepeats, OneOwner, Unclaimed, DependenciesFirst,
                      files, monitor, claim
  <2>2. ASSUME NEW w \in Thread, Run(w) \/ Wake(w) PROVE IInv'
    BY <1>1, <2>2, QuietStep, ClaimStep, CheckStep, ExecuteStep, SettleStep DEF Run
  <2> QED
    BY <1>1, <2>1, <2>2 DEF WorkersNext
<1> QED
  BY InitOK, <1>1, PTL DEF RunSpec

\* Every variable keeps its type.
THEOREM TypeCorrect == RunSpec => []TypeOK
<1>1. IInv => TypeOK
  BY DEF IInv
<1> QED
  BY Inductive, <1>1, PTL

\* No rule's commands run twice, or before all its dependencies are done.
THEOREM BuildsInOrder == RunSpec => []DependenciesFirst
<1>1. IInv => DependenciesFirst
  BY DEF IInv
<1> QED
  BY Inductive, <1>1, PTL

\* No rule is claimed twice or lost.
THEOREM ClaimsAreExclusive == RunSpec => []OneOwner
<1>1. IInv => OneOwner
  BY DEF IInv
<1> QED
  BY Inductive, <1>1, PTL

\* What depends on a failure is neither executed nor done.
THEOREM FailuresSpread == RunSpec => []FailureSpreads
<1>1. ASSUME IInv, NEW r \in Rule, NEW i \in DOMAIN deps[r],
             state[deps[r][i]] = -1
      PROVE  state[r] # 1 /\ runs[r] = 0
  <2>1. NotDone(r) # {}
    BY <1>1 DEF NotDone
  <2>2. state[r] # 1 /\ ~(runs[r] > 0) /\ runs[r] \in Nat
    BY <1>1, <2>1 DEF IInv, TypeOK, DoneOK, DependenciesFirst
  <2> QED
    BY <2>2
<1>2. IInv => FailureSpreads
  BY <1>1 DEF FailureSpreads
<1> QED
  BY Inductive, <1>2, PTL

\* A settled rule is never settled again.
THEOREM SettledIsFinal == RunSpec => Final
<1>1. ASSUME IInv, NEW w \in Thread, SetState(w), NEW r \in Rule, state[r] # 0
      PROVE  state'[r] = state[r]
  <2>1. rule[w] # NoRule
    BY <1>1 DEF IInv, ClaimOK, Claims, SetState, Goto
  <2>2. rule[w] # r
    BY <1>1, <2>1 DEF IInv, OneOwner
  <2> QED
    BY <1>1, <2>2 DEF SetState, IInv, TypeOK
<1>2. ASSUME NEW w \in Thread, Run(w) \/ Wake(w), ~SetState(w)
      PROVE  UNCHANGED state
  BY <1>2 DEF Run, Wake, LockTargets, Finish, Claim, NothingReady, Sleep, Resume,
              CheckFiles, Release, Execute
<1>3. IInv /\ [WorkersNext]_vars
         => [\A r \in Rule : state[r] # 0 => state'[r] = state[r]]_vars
  BY <1>1, <1>2 DEF WorkersNext
<1> QED
  BY Inductive, <1>3, PTL DEF RunSpec, Final
=============================================================================
