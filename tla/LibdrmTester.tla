----------------------------- MODULE LibdrmTester -----------------------------
(***************************************************************************)
(* deadlock_demolition/libdrm_tester.c: threads that run fixed scripts of  *)
(* drm_wait and drm_post calls, ignoring what the calls return, and a main *)
(* thread that joins them and then destroys the drms.                      *)
(***************************************************************************)
EXTENDS Libdrm, Sequences

CONSTANT Scripts    \* the functions [Thread -> Seq([call, drm])] to run

VARIABLE script     \* per thread: the calls it has still to make

testVars == <<vars, script>>

TestInit == Init /\ script \in Scripts

\* The next call of t's script, which has d as its argument.
Calls(t, call, d) == /\ script[t] # <<>>
                     /\ Head(script[t]) = [call |-> call, drm |-> d]

\* A call that returns at once moves the script on; a drm_wait that has to
\* lock its drm moves it on when it returns.
Advance(t) == script' = [script EXCEPT ![t] = Tail(@)]

MyFunc(t) ==
  \/ \E d \in Drm : /\ Calls(t, "wait", d)
                    /\ \/ (WaitOwn(t, d) \/ WaitRefused(t, d)) /\ Advance(t)
                       \/ Request(t, d) /\ UNCHANGED script
  \/ \E d \in Drm : /\ Calls(t, "post", d)
                    /\ Post(t, d) \/ PostRefused(t, d)
                    /\ Advance(t)
  \/ Acquire(t) /\ UNCHANGED script
  \/ Grant(t) /\ Advance(t)

Joined == \A t \in Thread : script[t] = <<>>

Main == Joined /\ (\E d \in Drm : Destroy(d)) /\ UNCHANGED script

TestNext == (\E t \in Thread : MyFunc(t)) \/ Main

TestSpec == /\ TestInit /\ [][TestNext]_testVars
            /\ \A t \in Thread : WF_testVars(MyFunc(t))
            /\ WF_testVars(Main)

\* Threads that post whatever they were given always come to an end, whatever
\* the order in which they ask: deadlocks are refused, not entered.
Finishes == <>(Joined /\ vertices \cap Drm = {})
=============================================================================
