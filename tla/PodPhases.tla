------------------------------- MODULE PodPhases -------------------------------
(***************************************************************************)
(* What the directories and locks of PodLifecycle stand for: the life cycle *)
(* of a pod as a user sees it.  A pod is in one state; preparing and running *)
(* are bound to a live process and end in "failed" and "exited" when it dies *)
(* for whatever reason; a pod that ran is discarded through "marked" and one *)
(* that never ran through "garbage".                                         *)
(***************************************************************************)
CONSTANT Pods
VARIABLE state

\* The transitions a pod may make.
Transitions ==
    {<<"unborn", "embryo">>, <<"embryo", "preparing">>,
     <<"preparing", "failed">>, <<"preparing", "prepared">>, <<"preparing", "running">>,
     <<"prepared", "running">>, <<"prepared", "garbage">>, <<"failed", "garbage">>,
     <<"running", "exited">>, <<"exited", "marked">>,
     <<"marked", "deleted">>, <<"garbage", "deleted">>}

Init == state = [x \in Pods |-> "unborn"]

\* One pod at a time makes a transition.
Move(x, t) ==
    /\ state[x] = t[1]
    /\ state' = [state EXCEPT ![x] = t[2]]

Next == \E x \in Pods, t \in Transitions : Move(x, t)

Spec == Init /\ [][Next]_state
=============================================================================
