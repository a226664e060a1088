----------------------------- MODULE JobPromise -----------------------------
(***************************************************************************)
(* What a core promises the jobs submitted to it, with no interrupts,      *)
(* locks, credits or resets: one job at a time is under way; the hardware  *)
(* works on that job only, task by task; it ends once, and without an      *)
(* error only after its last task.                                         *)
(***************************************************************************)
EXTENDS Naturals

CONSTANTS Jobs, TaskCount
VARIABLES jst, result, ran

Init == /\ jst = [j \in Jobs |-> "new"]
        /\ result = [j \in Jobs |-> "none"]
        /\ ran = [j \in Jobs |-> 0]

Move(j, from, to) == jst[j] = from /\ jst' = [jst EXCEPT ![j] = to]

Submit(j) == Move(j, "new", "queued") /\ UNCHANGED <<result, ran>>

Begin(j) == /\ \A i \in Jobs : jst[i] # "pending"
            /\ Move(j, "queued", "pending") /\ UNCHANGED <<result, ran>>

Work(j) == /\ jst[j] = "pending" /\ ran[j] < TaskCount
           /\ ran' = [ran EXCEPT ![j] = @ + 1] /\ UNCHANGED <<jst, result>>

End(j, r) == /\ r = "ok" => ran[j] = TaskCount
             /\ Move(j, "pending", "done")
             /\ result' = [result EXCEPT ![j] = r] /\ UNCHANGED ran

Next == \E j \in Jobs : \/ Submit(j) \/ Begin(j) \/ Work(j)
                        \/ \E r \in {"ok", "error", "cancelled"} : End(j, r)

Spec == Init /\ [][Next]_<<jst, result, ran>>
=============================================================================
