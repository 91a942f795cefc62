---------------------------- MODULE CommandRecord ----------------------------
(***************************************************************************)
(* What background Bash promises about one shell command, whatever crashes, *)
(* reloads or disk failures happen around it: the command runs at most once, *)
(* never before its intent is durable, and the first settled result on disk  *)
(* is the last word about it and agrees with what the process did.           *)
(*                                                                         *)
(* docs/architecture/bash-execution-recovery.md calls this "plan A": records *)
(* and notifications are recovered, executions are not.                      *)
(***************************************************************************)
CONSTANT Jobs

VARIABLES fact,     \* fact[j]: what the disk says of the command
          fate      \* fate[j]: what really happened to its shell

Results == {"completed", "failed", "cancelled", "timed_out", "unknown"}
Facts   == {"absent", "intent"} \cup Results
Fates   == {"never", "live", "zero", "nonzero", "signal"}

recordVars == <<fact, fate>>

Init == /\ fact = [j \in Jobs |-> "absent"]
        /\ fate = [j \in Jobs |-> "never"]

(* A result is truthful when the shell's own end justifies it; "unknown"     *)
(* claims nothing.                                                           *)
Truthful(r, f) == \/ r = "unknown"
                  \/ r = "completed" /\ f = "zero"
                  \/ r = "failed" /\ f \in {"nonzero", "never"}
                  \/ r \in {"cancelled", "timed_out"} /\ f \in {"signal", "never"}

Intend(j) == /\ fact[j] = "absent"
             /\ fact' = [fact EXCEPT ![j] = "intent"]
             /\ UNCHANGED fate

Run(j) == /\ fact[j] = "intent"
          /\ fate[j] = "never"
          /\ fate' = [fate EXCEPT ![j] = "live"]
          /\ UNCHANGED fact

End(j) == /\ fate[j] = "live"
          /\ \E f \in {"zero", "nonzero", "signal"} :
                fate' = [fate EXCEPT ![j] = f]
          /\ UNCHANGED fact

Settle(j) == /\ fact[j] = "intent"
             /\ \E r \in Results : /\ Truthful(r, fate[j])
                                   /\ fact' = [fact EXCEPT ![j] = r]
             /\ UNCHANGED fate

Next == \E j \in Jobs : Intend(j) \/ Run(j) \/ End(j) \/ Settle(j)

Spec == Init /\ [][Next]_recordVars
=============================================================================
