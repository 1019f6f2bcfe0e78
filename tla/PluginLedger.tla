---------------------------- MODULE PluginLedger ----------------------------
(***************************************************************************)
(* What the orchestrator promises about saved plugin statuses, without      *)
(* stages, reboots or reports: under one instance id a plugin is executed   *)
(* again and again until an execution of it is saved as done, and never     *)
(* afterwards. An execution whose result was not saved (the plugin failed,  *)
(* the write failed, the machine crashed) counts for nothing.               *)
(***************************************************************************)
CONSTANTS Ids, Tasks, Nothing

VARIABLES
  ledger,   \* id -> task -> what is saved
  current   \* the <<id, task>> being executed, or Nothing

vars == <<ledger, current>>

Init ==
  /\ ledger = [i \in Ids |-> [t \in Tasks |-> "none"]]
  /\ current = Nothing

Begin(i, t) ==
  /\ current = Nothing
  /\ ledger[i][t] # "DONE"
  /\ current' = <<i, t>>
  /\ UNCHANGED ledger

Save(i, t, status) ==
  /\ current = <<i, t>>
  /\ ledger' = [ledger EXCEPT ![i][t] = status]
  /\ current' = Nothing

Forget ==
  /\ current # Nothing
  /\ current' = Nothing
  /\ UNCHANGED ledger

Next ==
  \/ \E i \in Ids, t \in Tasks :
       \/ Begin(i, t)
       \/ \E status \in {"DONE", "NEXT_BOOT"} : Save(i, t, status)
  \/ Forget

Spec == Init /\ [][Next]_vars

=============================================================================
