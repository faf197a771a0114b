------------------------------- MODULE Modules -------------------------------
(***************************************************************************)
(* A play that manages one object with one module of plugins/modules, run  *)
(* again and again, and what is asked of it.                               *)
(***************************************************************************)
EXTENDS GrafanaModules, CloudModules

Step ==
    /\ UNCHANGED <<task, newest, moves>>
    /\ GrafanaStep \/ CloudStep
    /\ Observe

Next == Begin \/ Step \/ Others

Spec == Init /\ [][Next]_vars

\* Ansible runs a module to its end, and a play is run again and again: it
\* says what should be there, and is the means to put it back.
FairSpec == Spec /\ WF_vars(Step) /\ WF_vars(Begin)

-----------------------------------------------------------------------------
(* Properties *)

TypeOK ==
    /\ task \in Tasks
    /\ store \subseteq Objects(task.module) /\ Legal(task.module, store)
    /\ newest \in Values
    /\ pc \in Over \union {"idle", "begin", "lookup", "byEmail", "write", "list", "get",
                           "update", "delete", "readBack", "made", "same"}
    /\ got \in Ids \union {None}
    /\ moves \in 0..MaxMoves /\ faults \in 0..MaxFaults
    /\ named \subseteq Ids \union {None}
    /\ {held, lacked, wrote, calm} \subseteq BOOLEAN

\* Modules and states that compare before they change something.  The notes
\* of user, datasource and dashboard say that these do not.
Compares ==
    \/ task.module \in {"folder", "contact", "policy", "stack", "key"}
    \/ task.module = "plugin" /\ task.value # Latest
    \/ task.state = "absent"
    \/ task.state = "update_password" /\ ~task.strict

\* A run changes the server only if, at some moment, the server was not as
\* the task asks: no refusal is taken for an answer that calls for a change.
NoNeedlessWrite == Compares /\ wrote => lacked

\* A run that nobody disturbed fails only for what the server holds.
FailsForAReason == pc = "failed" /\ calm => Blocked(task, store)

\* The play puts the object back: from some moment on the server is as the
\* task asks, or refuses it for what else it holds.
Converges == <>[](Met(task, store, newest) \/ Blocked(task, store))

\* The modules keep the promise that PlayTask states.
P == INSTANCE PlayTask WITH status <- IF pc \in Over \union {"idle"} THEN pc ELSE "running"

Promise == P!Spec
=============================================================================
