------------------------------- MODULE PlayTask -------------------------------
(***************************************************************************)
(* What the author of a play may rely on when a task of one of the modules *)
(* runs, however often, while other clients use the same server: stated    *)
(* without the requests the module makes.                                  *)
(***************************************************************************)
EXTENDS GrafanaObjects

VARIABLES
    task, store, newest,
    status,     \* "idle", "running", or how the last run ended
    named,      \* the ids of the objects that bore the task's name during the run
    held,       \* what the task asks was done, at some moment of the run
    wrote       \* the run changed the server

vars == <<task, store, newest, status, named, held, wrote>>

Endings == {"changed", "unchanged", "failed"}

Init ==
    /\ task \in Tasks
    /\ store \subseteq Objects(task.module)
    /\ newest \in Values
    /\ status = "idle"
    /\ named = {} /\ held = FALSE /\ wrote = FALSE

Start ==
    /\ status # "running"
    /\ status' = "running"
    /\ named' = BearerIds(task, store)
    /\ held' = Done(task, store, newest, named')
    /\ wrote' = FALSE
    /\ UNCHANGED <<task, store, newest>>

Observe ==
    /\ named' = named \union BearerIds(task, store')
    /\ held' = (held \/ Done(task, store', newest', named'))

\* Anybody else may do anything to the server.
Elsewhere ==
    /\ store' \subseteq Objects(task.module)
    /\ newest' \in Values
    /\ Observe
    /\ UNCHANGED <<task, status, wrote>>

\* The server accepts a change from the task: it is what the task asks, and
\* replaces or removes only objects that bore the task's name.
Change ==
    /\ wrote' = TRUE
    /\ store' \subseteq Objects(task.module)
    /\ \A o \in store \ store' : o.id \in named
    /\ Done(task, store', newest, named')

\* The task ends well only when what it asks was done at some moment of the
\* run, and says whether that was its own doing.
Report ==
    \/ status' \in {"running", "failed"}
    \/ status' = "changed" /\ held' /\ wrote'
    \/ status' = "unchanged" /\ held' /\ ~wrote'

Work ==
    /\ status = "running"
    /\ Change \/ UNCHANGED <<store, wrote>>
    /\ Observe
    /\ Report
    /\ UNCHANGED <<task, newest>>

Next == Start \/ Elsewhere \/ Work

Spec == Init /\ [][Next]_vars
=============================================================================
