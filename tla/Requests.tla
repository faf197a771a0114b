------------------------------- MODULE Requests -------------------------------
(***************************************************************************)
(* A module of plugins/modules at work: one HTTP request after the other   *)
(* to a server that other clients change in between.  A request may be     *)
(* refused, and its answer may be lost, in which case the server may have  *)
(* carried it out.                                                         *)
(***************************************************************************)
EXTENDS GrafanaObjects

CONSTANTS
    MaxMoves,   \* bound on what other clients do
    MaxFaults   \* bound on requests that are refused or lose their answer

ASSUME BoundsAssumption == MaxMoves \in Nat /\ MaxFaults \in Nat

VARIABLES
    task,       \* what the play asks for, the same in every run of it
    store,      \* the objects of the server
    newest,     \* the newest version of the plugin
    pc,         \* the request the module sends next, or how it ended
    got,        \* the id it found with an earlier one
    moves, faults,
    (* What the properties observe, of the current run.                    *)
    named,      \* the ids of the objects that bore the task's name at some moment
    held,       \* what the task asks was done, at some moment
    lacked,     \* the server was not as the task asks, at some moment
    wrote,      \* the server accepted a change
    calm        \* no other client and no fault since the run began

vars == <<task, store, newest, pc, got, moves, faults, named, held, lacked, wrote, calm>>

Well == {"changed", "unchanged"}
Over == Well \union {"failed"}

At(module, state, step) == task.module = module /\ task.state = state /\ pc = step

-----------------------------------------------------------------------------
(* Requests *)

\* The request is refused, or its answer is lost.  The server may have
\* turned the store into new.
Fault(new) ==
    /\ faults < MaxFaults
    /\ faults' = faults + 1
    /\ calm' = FALSE
    /\ pc' = "failed"
    /\ \E applied \in BOOLEAN :
          /\ store' = IF applied THEN new ELSE store
          /\ wrote' = (wrote \/ applied)

\* A request that changes the store is carried out; the module goes on to
\* step s, knowing i.
Writes(i, new, s) ==
    /\ got' = i
    /\ \/ /\ store' = new
          /\ wrote' = TRUE
          /\ pc' = s
          /\ UNCHANGED <<faults, calm>>
       \/ Fault(new)

Write(new, s) == Writes(got, new, s)

\* A request that changes nothing is answered; a refusal fails the module.
Learns(i, s) ==
    /\ got' = i
    /\ UNCHANGED <<store, wrote>>
    /\ \/ pc' = s /\ UNCHANGED <<faults, calm>>
       \/ pc' = "failed" /\ calm' = FALSE /\ faults < MaxFaults /\ faults' = faults + 1

Read(s) == Learns(got, s)

\* The request is refused where the module does not fail for it.
Refused(s) ==
    /\ faults < MaxFaults
    /\ faults' = faults + 1
    /\ calm' = FALSE
    /\ pc' = s
    /\ UNCHANGED <<store, got, wrote>>

\* Without a request.
Ends(s) == pc' = s /\ UNCHANGED <<store, got, wrote, faults, calm>>

\* The object the task describes, as the server may create it.
Creatable ==
    {o \in Objects(task.module) :
        /\ task.id \in {o.id, None}
        /\ o.name = task.name
        /\ o.tag = task.tag
        /\ o.value = Version(task, newest)
        /\ \A p \in store : ~Clash(task.module, o, p)}

\* o can take the place of the object with its id.
Fits(o) ==
    /\ \E p \in store : p.id = o.id
    /\ \A p \in store : p.id # o.id => ~Clash(task.module, o, p)

\* POST of a new object, which leads to step s or, when it is taken, to other.
Create(s, other) ==
    \/ \E o \in Creatable : Write(Put(store, o), s)
    \/ Creatable = {} /\ Read(other)

\* PUT of o; an object that is gone, or a name that is taken, is refused.
Update(o, s) ==
    \/ Fits(o) /\ Write(Put(store, o), s)
    \/ ~Fits(o) /\ Read("failed")

\* DELETE of the object with id i; one that is gone is refused.
Delete(i) ==
    \/ (\E o \in store : o.id = i) /\ Write(Without(store, i), "changed")
    \/ (\A o \in store : o.id # i) /\ Read("failed")

\* DELETE without a look; nothing named so is refused.
DeleteNamed ==
    \/ \E o \in Bearers(task, store) : Delete(o.id)
    \/ Bearers(task, store) = {} /\ Read("failed")

-----------------------------------------------------------------------------
(* Runs of the play, and other clients *)

Init ==
    /\ task \in Tasks
    /\ \E o, p \in Objects(task.module) : store \in {{}, {o}, {o, p}}
    /\ Legal(task.module, store)
    /\ newest \in Values
    /\ pc = "idle" /\ got = None
    /\ moves = 0 /\ faults = 0
    /\ named = {} /\ held = FALSE /\ lacked = FALSE /\ wrote = FALSE
    /\ calm = FALSE

Begin ==
    /\ pc \in Over \union {"idle"}
    /\ pc' = "begin"
    /\ got' = None
    /\ wrote' = FALSE
    /\ calm' = TRUE
    /\ named' = BearerIds(task, store)
    /\ held' = Done(task, store, newest, named')
    /\ lacked' = ~Met(task, store, newest)
    /\ UNCHANGED <<task, store, newest, moves, faults>>

\* What every later step adds to the record of the run.
Observe ==
    /\ named' = named \union BearerIds(task, store')
    /\ held' = (held \/ Done(task, store', newest', named'))
    /\ lacked' = (lacked \/ ~Met(task, store', newest'))

\* Another client creates, changes or deletes an object, or a plugin is released.
Others ==
    /\ moves < MaxMoves
    /\ moves' = moves + 1
    /\ \/ /\ \E o \in Objects(task.module) : store' = Put(store, o)
          /\ newest' = newest
       \/ /\ \E o \in store : store' = store \ {o}
          /\ newest' = newest
       \/ store' = store /\ newest' \in Values
    /\ Legal(task.module, store')
    /\ calm' = FALSE
    /\ Observe
    /\ UNCHANGED <<task, pc, got, wrote, faults>>
=============================================================================
