----------------------------- MODULE CloudModules -----------------------------
(***************************************************************************)
(* The modules that talk to Grafana Cloud: cloud_stack, cloud_plugin and   *)
(* cloud_api_key.                                                          *)
(***************************************************************************)
EXTENDS Requests

-----------------------------------------------------------------------------
(* cloud_stack *)

\* The details are for the report.  Where they cannot be read the report is
\* the shorter answer of an earlier request, and main() fails unless that
\* has every key it names.
StackDetails(s) ==
    \/ (\E o \in store : o.id = got) /\ Read(s)
    \/ \E r \in {s, "failed"} :
          Refused(r) \/ ((\A o \in store : o.id # got) /\ Read(r))

OwnStack(o) == o.name = task.name /\ o.tag = task.tag

\* The stacks are listed for one organisation: a slug that another one took
\* is not found.
PresentStack ==
    \/ /\ At("stack", "present", "begin")
       /\ \/ \E o \in Creatable : Writes(o.id, Put(store, o), "made")
          \/ Creatable = {} /\ Read("list")
    \/ /\ At("stack", "present", "list")
       /\ \/ \E o \in store :
                /\ OwnStack(o)
                /\ Learns(o.id, IF o.value = task.value THEN "same" ELSE "update")
          \/ (\A o \in store : ~OwnStack(o)) /\ Read("failed")
    \/ /\ At("stack", "present", "update")
       /\ \/ \E o \in store : o.id = got /\ Update([o EXCEPT !.value = task.value], "made")
          \/ (\A o \in store : o.id # got) /\ Read("failed")
    \/ At("stack", "present", "made") /\ StackDetails("changed")
    \/ At("stack", "present", "same") /\ StackDetails("unchanged")

\* Without the details, got is None.
AbsentStack ==
    \/ /\ At("stack", "absent", "begin")
       /\ \/ \E o \in store : OwnStack(o) /\ Learns(o.id, "delete")
          \/ (\A o \in store : ~OwnStack(o)) /\ Read("delete")
          \/ Refused("delete")
    \/ /\ At("stack", "absent", "delete")
       /\ \/ \E o \in store :
                /\ OwnStack(o) /\ o.value # Protected
                /\ \E s \in {"changed"} \union (IF got = None THEN {"failed"} ELSE {}) :
                      Write(store \ {o}, s)
          \/ (\A o \in store : OwnStack(o) => o.value = Protected) /\ Read("failed")

-----------------------------------------------------------------------------
(* cloud_plugin *)

\* For 'latest' the installed version is compared with the newest one, which
\* the answer may leave out.
InstalledIsWanted ==
    \E o \in Bearers(task, store) : o.value = Version(task, newest)

PresentPlugin ==
    \/ At("plugin", "present", "begin") /\ Create("changed", "get")
    \/ /\ At("plugin", "present", "get")
       /\ \/ InstalledIsWanted /\ Read("unchanged")
          \/ /\ Bearers(task, store) # {}
             /\ ~InstalledIsWanted \/ task.value = Latest
             /\ Read("update")
          \/ Bearers(task, store) = {} /\ Read("failed")
    \/ /\ At("plugin", "present", "update")
       /\ Update([id |-> task.id, name |-> None, tag |-> None,
                  value |-> Version(task, newest)], "changed")

AbsentPlugin == At("plugin", "absent", "begin") /\ DeleteNamed

-----------------------------------------------------------------------------
(* cloud_api_key *)

PresentKey ==
    /\ At("key", "present", "begin")
    /\ Create("changed", IF task.strict THEN "failed" ELSE "unchanged")

AbsentKey == At("key", "absent", "begin") /\ DeleteNamed

CloudStep ==
    \/ PresentStack \/ AbsentStack
    \/ PresentPlugin \/ AbsentPlugin
    \/ PresentKey \/ AbsentKey
=============================================================================
