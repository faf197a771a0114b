---------------------------- MODULE GrafanaModules ----------------------------
(***************************************************************************)
(* The modules that talk to a Grafana server: user, folder, datasource,    *)
(* dashboard, alert_contact_point and alert_notification_policy.  One      *)
(* action per function of a module; a disjunct is one request with what    *)
(* the function does with its answer.                                      *)
(***************************************************************************)
EXTENDS Requests

-----------------------------------------------------------------------------
(* user *)

\* A user without an account: what each state makes of it.
NoUser == [present         |-> "write",
           absent          |-> "unchanged",
           update_password |-> "failed"][task.state]

\* The lookup by login and, when no user has it, by email.
GetUser ==
    /\ task.module = "user"
    /\ \/ /\ pc = IF task.state = "update_password" THEN "lookup" ELSE "begin"
          /\ \/ \E u \in store : u.name = task.name /\ Learns(u.id, "write")
             \/ /\ \A u \in store : u.name # task.name
                /\ Read(IF task.tag = None THEN NoUser ELSE "byEmail")
       \/ /\ pc = "byEmail"
          /\ \/ \E u \in store : u.tag = task.tag /\ Learns(u.id, "write")
             \/ (\A u \in store : u.tag # task.tag) /\ Read(NoUser)

\* An existing user keeps the password, and the email when none is given.
Renamed(u) == [u EXCEPT !.name = task.name,
                        !.tag = IF task.tag = None THEN u.tag ELSE task.tag]

PresentUser ==
    /\ At("user", "present", "write")
    /\ \/ got = None /\ Create("changed", "failed")
       \/ \E u \in store : u.id = got /\ Update(Renamed(u), "changed")
       \/ got # None /\ (\A u \in store : u.id # got) /\ Read("failed")

AbsentUser == At("user", "absent", "write") /\ Delete(got)

SetUserPassword ==
    \/ \E u \in store : u.id = got /\ Update([u EXCEPT !.value = task.value], "changed")
    \/ (\A u \in store : u.id # got) /\ Read("failed")

\* Logging in with the new password tells whether it is set; being refused
\* means that it is not.
PasswordUser ==
    \/ /\ At("user", "update_password", "begin")
       /\ Read(IF ~task.strict /\ \E u \in store : u.name = task.name /\ u.value = task.value
               THEN "unchanged" ELSE "lookup")
    \/ At("user", "update_password", "write") /\ SetUserPassword

-----------------------------------------------------------------------------
(* folder *)

\* Without overwrite the server changes no folder that is there.
PresentFolder ==
    \/ At("folder", "present", "begin") /\ Create("changed", "list")
    \/ /\ At("folder", "present", "list")
       /\ Read(IF \E o \in Bearers(task, store) : o.name = task.name
               THEN "unchanged" ELSE "update")
    \/ /\ At("folder", "present", "update")
       /\ IF task.strict THEN Read("failed")
          ELSE Update([id |-> task.id, name |-> task.name, tag |-> None, value |-> None],
                      "changed")

\* Broken: deletes without a look.
AbsentFolderAtOnce == At("folder", "absent", "begin") /\ DeleteNamed

AbsentFolder ==
    \/ /\ At("folder", "absent", "begin")
       /\ Read(IF Bearers(task, store) # {} THEN "delete" ELSE "unchanged")
    \/ At("folder", "absent", "delete") /\ Delete(task.id)

-----------------------------------------------------------------------------
(* datasource *)

\* Broken: takes the uid of any data source of the listing.
PresentAnyDatasource ==
    \/ At("datasource", "present", "begin") /\ Create("changed", "list")
    \/ /\ At("datasource", "present", "list")
       /\ \E o \in store : Learns(o.id, "update")
    \/ /\ At("datasource", "present", "update")
       /\ Update([id |-> got, name |-> task.name, tag |-> None, value |-> task.value],
                 "changed")

\* Broken: takes the name for the uid.
PresentNamedDatasource ==
    \/ At("datasource", "present", "begin") /\ Create("changed", "list")
    \/ /\ At("datasource", "present", "list")
       /\ \E o \in Bearers(task, store) : Learns(o.name, "update")

\* The conflict may be about the uid alone, with no data source of the name.
PresentDatasource ==
    \/ At("datasource", "present", "begin") /\ Create("changed", "list")
    \/ /\ At("datasource", "present", "list")
       /\ \/ \E o \in Bearers(task, store) : Learns(o.id, "update")
          \/ Bearers(task, store) = {} /\ Read("failed")
    \/ /\ At("datasource", "present", "update")
       /\ Update([id |-> got, name |-> task.name, tag |-> None, value |-> task.value],
                 "changed")

AbsentDatasource == At("datasource", "absent", "begin") /\ DeleteNamed

-----------------------------------------------------------------------------
(* dashboard *)

\* One request creates the dashboard or, with overwrite, replaces it.
PresentDashboard ==
    /\ At("dashboard", "present", "begin")
    /\ IF Bearers(task, store) = {} THEN Create("changed", "failed")
       ELSE IF task.strict THEN Read("failed")
       ELSE \E o \in Bearers(task, store) :
                Update([o EXCEPT !.name = task.name, !.value = task.value], "changed")

AbsentDashboard ==
    /\ At("dashboard", "absent", "begin")
    /\ IF task.id = None THEN Ends("failed") ELSE DeleteNamed

-----------------------------------------------------------------------------
(* alert_contact_point *)

\* Broken: a conflict fails the task.
PresentNewContactPoint ==
    /\ At("contact", "present", "begin")
    /\ Create("changed", "failed")

\* A POST that fails with a 500 is taken for a conflict too.  An accepted
\* update stays one whatever the request that reads it back answers.
PresentContactPoint ==
    \/ /\ At("contact", "present", "begin")
       /\ Create("changed", "list") \/ Refused("list")
    \/ /\ At("contact", "present", "list")
       /\ Read(IF \E o \in Bearers(task, store) : o.value = task.value
               THEN "unchanged" ELSE "update")
    \/ /\ At("contact", "present", "update")
       /\ Update([id |-> task.id, name |-> None, tag |-> None, value |-> task.value],
                 "readBack")
    \/ /\ At("contact", "present", "readBack")
       /\ Read("changed") \/ Refused("changed")

AbsentContactPoint ==
    \/ /\ At("contact", "absent", "begin")
       /\ Read(IF Bearers(task, store) # {} THEN "delete" ELSE "unchanged")
    \/ At("contact", "absent", "delete") /\ Delete(task.id)

-----------------------------------------------------------------------------
(* alert_notification_policy *)

\* Broken: a refused lookup is taken for a server without a policy.
BlindPolicy ==
    \/ /\ At("policy", "present", "begin")
       /\ \/ Read(IF \E o \in store : o.value = task.value THEN "unchanged" ELSE "update")
          \/ Refused("update")
    \/ /\ At("policy", "present", "update")
       /\ Update([id |-> None, name |-> None, tag |-> task.tag, value |-> task.value],
                 "changed")

\* Five of the nine settings are compared; all are written.
NotificationPolicy ==
    \/ /\ At("policy", "present", "begin")
       /\ Read(IF \E o \in store : o.value = task.value THEN "unchanged" ELSE "update")
    \/ /\ At("policy", "present", "update")
       /\ Update([id |-> None, name |-> None, tag |-> task.tag, value |-> task.value],
                 "changed")

GrafanaStep ==
    \/ GetUser \/ PresentUser \/ AbsentUser \/ PasswordUser
    \/ PresentFolder \/ AbsentFolder
    \/ PresentDatasource \/ AbsentDatasource
    \/ PresentDashboard \/ AbsentDashboard
    \/ PresentContactPoint \/ AbsentContactPoint
    \/ NotificationPolicy
=============================================================================
