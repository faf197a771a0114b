---------------------------- MODULE GrafanaObjects ----------------------------
(***************************************************************************)
(* What the nine modules in plugins/modules manage, what a task may ask of *)
(* them, and when a server is as a task asks.                              *)
(*                                                                         *)
(* A server holds a set of objects of the task's kind.  What the fields    *)
(* of an object stand for depends on the kind; None where there is nothing *)
(* to tell apart:                                                          *)
(*                                                                         *)
(*             id     name    tag                  value                   *)
(* user        id     login   email                password                *)
(* folder      uid    title                                                *)
(* datasource  uid    name                         settings                *)
(* dashboard   uid    title                        panels                  *)
(* contact     uid                                 settings                *)
(* policy                     settings that are    settings that are       *)
(*                            never compared       compared, None: no tree *)
(* stack       id     slug    organisation         delete protection       *)
(* plugin      name                                version                 *)
(* key         name                                                        *)
(***************************************************************************)
EXTENDS Naturals, FiniteSets

CONSTANTS
    Ids, Names, Tags, Values,
    None,
    Latest,     \* the version 'latest' of a plugin
    Protected,  \* the value of a stack that is protected from deletion
    Wish        \* the object the play describes

Named  == {"user", "folder", "datasource", "dashboard", "stack"}
Tagged == {"user", "policy", "stack"}
Plain  == {"folder", "key"}  \* kinds without a value

\* There is an id left for one more object, and the sentinels are no values.
ASSUME ObjectsAssumption ==
    /\ IsFiniteSet(Ids) /\ IsFiniteSet(Names) /\ Cardinality(Ids) > Cardinality(Names)
    /\ None \notin Ids \union Names \union Tags \union Values
    /\ Latest \notin Values \union {None}
ASSUME WishAssumption ==
    /\ Wish \in [id : Ids, name : Names, tag : Tags, value : Values]
    /\ Protected \in Values

Objects(kind) ==
    [id    : IF kind = "policy" THEN {None} ELSE Ids,
     name  : IF kind \in Named THEN Names ELSE {None},
     tag   : IF kind \in Tagged THEN Tags \union {None} ELSE {None},
     value : IF kind \in Plain THEN {None}
             ELSE IF kind = "policy" THEN Values \union {None} ELSE Values]

\* The server keeps ids, and the names of most kinds and emails, unique.
Clash(kind, o, p) ==
    \/ o.id = p.id
    \/ kind \in Named /\ o.name = p.name
    \/ kind = "user" /\ o.tag = p.tag /\ o.tag # None

Legal(kind, s) ==
    /\ \A o, p \in s : o # p => ~Clash(kind, o, p)
    /\ kind = "policy" => s # {}

Put(s, o) == {p \in s : p.id # o.id} \union {o}
Without(s, i) == {p \in s : p.id # i}

-----------------------------------------------------------------------------
(* Tasks, with the arguments that main() of each module takes *)

Task(modules, states, ids, names, tags, values, stricts) ==
    [module : modules, state : states, id : ids, name : names, tag : tags,
     value : values, strict : stricts]

\* strict: the user may not look up users, so that even the right password is refused.
UserTasks == Task({"user"}, {"present", "absent", "update_password"}, {None},
                  {Wish.name}, {Wish.tag, None}, {Wish.value}, BOOLEAN)
\* strict: overwrite is false.
FolderTasks == Task({"folder"}, {"present", "absent"}, {Wish.id},
                    {Wish.name}, {None}, {None}, BOOLEAN)
DatasourceTasks == Task({"datasource"}, {"present", "absent"}, {Wish.id, None},
                        {Wish.name}, {None}, {Wish.value}, {FALSE})
\* strict: the dashboard has no overwrite.
DashboardTasks == Task({"dashboard"}, {"present", "absent"}, {Wish.id, None},
                       {Wish.name}, {None}, {Wish.value}, BOOLEAN)
ContactTasks == Task({"contact"}, {"present", "absent"}, {Wish.id},
                     {None}, {None}, {Wish.value}, {FALSE})
PolicyTasks == Task({"policy"}, {"present"}, {None},
                    {None}, {Wish.tag}, {Wish.value}, {FALSE})
StackTasks == Task({"stack"}, {"present", "absent"}, {None},
                   {Wish.name}, {Wish.tag}, Values, {FALSE})
PluginTasks == Task({"plugin"}, {"present", "absent"}, {Wish.id},
                    {None}, {None}, {Wish.value, Latest}, {FALSE})
\* strict: fail_if_already_created.
KeyTasks == Task({"key"}, {"present", "absent"}, {Wish.id},
                 {None}, {None}, {None}, BOOLEAN)

Tasks == UNION {UserTasks, FolderTasks, DatasourceTasks, DashboardTasks, ContactTasks,
                PolicyTasks, StackTasks, PluginTasks, KeyTasks}

-----------------------------------------------------------------------------
(* What a task is about, and when the server is as it asks *)

\* The objects of s that task t names.
Bearers(t, s) ==
    {o \in s :
        \/ t.module \in {"user", "datasource", "stack"} /\ o.name = t.name
        \/ t.module = "user" /\ t.tag # None /\ o.tag = t.tag
        \/ t.module = "dashboard" /\ t.id = None /\ o.name = t.name
        \/ t.module \in {"folder", "dashboard", "contact", "policy", "plugin", "key"} /\ o.id = t.id}

BearerIds(t, s) == {o.id : o \in Bearers(t, s)}

\* The value a task asks for when the newest version of the plugin is n.
Version(t, n) == IF t.value = Latest THEN n ELSE t.value

\* o has what `present` of t's module sets.  A password is set on creation
\* only; of a policy only what the module compares is looked at.
Meets(t, o, n) ==
    /\ t.module \in {"user", "folder", "datasource"} => o.name = t.name
    /\ t.module = "user" /\ t.tag # None => o.tag = t.tag
    /\ t.module \notin Plain \union {"user"} => o.value = Version(t, n)

\* The server s is as task t asks, in the state it is in.
Met(t, s, n) ==
    \/ t.state = "absent" /\ Bearers(t, s) = {}
    \/ t.state = "update_password" /\ \E o \in s : o.name = t.name /\ o.value = t.value
    \/ t.state = "present" /\ \E o \in Bearers(t, s) : Meets(t, o, n)

\* What t asks has been done to one of the objects with the given ids, or
\* needs no doing: to remove a user is to leave none with the login.
Done(t, s, n, ids) ==
    \/ /\ t.state = "absent"
       /\ \/ \A o \in Bearers(t, s) : t.module = "user" /\ o.name # t.name
          \/ \E i \in ids : \A o \in s : o.id # i
    \/ t.state = "update_password" /\ \E o \in s : o.id \in ids /\ o.value = t.value
    \/ t.state = "present" /\ \E o \in s : o.id \in ids /\ Meets(t, o, n)

\* The server s refuses task t for what it holds, however often it is run:
\* a name or an email taken by somebody else, an object that may not be
\* overwritten or deleted, or, for the modules that delete without looking,
\* nothing to delete.
Blocked(t, s) ==
    \/ /\ t.module = "user" /\ t.state = "present"
       /\ \E o, p \in Bearers(t, s) : o # p
    \/ /\ t.state = "update_password"
       /\ \A o \in s : o.name # t.name
    \/ /\ t.module = "folder" /\ t.state = "present"
       /\ \E o \in s : IF o.id = t.id THEN t.strict /\ o.name # t.name ELSE o.name = t.name
    \/ /\ t.module = "datasource" /\ t.state = "present"
       /\ \E o \in s : o.id = t.id /\ o.name # t.name
       /\ \A o \in s : o.name # t.name
    \/ /\ t.module = "dashboard" /\ t.state = "present"
       /\ \/ t.strict /\ Bearers(t, s) # {}
          \/ t.id # None /\ \E o \in s : o.id # t.id /\ o.name = t.name
    \/ /\ t.module = "dashboard" /\ t.state = "absent" /\ t.id = None
    \/ /\ t.module = "stack"
       /\ \E o \in Bearers(t, s) :
             o.tag # t.tag \/ (t.state = "absent" /\ o.value = Protected)
    \/ /\ t.module = "key" /\ t.state = "present"
       /\ t.strict /\ Bearers(t, s) # {}
    \/ /\ t.module \in {"datasource", "dashboard", "stack", "plugin", "key"}
       /\ t.state = "absent" /\ Bearers(t, s) = {}
=============================================================================
