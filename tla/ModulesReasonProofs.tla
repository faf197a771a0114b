------------------------ MODULE ModulesReasonProofs ------------------------
(***************************************************************************)
(* A theorem about Modules: a run that nobody disturbed fails only for     *)
(* what the server holds.  The invariant is what such a run knows of the   *)
(* server from the answers it has had, none of which has grown old.        *)
(***************************************************************************)
EXTENDS ModulesProofs, FiniteSetTheorems

-----------------------------------------------------------------------------
(* What an undisturbed run knows, at step p with the id g in hand, of a    *)
(* server that holds s.                                                    *)

\* An object of s has the id, the name or the email that the task's needs.
Taken(s) ==
    \E o \in s :
        \/ o.id = task.id
        \/ task.module \in Named /\ o.name = task.name
        \/ task.module = "user" /\ task.tag # None /\ o.tag = task.tag

UserKnows(g, p, s) ==
    task.module = "user" =>
        /\ p = "lookup" => task.state = "update_password"
        /\ p = "byEmail" => task.tag # None /\ \A u \in s : u.name # task.name
        /\ p = "write" => IF g = None
                          THEN task.state = "present" /\ Bearers(task, s) = {}
                          ELSE \E u \in Bearers(task, s) : u.id = g

\* Of a folder, a contact point or a plugin, which are found by their ids.
OwnIdKnows(p, s) ==
    task.module \in {"folder", "contact", "plugin"} =>
        /\ p \in {"list", "get", "update"} => Taken(s)
        /\ p = "update" /\ task.module = "folder" =>
                \A o \in Bearers(task, s) : o.name # task.name
        /\ p = "delete" => Bearers(task, s) # {}

DatasourceKnows(g, p, s) ==
    task.module = "datasource" =>
        /\ p = "list" => Taken(s)
        /\ p = "update" => \E o \in Bearers(task, s) : o.id = g

StackKnows(g, p, s) ==
    task.module = "stack" =>
        /\ p = "list" => Taken(s)
        /\ p \in {"update", "made", "same"} => \E o \in s : o.id = g
        /\ p = "delete" /\ g = None => \A o \in s : ~OwnStack(o)

Knows(g, p, s) ==
    /\ p = "failed" => Blocked(task, s)
    /\ p \in {"begin", "lookup", "byEmail"} => g = None
    /\ UserKnows(g, p, s)
    /\ OwnIdKnows(p, s)
    /\ DatasourceKnows(g, p, s)
    /\ StackKnows(g, p, s)

CalmOK == calm => Knows(got, pc, store)

-----------------------------------------------------------------------------
(* When a creation is refused *)

\* The names of the objects of a kind that has names are all different, and
\* there are more ids than names.
LEMMA IdIsFree ==
    ASSUME NEW k \in Named, NEW s, Legal(k, s), s \subseteq Objects(k)
    PROVE  \E i \in Ids : \A o \in s : o.id # i
<1> SUFFICES ASSUME \A i \in Ids : \E o \in s : o.id = i
             PROVE  FALSE
  OBVIOUS
<1> DEFINE holder(i) == CHOOSE o \in s : o.id = i
           name == [i \in Ids |-> holder(i).name]
<1>1. ASSUME NEW i \in Ids PROVE holder(i) \in s /\ holder(i).id = i
  OBVIOUS
<1>2. \A o \in s : o.name \in Names BY DEF Objects
<1>3. name \in [Ids -> Names] BY <1>1, <1>2
<1>4. Cardinality(Names) < Cardinality(Ids) /\ IsFiniteSet(Ids) /\ IsFiniteSet(Names)
  BY ObjectsAssumption, FS_CardinalityType
<1>5. PICK i \in Ids, j \in Ids : i # j /\ name[i] = name[j]
  <2> HIDE DEF name
  <2>1. \E i, j \in Ids : i # j /\ name[i] = name[j]
    BY <1>3, <1>4, FS_PigeonHole
  <2> QED BY <2>1
<1>6. holder(i) # holder(j) /\ holder(i).name = holder(j).name BY <1>1, <1>5
<1>7. Clash(k, holder(i), holder(j)) BY <1>6 DEF Clash
<1> QED BY <1>1, <1>6, <1>7 DEF Legal

\* The server refuses to create the task's object only for another one.
LEMMA RefusedIsTaken ==
    ASSUME TypeOK, task.state = "present", task.module # "policy", Creatable = {}
    PROVE  Taken(store)
<1> SUFFICES ASSUME ~Taken(store) PROVE FALSE
  OBVIOUS
<1>1. TaskShape(task) /\ task \in Tasks BY TaskIsShaped DEF TypeOK
<1> DEFINE new(i) == [id |-> i, name |-> task.name, tag |-> task.tag,
                      value |-> Version(task, newest)]
<1>2. Version(task, newest) \in (IF task.module \in Plain THEN {None} ELSE Values)
  <2>1. CASE task.module \in Plain
    BY <1>1, <2>1, ObjectsAssumption DEF TaskShape, Version
  <2>2. CASE task.module \notin Plain
    BY <1>1, <2>2, VersionIsValue DEF TypeOK
  <2> QED BY <2>1, <2>2
<1>3. ASSUME NEW i \in Ids PROVE new(i) \in Objects(task.module)
  BY <1>1, <1>2 DEF TaskShape, Objects, Tagged
<1>4. ASSUME NEW i \in Ids, task.id \in {i, None}, \A o \in store : o.id # i
      PROVE  FALSE
  <2>1. \A o \in store : ~Clash(task.module, new(i), o) BY <1>4 DEF Taken, Clash
  <2>2. new(i) \in Creatable BY <1>3, <1>4, <2>1 DEF Creatable
  <2> QED BY <2>2
<1>5. CASE task.id \in Ids BY <1>4, <1>5 DEF Taken
<1>6. CASE task.id = None
  <2>1. task.module \in Named
    BY <1>1, <1>6, ObjectsAssumption DEF TaskShape, Named, Kinds
  <2>2. \E i \in Ids : \A o \in store : o.id # i BY <2>1, IdIsFree DEF TypeOK
  <2> QED BY <1>4, <1>6, <2>2
<1> QED BY <1>1, <1>5, <1>6 DEF TaskShape

-----------------------------------------------------------------------------
(* What a request leads to where it is not disturbed *)

LEMMA CalmLearns ==
    ASSUME NEW i, NEW st, Learns(i, st), calm'
    PROVE  calm /\ got' = i /\ pc' = st /\ store' = store
BY DEF Learns

LEMMA CalmRead ==
    ASSUME NEW st, Read(st), calm'
    PROVE  calm /\ got' = got /\ pc' = st /\ store' = store
BY CalmLearns DEF Read

LEMMA CalmWrites ==
    ASSUME NEW i, NEW new, NEW st, Writes(i, new, st), calm'
    PROVE  calm /\ got' = i /\ pc' = st /\ store' = new
BY DEF Writes, Fault

LEMMA CalmRefused == ASSUME NEW st, Refused(st) PROVE ~calm'
BY DEF Refused

LEMMA CalmCreate ==
    ASSUME NEW st, NEW other, Create(st, other), calm'
    PROVE  /\ calm /\ got' = got
           /\ \/ pc' = st
              \/ Creatable = {} /\ store' = store /\ pc' = other
<1>1. CASE \E o \in Creatable : Write(Put(store, o), st)
  BY <1>1, CalmWrites DEF Write
<1>2. CASE Creatable = {} /\ Read(other) BY <1>2, CalmRead
<1> QED BY <1>1, <1>2 DEF Create

LEMMA CalmUpdate ==
    ASSUME NEW o, NEW st, Update(o, st), calm'
    PROVE  /\ calm /\ got' = got
           /\ \/ Fits(o) /\ store' = Put(store, o) /\ pc' = st
              \/ ~Fits(o) /\ store' = store /\ pc' = "failed"
BY CalmRead, CalmWrites DEF Update, Write

LEMMA CalmDelete ==
    ASSUME NEW i, Delete(i), calm'
    PROVE  /\ calm
           /\ \/ pc' = "changed"
              \/ (\A o \in store : o.id # i) /\ store' = store /\ pc' = "failed"
BY CalmRead, CalmWrites DEF Delete, Write

LEMMA CalmDeleteNamed ==
    ASSUME DeleteNamed, calm'
    PROVE  /\ calm
           /\ \/ pc' = "changed"
              \/ Bearers(task, store) = {} /\ store' = store /\ pc' = "failed"
<1>1. ASSUME NEW o \in Bearers(task, store), Delete(o.id)
      PROVE  calm /\ pc' = "changed"
  BY <1>1, CalmDelete, BearersAreThere
<1>2. CASE Bearers(task, store) = {} /\ Read("failed") BY <1>2, CalmRead
<1> QED BY <1>1, <1>2 DEF DeleteNamed

\* A run that ended well need know nothing more.
LEMMA WellKnows ==
    ASSUME NEW g, NEW p \in Well, NEW s
    PROVE  Knows(g, p, s)
BY DEF Well, Knows, UserKnows, OwnIdKnows, DatasourceKnows, StackKnows

\* Nor one that failed for a reason.
LEMMA FailedKnows ==
    ASSUME NEW g, NEW s, Blocked(task, s)
    PROVE  Knows(g, "failed", s)
BY DEF Knows, UserKnows, OwnIdKnows, DatasourceKnows, StackKnows

-----------------------------------------------------------------------------
(* user *)

LEMMA GetUserKnows ==
    ASSUME TypeOK, CalmOK, GetUser, calm'
    PROVE  Knows(got', pc', store')
<1>1. /\ TaskShape(task) /\ task \in Tasks /\ task.module = "user"
      /\ \A u \in store : u.id # None
  BY TaskIsShaped, ObjectsAssumption DEF TypeOK, GetUser, Objects
<1>2. ASSUME NEW u \in Bearers(task, store), Learns(u.id, "write")
      PROVE  Knows(got', pc', store')
  <2>1. got' = u.id /\ pc' = "write" /\ store' = store BY <1>2, CalmLearns
  <2>2. got' # None BY <1>1, <2>1, BearersAreThere
  <2> QED BY <1>1, <2>1, <2>2
          DEF Knows, UserKnows, OwnIdKnows, DatasourceKnows, StackKnows
<1>3. ASSUME Read(NoUser), pc \in {"begin", "lookup", "byEmail"},
             \A u \in store : u.name # task.name,
             task.tag # None => \A u \in store : u.tag # task.tag
      PROVE  Knows(got', pc', store')
  <2>1. calm /\ got' = got /\ pc' = NoUser /\ store' = store BY <1>3, CalmRead
  <2>2. got' = None BY <1>3, <2>1 DEF CalmOK, Knows
  <2>3. Bearers(task, store) = {} BY <1>1, <1>3 DEF Bearers
  <2>4. CASE task.state = "present"
    BY <1>1, <2>1, <2>2, <2>3, <2>4
    DEF NoUser, Knows, UserKnows, OwnIdKnows, DatasourceKnows, StackKnows
  <2>5. CASE task.state = "absent" BY <2>1, <2>5, WellKnows DEF NoUser, Well
  <2>6. CASE task.state = "update_password"
    <3>1. Blocked(task, store) BY <1>3, <2>6 DEF Blocked
    <3> QED BY <2>1, <2>6, <3>1, FailedKnows DEF NoUser
  <2> QED BY <1>1, <2>4, <2>5, <2>6 DEF TaskShape
<1>4. ASSUME Read("byEmail"), pc \in {"begin", "lookup"}, task.tag # None,
             \A u \in store : u.name # task.name
      PROVE  Knows(got', pc', store')
  <2>1. calm /\ got' = got /\ pc' = "byEmail" /\ store' = store BY <1>4, CalmRead
  <2>2. got' = None BY <1>4, <2>1 DEF CalmOK, Knows
  <2> QED BY <1>1, <1>4, <2>1, <2>2
          DEF Knows, UserKnows, OwnIdKnows, DatasourceKnows, StackKnows
<1>5. CASE /\ pc \in {"begin", "lookup"}
           /\ \E u \in store : u.name = task.name /\ Learns(u.id, "write")
  BY <1>1, <1>2, <1>5, Bears
<1>6. CASE /\ pc \in {"begin", "lookup"} /\ \A u \in store : u.name # task.name
           /\ Read(IF task.tag = None THEN NoUser ELSE "byEmail")
  BY <1>3, <1>4, <1>6
<1>7. CASE pc = "byEmail" /\ task.tag # None /\ \A u \in store : u.name # task.name
  BY <1>1, <1>2, <1>3, <1>7, Bears DEF GetUser
<1>8. pc = "byEmail" => calm
  BY CalmLearns, CalmRead DEF GetUser
<1>9. pc = "byEmail" => task.tag # None /\ \A u \in store : u.name # task.name
  BY <1>1, <1>8 DEF CalmOK, Knows, UserKnows
<1> QED BY <1>5, <1>6, <1>7, <1>9 DEF GetUser

LEMMA PresentUserKnows ==
    ASSUME TypeOK, CalmOK, PresentUser, calm'
    PROVE  Knows(got', pc', store')
<1>1. /\ TaskShape(task) /\ task \in Tasks /\ pc = "write"
      /\ task.module = "user" /\ task.state = "present" /\ "changed" \in Well
  BY TaskIsShaped DEF TypeOK, PresentUser, At, Well
<1>2. CASE got = None /\ Create("changed", "failed")
  <2>1. CASE pc' = "changed" BY <1>1, <2>1, WellKnows
  <2>2. CASE calm /\ Creatable = {}
    <3>1. Bearers(task, store) = {} BY <1>1, <1>2, <2>2 DEF CalmOK, Knows, UserKnows
    <3>2. Taken(store) BY <1>1, <2>2, RefusedIsTaken
    <3>3. task.id = None /\ \A o \in store : o.id # None
      BY <1>1, ObjectsAssumption DEF TaskShape, TypeOK, Objects
    <3> QED BY <1>1, <3>1, <3>2, <3>3, Bears DEF Taken
  <2> QED BY <1>2, <2>1, <2>2, CalmCreate
<1>3. ASSUME NEW u \in store, u.id = got, Update(Renamed(u), "changed")
      PROVE  Knows(got', pc', store')
  <2>1. CASE pc' = "changed" BY <1>1, <2>1, WellKnows
  <2>2. CASE calm /\ ~Fits(Renamed(u)) /\ store' = store /\ pc' = "failed"
    <3>1. u \in Objects("user") /\ u.id # None
      BY <1>1, ObjectsAssumption DEF TypeOK, Objects
    <3>2. /\ Renamed(u).id = u.id /\ Renamed(u).name = task.name
          /\ Renamed(u).tag = IF task.tag = None THEN u.tag ELSE task.tag
      BY <3>1 DEF Renamed, Objects
    <3>3. PICK p \in store : p.id # u.id /\ Clash("user", Renamed(u), p)
      BY <1>1, <2>2, <3>2 DEF Fits
    <3>4. ~Clash("user", u, p) BY <1>1, <3>3 DEF TypeOK, Legal
    <3>5. p \in Bearers(task, store)
      BY <1>1, <3>2, <3>3, <3>4, Bears DEF Clash
    <3>6. PICK v \in Bearers(task, store) : v.id = got
      BY <1>1, <1>3, <2>2, <3>1 DEF CalmOK, Knows, UserKnows
    <3>7. v # p BY <1>3, <3>3, <3>6
    <3>8. Blocked(task, store) BY <1>1, <3>5, <3>6, <3>7 DEF Blocked
    <3> QED BY <2>2, <3>8, FailedKnows
  <2> QED BY <1>3, <2>1, <2>2, CalmUpdate
<1>4. CASE got # None /\ (\A u \in store : u.id # got) /\ Read("failed")
  <2>1. calm BY <1>4, CalmRead
  <2> QED BY <1>1, <1>4, <2>1, BearersAreThere DEF CalmOK, Knows, UserKnows
<1> QED BY <1>2, <1>3, <1>4 DEF PresentUser

\* Once the lookup has found a user, undisturbed, that user is there.
LEMMA FoundUserIsThere ==
    ASSUME CalmOK, calm, task.module = "user", task.state # "present", pc = "write"
    PROVE  \E u \in store : u.id = got
BY BearersAreThere DEF CalmOK, Knows, UserKnows

LEMMA AbsentUserKnows ==
    ASSUME TypeOK, CalmOK, AbsentUser, calm'
    PROVE  Knows(got', pc', store')
<1>1. Delete(got) /\ task.module = "user" /\ task.state = "absent" /\ pc = "write"
  BY DEF AbsentUser, At
<1>2. pc' = "changed" BY <1>1, CalmDelete, FoundUserIsThere
<1> QED BY <1>2, WellKnows DEF Well

LEMMA PasswordUserKnows ==
    ASSUME TypeOK, CalmOK, PasswordUser, calm'
    PROVE  Knows(got', pc', store')
<1>1. /\ TaskShape(task) /\ task.module = "user" /\ task.state = "update_password"
      /\ pc \in {"begin", "write"} /\ "changed" \in Well /\ "unchanged" \in Well
  BY TaskIsShaped DEF TypeOK, PasswordUser, At, Well
<1>2. CASE pc = "begin"
  <2>1. /\ calm /\ got' = got /\ store' = store /\ pc' \in {"unchanged", "lookup"}
    BY <1>2, CalmRead DEF PasswordUser, At
  <2>2. got' = None BY <1>2, <2>1 DEF CalmOK, Knows
  <2>3. CASE pc' = "lookup"
    BY <1>1, <2>1, <2>2, <2>3
    DEF Knows, UserKnows, OwnIdKnows, DatasourceKnows, StackKnows
  <2> QED BY <1>1, <2>1, <2>3, WellKnows
<1>3. CASE pc = "write"
  <2>1. SetUserPassword BY <1>3 DEF PasswordUser, At
  <2>2. ASSUME NEW u \in store, u.id = got, Update([u EXCEPT !.value = task.value], "changed")
        PROVE  pc' = "changed"
    <3> DEFINE o == [u EXCEPT !.value = task.value]
    <3>1. u \in Objects("user") BY <1>1 DEF TypeOK
    <3>2. o.id = u.id /\ o.name = u.name /\ o.tag = u.tag BY <3>1 DEF Objects
    <3>3. \A p \in store : p.id # o.id => ~Clash("user", u, p)
      BY <1>1, <3>2 DEF TypeOK, Legal
    <3>4. Fits(o) BY <1>1, <3>2, <3>3 DEF Fits, Clash
    <3> QED BY <2>2, <3>4, CalmUpdate
  <2>3. CASE (\A u \in store : u.id # got) /\ Read("failed")
    BY <1>1, <1>3, <2>3, CalmRead, FoundUserIsThere
  <2> QED BY <1>1, <2>1, <2>2, <2>3, WellKnows DEF SetUserPassword
<1> QED BY <1>1, <1>2, <1>3

-----------------------------------------------------------------------------
(* folder, alert_contact_point and cloud_plugin *)

\* To replace the object that bears the task's id is refused only where
\* another has the name it is to get.
LEMMA OwnFits ==
    ASSUME TypeOK, NEW o, ~Fits(o),
           task.module \in {"folder", "contact", "plugin", "policy", "datasource",
                            "dashboard", "stack"},
           \E p \in store : p.id = o.id
    PROVE  /\ task.module \in Named
           /\ \E p \in store : p.id # o.id /\ p.name = o.name
BY DEF Fits, Clash, Named

\* An object found by its id is the one the task names.
LEMMA OwnIdBears ==
    ASSUME task.module \in {"folder", "contact", "plugin"}
    PROVE  \A o : o \in Bearers(task, store) <=> o \in store /\ o.id = task.id
BY DEF Bearers

LEMMA CreateOwnIdKnows ==
    ASSUME TypeOK, CalmOK, task.module \in {"folder", "contact", "plugin"},
           task.state = "present", pc = "begin",
           NEW st \in {"list", "get"}, Create("changed", st), calm'
    PROVE  Knows(got', pc', store')
<1>1. CASE pc' = "changed" BY <1>1, WellKnows DEF Well
<1>2. CASE Creatable = {} /\ store' = store /\ pc' = st
  <2>1. Taken(store) BY <1>2, RefusedIsTaken
  <2> QED BY <1>2, <2>1 DEF Knows, UserKnows, OwnIdKnows, DatasourceKnows, StackKnows
<1> QED BY <1>1, <1>2, CalmCreate

LEMMA PresentFolderKnows ==
    ASSUME TypeOK, CalmOK, PresentFolder, calm'
    PROVE  Knows(got', pc', store')
<1>1. /\ TaskShape(task) /\ task.module = "folder" /\ task.state = "present"
      /\ "changed" \in Well /\ "unchanged" \in Well /\ "folder" \in Named
  BY TaskIsShaped DEF TypeOK, PresentFolder, At, Well, Named
<1>2. CASE pc = "begin"
  <2>1. Create("changed", "list") BY <1>2 DEF PresentFolder, At
  <2> QED BY <1>1, <1>2, <2>1, CreateOwnIdKnows
<1>3. CASE pc = "list"
  <2> DEFINE Titled == \E o \in Bearers(task, store) : o.name = task.name
  <2>1. Read(IF Titled THEN "unchanged" ELSE "update") BY <1>3 DEF PresentFolder, At
  <2>2. calm /\ store' = store /\ pc' = IF Titled THEN "unchanged" ELSE "update"
    BY <2>1, CalmRead
  <2>3. CASE Titled BY <1>1, <2>2, <2>3, WellKnows
  <2>4. CASE ~Titled
    <3>1. Taken(store) BY <1>1, <1>3, <2>2 DEF CalmOK, Knows, OwnIdKnows
    <3> QED BY <1>1, <2>2, <2>4, <3>1
            DEF Knows, UserKnows, OwnIdKnows, DatasourceKnows, StackKnows
  <2> QED BY <2>3, <2>4
<1>4. CASE pc = "update"
  <2> DEFINE o == [id |-> task.id, name |-> task.name, tag |-> None, value |-> None]
  <2>1. IF task.strict THEN Read("failed") ELSE Update(o, "changed")
    BY <1>4 DEF PresentFolder, At
  <2>2. calm /\ (pc' = "changed" \/ (store' = store /\ pc' = "failed"))
    BY <2>1, CalmRead, CalmUpdate
  <2>3. pc' = "failed" => task.strict \/ ~Fits(o) BY <2>1, CalmUpdate
  <2>4. Taken(store) /\ \A p \in Bearers(task, store) : p.name # task.name
    BY <1>1, <1>4, <2>2 DEF CalmOK, Knows, OwnIdKnows
  <2>5. \E p \in store : \/ p.id = task.id /\ p.name # task.name
                         \/ p.id # task.id /\ p.name = task.name
    BY <1>1, <2>4, OwnIdBears DEF Taken
  <2>6. pc' = "failed" => Blocked(task, store)
    <3>1. CASE task.strict BY <1>1, <2>5, <3>1 DEF Blocked
    <3>2. CASE ~Fits(o)
      <4>1. \E p \in store : p.id # task.id /\ p.name = task.name
        BY <1>1, <2>5, <3>2, OwnFits
      <4> QED BY <1>1, <4>1 DEF Blocked
    <3> QED BY <2>3, <3>1, <3>2
  <2> QED BY <1>1, <2>2, <2>6, WellKnows, FailedKnows
<1> QED BY <1>2, <1>3, <1>4 DEF PresentFolder, At

LEMMA LookAndDeleteKnows ==
    ASSUME TypeOK, CalmOK, task.module \in {"folder", "contact"}, task.state = "absent",
           \/ pc = "begin" /\ Read(IF Bearers(task, store) # {} THEN "delete" ELSE "unchanged")
           \/ pc = "delete" /\ Delete(task.id),
           calm'
    PROVE  Knows(got', pc', store')
<1>1. CASE Read(IF Bearers(task, store) # {} THEN "delete" ELSE "unchanged")
  <2>1. /\ store' = store
        /\ pc' = IF Bearers(task, store) # {} THEN "delete" ELSE "unchanged"
    BY <1>1, CalmRead
  <2>2. CASE Bearers(task, store) = {} BY <2>1, <2>2, WellKnows DEF Well
  <2>3. CASE Bearers(task, store) # {}
    BY <2>1, <2>3 DEF Knows, UserKnows, OwnIdKnows, DatasourceKnows, StackKnows
  <2> QED BY <2>2, <2>3
<1>2. CASE pc = "delete" /\ Delete(task.id)
  <2>1. calm BY <1>2, CalmDelete
  <2>2. Bearers(task, store) # {} BY <1>2, <2>1 DEF CalmOK, Knows, OwnIdKnows
  <2>3. \E o \in store : o.id = task.id BY <2>2, OwnIdBears
  <2>4. pc' = "changed" BY <1>2, <2>3, CalmDelete
  <2> QED BY <2>4, WellKnows DEF Well
<1> QED BY <1>1, <1>2

LEMMA AbsentFolderKnows ==
    ASSUME TypeOK, CalmOK, AbsentFolder, calm'
    PROVE  Knows(got', pc', store')
BY LookAndDeleteKnows DEF AbsentFolder, At

LEMMA AbsentContactPointKnows ==
    ASSUME TypeOK, CalmOK, AbsentContactPoint, calm'
    PROVE  Knows(got', pc', store')
BY LookAndDeleteKnows DEF AbsentContactPoint, At

\* To update an object that was found by its id, and has no name, goes through.
LEMMA UpdateOwnId ==
    ASSUME TypeOK, CalmOK, calm', task.module \in {"contact", "plugin"}, pc = "update",
           NEW o, o.id = task.id, NEW st, Update(o, st)
    PROVE  pc' = st
<1>1. calm BY CalmUpdate
<1>2. \E p \in store : p.id = task.id
  BY <1>1 DEF CalmOK, Knows, OwnIdKnows, Taken, Named
<1>3. Fits(o) BY <1>2, OwnFits DEF Named
<1> QED BY <1>3, CalmUpdate

LEMMA PresentContactPointKnows ==
    ASSUME TypeOK, CalmOK, PresentContactPoint, calm'
    PROVE  Knows(got', pc', store')
<1>1. /\ task.module = "contact" /\ task.state = "present"
      /\ "changed" \in Well /\ "unchanged" \in Well
  BY DEF PresentContactPoint, At, Well
<1>2. CASE pc = "begin"
  <2>1. Create("changed", "list") BY <1>2, CalmRefused DEF PresentContactPoint, At
  <2> QED BY <1>1, <1>2, <2>1, CreateOwnIdKnows
<1>3. CASE pc = "list"
  <2>1. calm /\ store' = store /\ pc' \in {"unchanged", "update"}
    BY <1>3, CalmRead DEF PresentContactPoint, At
  <2>2. Taken(store) BY <1>1, <1>3, <2>1 DEF CalmOK, Knows, OwnIdKnows
  <2>3. CASE pc' = "update"
    BY <1>1, <2>1, <2>2, <2>3
    DEF Knows, UserKnows, OwnIdKnows, DatasourceKnows, StackKnows
  <2> QED BY <1>1, <2>1, <2>3, WellKnows
<1>4. CASE pc = "update"
  <2> DEFINE o == [id |-> task.id, name |-> None, tag |-> None, value |-> task.value]
  <2>1. Update(o, "readBack") BY <1>4 DEF PresentContactPoint, At
  <2>2. pc' = "readBack" BY <1>1, <1>4, <2>1, UpdateOwnId
  <2> QED BY <1>1, <2>2 DEF Knows, UserKnows, OwnIdKnows, DatasourceKnows, StackKnows
<1>5. CASE pc = "readBack"
  <2>1. pc' = "changed" BY <1>5, CalmRead, CalmRefused DEF PresentContactPoint, At
  <2> QED BY <1>1, <2>1, WellKnows
<1> QED BY <1>2, <1>3, <1>4, <1>5 DEF PresentContactPoint, At

LEMMA PresentPluginKnows ==
    ASSUME TypeOK, CalmOK, PresentPlugin, calm'
    PROVE  Knows(got', pc', store')
<1>1. /\ task.module = "plugin" /\ task.state = "present"
      /\ "changed" \in Well /\ "unchanged" \in Well
  BY DEF PresentPlugin, At, Well
<1>2. CASE pc = "begin"
  <2>1. Create("changed", "get") BY <1>2 DEF PresentPlugin, At
  <2> QED BY <1>1, <1>2, <2>1, CreateOwnIdKnows
<1>3. CASE pc = "get"
  <2>1. calm BY <1>3, CalmRead DEF PresentPlugin, At
  <2>2. Taken(store) BY <1>1, <1>3, <2>1 DEF CalmOK, Knows, OwnIdKnows
  <2>3. Bearers(task, store) # {} BY <1>1, <2>2, OwnIdBears DEF Taken, Named
  <2>4. store' = store /\ pc' \in {"unchanged", "update"}
    BY <1>3, <2>3, CalmRead DEF PresentPlugin, At
  <2>5. CASE pc' = "update"
    BY <1>1, <2>2, <2>4, <2>5
    DEF Knows, UserKnows, OwnIdKnows, DatasourceKnows, StackKnows
  <2> QED BY <1>1, <2>4, <2>5, WellKnows
<1>4. CASE pc = "update"
  <2> DEFINE o == [id |-> task.id, name |-> None, tag |-> None,
                   value |-> Version(task, newest)]
  <2>1. Update(o, "changed") BY <1>4 DEF PresentPlugin, At
  <2>2. pc' = "changed" BY <1>1, <1>4, <2>1, UpdateOwnId
  <2> QED BY <1>1, <2>2, WellKnows
<1> QED BY <1>2, <1>3, <1>4 DEF PresentPlugin, At

-----------------------------------------------------------------------------
(* datasource and dashboard *)

\* What deletes without a look fails where there is nothing to delete.
LEMMA DeleteNamedKnows ==
    ASSUME DeleteNamed, calm', task.state = "absent",
           task.module \in {"datasource", "dashboard", "plugin", "key"}
    PROVE  Knows(got', pc', store')
<1>1. CASE pc' = "changed" BY <1>1, WellKnows DEF Well
<1>2. CASE Bearers(task, store) = {} /\ store' = store /\ pc' = "failed"
  <2>1. Blocked(task, store) BY <1>2 DEF Blocked
  <2> QED BY <1>2, <2>1, FailedKnows
<1> QED BY <1>1, <1>2, CalmDeleteNamed

LEMMA PresentDatasourceKnows ==
    ASSUME TypeOK, CalmOK, PresentDatasource, calm'
    PROVE  Knows(got', pc', store')
<1>1. /\ task \in Tasks /\ task.module = "datasource" /\ task.state = "present"
      /\ "changed" \in Well /\ "datasource" \in Named
  BY DEF TypeOK, PresentDatasource, At, Well, Named
<1>2. CASE pc = "begin"
  <2>1. Create("changed", "list") BY <1>2 DEF PresentDatasource, At
  <2>2. CASE pc' = "changed" BY <1>1, <2>2, WellKnows
  <2>3. CASE Creatable = {} /\ store' = store /\ pc' = "list"
    <3>1. Taken(store) BY <1>1, <2>3, RefusedIsTaken
    <3> QED BY <1>1, <2>3, <3>1
            DEF Knows, UserKnows, OwnIdKnows, DatasourceKnows, StackKnows
  <2> QED BY <2>1, <2>2, <2>3, CalmCreate
<1>3. CASE pc = "list"
  <2>1. ASSUME NEW o \in Bearers(task, store), Learns(o.id, "update")
        PROVE  Knows(got', pc', store')
    <3>1. got' = o.id /\ pc' = "update" /\ store' = store BY <2>1, CalmLearns
    <3> QED BY <1>1, <3>1 DEF Knows, UserKnows, OwnIdKnows, DatasourceKnows, StackKnows
  <2>2. CASE Bearers(task, store) = {} /\ Read("failed")
    <3>1. calm /\ store' = store /\ pc' = "failed" BY <2>2, CalmRead
    <3>2. \A o \in store : o.name # task.name BY <1>1, <2>2, Bears
    <3>3. Taken(store) BY <1>1, <1>3, <3>1 DEF CalmOK, Knows, DatasourceKnows
    <3>4. Blocked(task, store) BY <1>1, <3>2, <3>3 DEF Taken, Blocked
    <3> QED BY <3>1, <3>4, FailedKnows
  <2> QED BY <1>3, <2>1, <2>2 DEF PresentDatasource, At
<1>4. CASE pc = "update"
  <2> DEFINE o == [id |-> got, name |-> task.name, tag |-> None, value |-> task.value]
  <2>1. Update(o, "changed") BY <1>4 DEF PresentDatasource, At
  <2>2. PICK p \in Bearers(task, store) : p.id = got
    BY <1>1, <1>4, <2>1, CalmUpdate DEF CalmOK, Knows, DatasourceKnows
  <2>3. p \in store /\ p.name = task.name BY <1>1 DEF Bearers
  <2>4. \A q \in store : q.id # got => q.name # task.name
    BY <1>1, <2>2, <2>3 DEF TypeOK, Legal, Clash
  <2>5. Fits(o) BY <1>1, <2>2, <2>3, <2>4, OwnFits
  <2>6. pc' = "changed" BY <2>1, <2>5, CalmUpdate
  <2> QED BY <1>1, <2>6, WellKnows
<1> QED BY <1>2, <1>3, <1>4 DEF PresentDatasource, At

LEMMA AbsentDatasourceKnows ==
    ASSUME TypeOK, CalmOK, AbsentDatasource, calm'
    PROVE  Knows(got', pc', store')
BY DeleteNamedKnows DEF AbsentDatasource, At

LEMMA PresentDashboardKnows ==
    ASSUME TypeOK, CalmOK, PresentDashboard, calm'
    PROVE  Knows(got', pc', store')
<1>1. /\ TaskShape(task) /\ task \in Tasks
      /\ task.module = "dashboard" /\ task.state = "present"
      /\ "changed" \in Well /\ "dashboard" \in Named
  BY TaskIsShaped DEF TypeOK, PresentDashboard, At, Well, Named
<1>2. \A o : o \in Bearers(task, store) <=>
             o \in store /\ (o.id = task.id \/ (task.id = None /\ o.name = task.name))
  BY <1>1 DEF Bearers
<1>3. \A o \in store : o.id # None BY <1>1, ObjectsAssumption DEF TypeOK, Objects
<1>4. CASE Bearers(task, store) = {} /\ Create("changed", "failed")
  <2>1. CASE pc' = "changed" BY <1>1, <2>1, WellKnows
  <2>2. CASE Creatable = {} /\ store' = store /\ pc' = "failed"
    <3>1. Taken(store) BY <1>1, <2>2, RefusedIsTaken
    <3>2. \E o \in store : task.id # None /\ o.id # task.id /\ o.name = task.name
      BY <1>1, <1>2, <1>4, <3>1 DEF Taken
    <3>3. Blocked(task, store) BY <1>1, <3>2 DEF Blocked
    <3> QED BY <2>2, <3>3, FailedKnows
  <2> QED BY <1>4, <2>1, <2>2, CalmCreate
<1>5. CASE Bearers(task, store) # {} /\ task.strict /\ Read("failed")
  <2>1. Blocked(task, store) BY <1>1, <1>5 DEF Blocked
  <2> QED BY <1>5, <2>1, CalmRead, FailedKnows
<1>6. ASSUME NEW p \in Bearers(task, store),
             Update([p EXCEPT !.name = task.name, !.value = task.value], "changed")
      PROVE  Knows(got', pc', store')
  <2> DEFINE o == [p EXCEPT !.name = task.name, !.value = task.value]
  <2>1. p \in store /\ p \in Objects("dashboard") BY <1>1, <1>2 DEF TypeOK
  <2>2. o.id = p.id /\ o.name = task.name BY <2>1 DEF Objects
  <2>3. CASE pc' = "changed" BY <1>1, <2>3, WellKnows
  <2>4. CASE ~Fits(o) /\ store' = store /\ pc' = "failed"
    <3>1. PICK q \in store : q.id # p.id /\ q.name = task.name
      BY <1>1, <2>1, <2>2, <2>4, OwnFits
    <3>2. p.name # task.name BY <1>1, <2>1, <3>1 DEF TypeOK, Legal, Clash
    <3>3. p.id = task.id /\ task.id # None BY <1>2, <1>3, <2>1, <3>2
    <3>4. Blocked(task, store) BY <1>1, <3>1, <3>3 DEF Blocked
    <3> QED BY <2>4, <3>4, FailedKnows
  <2> QED BY <1>6, <2>3, <2>4, CalmUpdate
<1> QED BY <1>4, <1>5, <1>6 DEF PresentDashboard

LEMMA AbsentDashboardKnows ==
    ASSUME TypeOK, CalmOK, AbsentDashboard, calm'
    PROVE  Knows(got', pc', store')
<1>1. task.module = "dashboard" /\ task.state = "absent" BY DEF AbsentDashboard, At
<1>2. CASE task.id = None /\ Ends("failed")
  <2>1. Blocked(task, store) BY <1>1, <1>2 DEF Blocked
  <2> QED BY <1>2, <2>1, FailedKnows DEF Ends
<1> QED BY <1>1, <1>2, DeleteNamedKnows DEF AbsentDashboard

-----------------------------------------------------------------------------
(* alert_notification_policy *)

\* There always is a policy to be replaced.
LEMMA NotificationPolicyKnows ==
    ASSUME TypeOK, CalmOK, NotificationPolicy, calm'
    PROVE  Knows(got', pc', store')
<1>1. /\ task.module = "policy" /\ "changed" \in Well /\ "unchanged" \in Well
  BY DEF NotificationPolicy, At, Well
<1>2. CASE pc = "begin"
  <2>1. pc' \in {"unchanged", "update"} BY <1>2, CalmRead DEF NotificationPolicy, At
  <2>2. CASE pc' = "update"
    BY <1>1, <2>2 DEF Knows, UserKnows, OwnIdKnows, DatasourceKnows, StackKnows
  <2> QED BY <1>1, <2>1, <2>2, WellKnows
<1>3. CASE pc = "update"
  <2> DEFINE o == [id |-> None, name |-> None, tag |-> task.tag, value |-> task.value]
  <2>1. Update(o, "changed") BY <1>3 DEF NotificationPolicy, At
  <2>2. \E p \in store : p.id = None BY <1>1 DEF TypeOK, Legal, Objects
  <2>3. Fits(o) BY <1>1, <2>2, OwnFits DEF Named
  <2>4. pc' = "changed" BY <2>1, <2>3, CalmUpdate
  <2> QED BY <1>1, <2>4, WellKnows
<1> QED BY <1>2, <1>3 DEF NotificationPolicy, At

-----------------------------------------------------------------------------
(* cloud_stack and cloud_api_key *)

LEMMA StackDetailsKnows ==
    ASSUME CalmOK, task.module = "stack", pc \in {"made", "same"},
           NEW st \in Well, StackDetails(st), calm'
    PROVE  Knows(got', pc', store')
<1>1. calm BY CalmRead, CalmRefused DEF StackDetails
<1>2. \E o \in store : o.id = got BY <1>1 DEF CalmOK, Knows, StackKnows
<1>3. pc' = st BY <1>2, CalmRead, CalmRefused DEF StackDetails
<1> QED BY <1>3, WellKnows

LEMMA PresentStackKnows ==
    ASSUME TypeOK, CalmOK, PresentStack, calm'
    PROVE  Knows(got', pc', store')
<1>1. /\ TaskShape(task) /\ task \in Tasks
      /\ task.module = "stack" /\ task.state = "present"
      /\ "changed" \in Well /\ "unchanged" \in Well /\ "stack" \in Named
  BY TaskIsShaped DEF TypeOK, PresentStack, At, Well, Named
<1>2. \A o \in store : o \in Objects("stack") /\ o.id # None
  BY <1>1, ObjectsAssumption DEF TypeOK, Objects
<1>3. CASE pc = "begin"
  <2>1. ASSUME NEW o \in Creatable, Writes(o.id, Put(store, o), "made")
        PROVE  Knows(got', pc', store')
    <3>1. got' = o.id /\ pc' = "made" /\ store' = Put(store, o) BY <2>1, CalmWrites
    <3>2. \E p \in store' : p.id = got' BY <3>1 DEF Put
    <3> QED BY <1>1, <3>1, <3>2
            DEF Knows, UserKnows, OwnIdKnows, DatasourceKnows, StackKnows
  <2>2. CASE Creatable = {} /\ Read("list")
    <3>1. pc' = "list" /\ store' = store BY <2>2, CalmRead
    <3>2. Taken(store) BY <1>1, <2>2, RefusedIsTaken
    <3> QED BY <1>1, <3>1, <3>2
            DEF Knows, UserKnows, OwnIdKnows, DatasourceKnows, StackKnows
  <2> QED BY <1>3, <2>1, <2>2 DEF PresentStack, At
<1>4. CASE pc = "list"
  <2>1. ASSUME NEW o \in store, OwnStack(o),
               Learns(o.id, IF o.value = task.value THEN "same" ELSE "update")
        PROVE  Knows(got', pc', store')
    <3>1. got' = o.id /\ pc' \in {"same", "update"} /\ store' = store BY <2>1, CalmLearns
    <3> QED BY <1>1, <3>1 DEF Knows, UserKnows, OwnIdKnows, DatasourceKnows, StackKnows
  <2>2. CASE (\A o \in store : ~OwnStack(o)) /\ Read("failed")
    <3>1. calm /\ store' = store /\ pc' = "failed" BY <2>2, CalmRead
    <3>2. Taken(store) BY <1>1, <1>4, <3>1 DEF CalmOK, Knows, StackKnows
    <3>3. PICK o \in store : o.name = task.name BY <1>1, <1>2, <3>2 DEF Taken, TaskShape
    <3>4. o \in Bearers(task, store) /\ o.tag # task.tag
      BY <1>1, <2>2, <3>3, Bears DEF OwnStack
    <3>5. Blocked(task, store) BY <1>1, <3>4 DEF Blocked
    <3> QED BY <3>1, <3>5, FailedKnows
  <2> QED BY <1>4, <2>1, <2>2 DEF PresentStack, At
<1>5. CASE pc = "update"
  <2>1. \/ \E o \in store : o.id = got /\ Update([o EXCEPT !.value = task.value], "made")
        \/ (\A o \in store : o.id # got) /\ Read("failed")
    BY <1>5 DEF PresentStack, At
  <2>2. calm BY <2>1, CalmRead, CalmUpdate
  <2>3. \E o \in store : o.id = got BY <1>1, <1>5, <2>2 DEF CalmOK, Knows, StackKnows
  <2>4. PICK p \in store : p.id = got /\ Update([p EXCEPT !.value = task.value], "made")
    BY <2>1, <2>3
  <2> DEFINE o == [p EXCEPT !.value = task.value]
  <2>5. o.id = got /\ o.name = p.name BY <1>2, <2>4 DEF Objects
  <2>6. \A q \in store : q.id # got => q.name # p.name
    BY <1>1, <2>4 DEF TypeOK, Legal, Clash
  <2>7. Fits(o) BY <1>1, <2>3, <2>5, <2>6, OwnFits
  <2>8. pc' = "made" /\ got' = got /\ store' = Put(store, o) BY <2>4, <2>7, CalmUpdate
  <2>9. \E q \in store' : q.id = got' BY <2>5, <2>8 DEF Put
  <2> QED BY <1>1, <2>8, <2>9 DEF Knows, UserKnows, OwnIdKnows, DatasourceKnows, StackKnows
<1>6. CASE pc \in {"made", "same"}
  BY <1>1, <1>6, StackDetailsKnows DEF PresentStack, At
<1> QED BY <1>3, <1>4, <1>5, <1>6 DEF PresentStack, At

LEMMA AbsentStackKnows ==
    ASSUME TypeOK, CalmOK, AbsentStack, calm'
    PROVE  Knows(got', pc', store')
<1>1. /\ TaskShape(task) /\ task.module = "stack" /\ task.state = "absent" /\ "changed" \in Well
  BY TaskIsShaped DEF TypeOK, AbsentStack, At, Well
<1>2. \A o \in store : o.id # None BY <1>1, ObjectsAssumption DEF TypeOK, Objects
<1>3. CASE pc = "begin"
  <2>1. \/ \E o \in store : OwnStack(o) /\ Learns(o.id, "delete")
        \/ (\A o \in store : ~OwnStack(o)) /\ Read("delete")
    BY <1>3, CalmRefused DEF AbsentStack, At
  <2>2. /\ pc' = "delete" /\ store' = store
        /\ got' = None => \A o \in store : ~OwnStack(o)
    BY <1>2, <2>1, CalmLearns, CalmRead
  <2> QED BY <1>1, <2>2 DEF Knows, UserKnows, OwnIdKnows, DatasourceKnows, StackKnows
<1>4. CASE pc = "delete"
  <2>1. ASSUME NEW o \in store, OwnStack(o),
               NEW st \in {"changed"} \union (IF got = None THEN {"failed"} ELSE {}),
               Write(store \ {o}, st)
        PROVE  Knows(got', pc', store')
    <3>1. calm /\ pc' = st BY <2>1, CalmWrites DEF Write
    <3>2. got # None BY <1>1, <1>4, <2>1, <3>1 DEF CalmOK, Knows, StackKnows
    <3> QED BY <1>1, <3>1, <3>2, WellKnows
  <2>2. CASE (\A o \in store : OwnStack(o) => o.value = Protected) /\ Read("failed")
    <3>1. store' = store /\ pc' = "failed" BY <2>2, CalmRead
    <3>2. \A o \in Bearers(task, store) : o.tag # task.tag \/ o.value = Protected
      BY <1>1, <2>2 DEF Bearers, OwnStack
    <3>3. Blocked(task, store) BY <1>1, <3>2 DEF Blocked
    <3> QED BY <3>1, <3>3, FailedKnows
  <2> QED BY <1>4, <2>1, <2>2 DEF AbsentStack, At
<1> QED BY <1>3, <1>4 DEF AbsentStack, At

LEMMA AbsentPluginKnows ==
    ASSUME TypeOK, CalmOK, AbsentPlugin, calm'
    PROVE  Knows(got', pc', store')
BY DeleteNamedKnows DEF AbsentPlugin, At

LEMMA PresentKeyKnows ==
    ASSUME TypeOK, CalmOK, PresentKey, calm'
    PROVE  Knows(got', pc', store')
<1>1. /\ task.module = "key" /\ task.state = "present"
      /\ Create("changed", IF task.strict THEN "failed" ELSE "unchanged")
      /\ "changed" \in Well /\ "unchanged" \in Well
  BY DEF PresentKey, At, Well
<1>2. CASE pc' \in Well BY <1>2, WellKnows
<1>3. CASE Creatable = {} /\ store' = store /\ pc' = "failed" /\ task.strict
  <2>1. Taken(store) BY <1>1, <1>3, RefusedIsTaken
  <2>2. Bearers(task, store) # {} BY <1>1, <2>1 DEF Taken, Named, Bearers
  <2>3. Blocked(task, store) BY <1>1, <1>3, <2>2 DEF Blocked
  <2> QED BY <1>3, <2>3, FailedKnows
<1>4. \/ pc' = "changed"
      \/ /\ Creatable = {} /\ store' = store
         /\ pc' = IF task.strict THEN "failed" ELSE "unchanged"
  BY <1>1, CalmCreate
<1> QED BY <1>1, <1>2, <1>3, <1>4

LEMMA AbsentKeyKnows ==
    ASSUME TypeOK, CalmOK, AbsentKey, calm'
    PROVE  Knows(got', pc', store')
BY DeleteNamedKnows DEF AbsentKey, At

-----------------------------------------------------------------------------
(* The theorem *)

LEMMA StepKnows ==
    ASSUME TypeOK, CalmOK, GrafanaStep \/ CloudStep, calm'
    PROVE  Knows(got', pc', store')
<1>1. CASE GrafanaStep
  BY <1>1, GetUserKnows, PresentUserKnows, AbsentUserKnows, PasswordUserKnows,
     PresentFolderKnows, AbsentFolderKnows, PresentDatasourceKnows, AbsentDatasourceKnows,
     PresentDashboardKnows, AbsentDashboardKnows, PresentContactPointKnows,
     AbsentContactPointKnows, NotificationPolicyKnows
  DEF GrafanaStep
<1>2. CASE CloudStep
  BY <1>2, PresentStackKnows, AbsentStackKnows, PresentPluginKnows, AbsentPluginKnows,
     PresentKeyKnows, AbsentKeyKnows
  DEF CloudStep
<1> QED BY <1>1, <1>2

LEMMA CalmIsKept == ASSUME TypeOK, CalmOK, [Next]_vars PROVE CalmOK'
<1> SUFFICES ASSUME calm' PROVE Knows(got, pc, store)'
  BY DEF CalmOK
<1>1. CASE Begin
  BY <1>1 DEF Begin, Knows, UserKnows, OwnIdKnows, DatasourceKnows, StackKnows
<1>2. CASE Others BY <1>2 DEF Others
<1>3. CASE Step
  <2>1. Knows(got', pc', store') BY <1>3, StepKnows DEF Step
  <2>2. task' = task BY <1>3 DEF Step
  <2> QED BY <2>1, <2>2
          DEF Knows, UserKnows, OwnIdKnows, DatasourceKnows, StackKnows, Taken, OwnStack
<1>4. CASE UNCHANGED vars
  BY <1>4 DEF vars, CalmOK, Knows, UserKnows, OwnIdKnows, DatasourceKnows, StackKnows,
              Taken, OwnStack
<1> QED BY <1>1, <1>2, <1>3, <1>4 DEF Next

\* Where no other client moves and no request is lost or refused out of turn,
\* a module fails only for what the server holds: a name that is taken, an
\* object that may not be replaced or deleted, or nothing to delete.
THEOREM FailuresHaveReasons == Spec => []FailsForAReason
<1>1. Init => CalmOK BY DEF Init, CalmOK
<1>2. TypeOK /\ CalmOK /\ [Next]_vars => CalmOK' BY CalmIsKept
<1>3. CalmOK => FailsForAReason BY DEF CalmOK, Knows, FailsForAReason
<1> QED BY <1>1, <1>2, <1>3, TypeCorrect, PTL DEF Spec
=============================================================================
