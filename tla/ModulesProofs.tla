---------------------------- MODULE ModulesProofs ----------------------------
(***************************************************************************)
(* Theorems about Modules, for any server, any play of the modules' tasks  *)
(* and any bounds: types, that a module which compares writes only where   *)
(* something was lacking, and that every run is one PlayTask allows.       *)
(***************************************************************************)
EXTENDS Modules, TLAPS

-----------------------------------------------------------------------------
(* The inductive invariant *)

Steps == Over \union {"idle", "begin", "lookup", "byEmail", "write", "list", "get",
                      "update", "delete", "readBack", "made", "same"}

Running == pc \notin Over \union {"idle"}

\* The request that changes the server has been accepted.
Written == {"readBack", "made"}

\* What is left to do is to report that nothing was to be done.
Nothing == pc = "same" \/ (pc = "byEmail" /\ task.state = "absent")

\* Whatever bears the task's name has been seen, and what was found bore it.
NamedOK ==
    /\ Running => BearerIds(task, store) \subseteq named
    /\ Running /\ got # None => got \in named
    /\ pc = "byEmail" => task.tag # None

\* A run has written only when it is past the write.
WroteOK ==
    /\ pc \in Written => held /\ wrote
    /\ Running /\ pc \notin Written => ~wrote
    /\ Nothing => held

\* A run that compares is on its way to a write only if something was lacking.
LackedOK ==
    /\ Running /\ ~Met(task, store, newest) => lacked
    /\ pc = "update" /\ Compares => lacked
    /\ pc = "write" /\ task.state = "absent" => lacked
    /\ /\ pc \in {"lookup", "byEmail", "write"}
       /\ task.state = "update_password" /\ ~task.strict
       => lacked
    /\ NoNeedlessWrite

Inv == TypeOK /\ NamedOK /\ WroteOK /\ LackedOK

-----------------------------------------------------------------------------
(* What one step of a module does *)

\* The server may become new for the task: its objects are well formed, only
\* objects that bore the task's name are replaced or removed, and what the
\* task asks is done.
Good(new) ==
    /\ new \subseteq Objects(task.module)
    /\ Legal(task.module, new)
    /\ \A o \in store \ new : o.id \in named
    /\ Done(task, new, newest, named \union BearerIds(task, new))

\* To go on to step st, knowing i, when the run has written or not (w) and
\* what the task asks has been done (d).
Sound(i, st, w, d) ==
    /\ i \in Ids \union {None} /\ st \in Steps \ {"idle"}
    /\ st = "byEmail" => task.tag # None
    /\ st \in Written \union {"changed"} => w /\ d
    /\ st \notin Over \union Written => ~w
    /\ st \in {"unchanged", "same"} => ~w /\ d
    /\ st = "byEmail" /\ task.state = "absent" => d
    /\ st = "update" /\ Compares => lacked
    /\ st = "write" /\ task.state = "absent" => lacked
    /\ /\ st \in {"lookup", "byEmail", "write"}
       /\ task.state = "update_password" /\ ~task.strict
       => lacked

\* The outcome of a step, before it is observed: nothing has changed on the
\* server and the module goes on, or the server has become new.
Kept ==
    /\ UNCHANGED <<store, wrote>>
    /\ Sound(got', pc', wrote, held \/ Done(task, store, newest, named))
    /\ pc' \notin Over /\ got' # None => got' \in named

Changed ==
    /\ wrote' = TRUE /\ Good(store') /\ (Compares => lacked)
    /\ got' \in Ids \union {None} /\ pc' \in {"changed", "failed"} \union Written
    /\ pc' \notin Over /\ got' # None => got' \in named \union BearerIds(task, store')

Outcome ==
    /\ Kept \/ Changed
    /\ faults' \in 0..MaxFaults /\ calm' \in BOOLEAN

-----------------------------------------------------------------------------
(* Tasks and objects *)

Kinds == {"user", "folder", "datasource", "dashboard", "contact", "policy",
          "stack", "plugin", "key"}

\* What the arguments of a task are, by its module.
TaskShape(t) ==
    /\ t.module \in Kinds
    /\ t.state \in {"present", "absent", "update_password"}
    /\ t.state = "update_password" => t.module = "user"
    /\ t.module = "policy" => t.state = "present"
    /\ t.id \in Ids \union {None}
    /\ t.module \in {"folder", "contact", "plugin", "key"} => t.id \in Ids
    /\ t.module \in {"user", "policy", "stack"} => t.id = None
    /\ IF t.module \in Named THEN t.name \in Names ELSE t.name = None
    /\ t.tag \in Tags \union {None}
    /\ t.module \notin Tagged => t.tag = None
    /\ IF t.module \in Plain THEN t.value = None
       ELSE IF t.module = "plugin" THEN t.value \in Values \union {Latest}
       ELSE t.value \in Values
    /\ t.strict \in BOOLEAN

LEMMA TaskIsShaped == ASSUME NEW t \in Tasks PROVE TaskShape(t)
<1> USE WishAssumption DEF Task, TaskShape, Kinds, Named, Tagged, Plain
<1>1. CASE t \in UserTasks BY <1>1 DEF UserTasks
<1>2. CASE t \in FolderTasks BY <1>2 DEF FolderTasks
<1>3. CASE t \in DatasourceTasks BY <1>3 DEF DatasourceTasks
<1>4. CASE t \in DashboardTasks BY <1>4 DEF DashboardTasks
<1>5. CASE t \in ContactTasks BY <1>5 DEF ContactTasks
<1>6. CASE t \in PolicyTasks BY <1>6 DEF PolicyTasks
<1>7. CASE t \in StackTasks BY <1>7 DEF StackTasks
<1>8. CASE t \in PluginTasks BY <1>8 DEF PluginTasks
<1>9. CASE t \in KeyTasks BY <1>9 DEF KeyTasks
<1> QED BY <1>1, <1>2, <1>3, <1>4, <1>5, <1>6, <1>7, <1>8, <1>9 DEF Tasks

\* A plugin's version is a value, and so is what any other module asks for.
LEMMA VersionIsValue ==
    ASSUME NEW t \in Tasks, NEW n \in Values
    PROVE  /\ t.module \notin Plain => Version(t, n) \in Values
           /\ t.value \in Values => Version(t, n) = t.value
BY TaskIsShaped, ObjectsAssumption DEF TaskShape, Version, Plain, Kinds

LEMMA ClashIsSymmetric ==
    ASSUME NEW k, NEW o, NEW p, ~Clash(k, o, p)
    PROVE  ~Clash(k, p, o)
BY DEF Clash

\* Replacing or adding an object that clashes with none of the others keeps
\* the server's order, and so does removing one.
LEMMA PutIsLegal ==
    ASSUME NEW k, NEW s, Legal(k, s), s \subseteq Objects(k), NEW o \in Objects(k),
           \A p \in s : p.id # o.id => ~Clash(k, o, p)
    PROVE  Put(s, o) \subseteq Objects(k) /\ Legal(k, Put(s, o))
<1>1. Put(s, o) \subseteq Objects(k) /\ Put(s, o) # {} BY DEF Put
<1>2. ASSUME NEW x \in Put(s, o), NEW y \in Put(s, o), x # y
      PROVE  ~Clash(k, x, y)
  <2>1. CASE x = o BY <1>2, <2>1 DEF Put
  <2>2. CASE y = o BY <1>2, <2>2, ClashIsSymmetric DEF Put
  <2>3. CASE x \in s /\ y \in s BY <1>2, <2>3 DEF Legal
  <2> QED BY <2>1, <2>2, <2>3 DEF Put
<1> QED BY <1>1, <1>2 DEF Legal

LEMMA RemovalIsLegal ==
    ASSUME NEW k, NEW s, Legal(k, s), s \subseteq Objects(k), k # "policy", NEW r \in SUBSET s
    PROVE  r \subseteq Objects(k) /\ Legal(k, r)
BY DEF Legal

-----------------------------------------------------------------------------
(* Changes that are good *)

\* What makes an object one that the task names.
LEMMA Bears ==
    ASSUME NEW t \in Tasks, NEW s, NEW o \in s
    PROVE  /\ t.module \in {"user", "datasource", "stack"} /\ o.name = t.name => o \in Bearers(t, s)
           /\ t.module = "user" /\ t.tag # None /\ o.tag = t.tag => o \in Bearers(t, s)
           /\ t.module = "dashboard" /\ t.id = None /\ o.name = t.name => o \in Bearers(t, s)
           /\ t.module \notin {"user", "datasource", "stack"} /\ o.id = t.id => o \in Bearers(t, s)
BY TaskIsShaped DEF Bearers, TaskShape, Kinds

LEMMA BearersAreThere == ASSUME NEW t, NEW s PROVE Bearers(t, s) \subseteq s
BY DEF Bearers

\* For `present`, to put an object that the task names, and that has what
\* the task asks, is to do what it asks.
LEMMA GoodPut ==
    ASSUME TypeOK, task.state = "present",
           NEW o \in Objects(task.module),
           \A p \in store : p.id # o.id => ~Clash(task.module, o, p),
           \A p \in store : p.id = o.id => p.id \in named,
           o.id \in named \/ o \in Bearers(task, Put(store, o)),
           Meets(task, o, newest)
    PROVE  Good(Put(store, o))
<1> DEFINE new == Put(store, o)
<1>1. new \subseteq Objects(task.module) /\ Legal(task.module, new)
  BY PutIsLegal DEF TypeOK
<1>2. \A p \in store \ new : p.id \in named BY DEF Put
<1>3. o \in new BY DEF Put
<1>4. o.id \in named \union BearerIds(task, new) BY DEF BearerIds
<1>5. Done(task, new, newest, named \union BearerIds(task, new))
  BY <1>3, <1>4 DEF Done
<1> QED BY <1>1, <1>2, <1>5 DEF Good

LEMMA GoodCreate ==
    ASSUME TypeOK, task.state = "present", NEW o \in Creatable
    PROVE  Good(Put(store, o)) /\ Bearers(task, store) = {} /\ o.id \in Ids
                /\ o.id \in BearerIds(task, Put(store, o))
<1> DEFINE new == Put(store, o)
<1>1. TaskShape(task) /\ task \in Tasks BY TaskIsShaped DEF TypeOK
<1>2. /\ o \in Objects(task.module) /\ task.id \in {o.id, None}
      /\ o.name = task.name /\ o.tag = task.tag /\ o.value = Version(task, newest)
      /\ \A p \in store : ~Clash(task.module, o, p)
  BY DEF Creatable
<1>3. task.module # "policy"
  BY <1>2 DEF TypeOK, Legal, Clash, Objects
<1>4. o.id \in Ids BY <1>2, <1>3 DEF Objects
<1>5. o \in new BY DEF Put
<1>6. o \in Bearers(task, new)
  <2>1. CASE task.module \in {"user", "datasource", "stack"}
    BY <1>1, <1>2, <1>5, <2>1, Bears
  <2>2. CASE task.module = "dashboard" /\ task.id = None
    BY <1>1, <1>2, <1>5, <2>2, Bears
  <2>3. CASE task.module \notin {"user", "datasource", "stack"} /\ task.id # None
    <3>1. o.id = task.id BY <1>2, <2>3
    <3> QED BY <1>1, <1>5, <2>3, <3>1, Bears
  <2>4. task.module \in {"folder", "contact", "plugin", "key"} => task.id # None
    BY <1>1, ObjectsAssumption DEF TaskShape
  <2> QED BY <1>1, <1>3, <2>1, <2>2, <2>3, <2>4 DEF TaskShape, Kinds
<1>7. Bearers(task, store) = {}
  <2> SUFFICES ASSUME NEW p \in store PROVE p \notin Bearers(task, store)
    BY BearersAreThere
  <2>1. /\ o.id # p.id
        /\ task.module \in Named => o.name # p.name
        /\ task.module = "user" => o.tag # p.tag \/ o.tag = None
    BY <1>2 DEF Clash
  <2>2. task.module \in {"folder", "contact", "plugin", "key"} => task.id # None
    BY <1>1, ObjectsAssumption DEF TaskShape
  <2>3. task.id = o.id \/ task.id = None BY <1>2
  <2>4. p.id # None BY <1>3, ObjectsAssumption DEF TypeOK, Objects
  <2> QED BY <1>2, <1>3, <2>1, <2>2, <2>3, <2>4 DEF Bearers, Named
<1>8. \A p \in store : p.id # o.id BY <1>2 DEF Clash
<1>9. Meets(task, o, newest) BY <1>2 DEF Meets
<1>10. Good(new)
  BY <1>2, <1>6, <1>8, <1>9, GoodPut
<1> QED BY <1>4, <1>6, <1>7, <1>10 DEF BearerIds

\* For `absent`, to remove an object that bore the task's name is.
LEMMA GoodRemoval ==
    ASSUME TypeOK, task.state = "absent", NEW i \in named
    PROVE  Good(Without(store, i))
<1> DEFINE new == Without(store, i)
<1>1. task.module # "policy" BY TaskIsShaped DEF TypeOK, TaskShape
<1>2. new \subseteq Objects(task.module) /\ Legal(task.module, new)
  BY <1>1, RemovalIsLegal DEF TypeOK, Without
<1>3. \A p \in store \ new : p.id \in named BY DEF Without
<1>4. \A p \in new : p.id # i BY DEF Without
<1>5. Done(task, new, newest, named \union BearerIds(task, new))
  BY <1>4 DEF Done
<1> QED BY <1>2, <1>3, <1>5 DEF Good

-----------------------------------------------------------------------------
(* Requests *)

\* Where a module may go on without a change.
Onward(i, st) ==
    /\ Sound(i, st, wrote, held \/ Done(task, store, newest, named))
    /\ st \notin Over /\ i # None => i \in named

LEMMA LearnsOK ==
    ASSUME TypeOK, NEW i, NEW st, Onward(i, st), Learns(i, st)
    PROVE  Outcome
<1>1. faults' \in 0..MaxFaults /\ calm' \in BOOLEAN
  <2>1. faults' \in 0..MaxFaults BY BoundsAssumption DEF TypeOK, Learns
  <2>2. calm' \in BOOLEAN BY Zenon DEF TypeOK, Learns
  <2> QED BY <2>1, <2>2
<1>2. UNCHANGED <<store, wrote>> /\ got' = i /\ pc' \in {st, "failed"} BY DEF Learns
<1>3. Sound(i, "failed", wrote, held \/ Done(task, store, newest, named))
  BY DEF Onward, Sound, Steps, Over, Well, Written
<1>4. Kept BY <1>2, <1>3, Zenon DEF Kept, Onward, Over
<1> QED BY <1>1, <1>4 DEF Outcome

LEMMA RefusedOK ==
    ASSUME TypeOK, NEW st, Onward(got, st), Refused(st)
    PROVE  Outcome
<1>1. faults' \in 0..MaxFaults /\ calm' \in BOOLEAN
  <2>1. faults' \in 0..MaxFaults BY BoundsAssumption DEF TypeOK, Refused
  <2>2. calm' \in BOOLEAN BY Zenon DEF TypeOK, Refused
  <2> QED BY <2>1, <2>2
<1>2. Kept BY DEF Refused, Kept, Onward
<1> QED BY <1>1, <1>2 DEF Outcome

LEMMA FailsOK ==
    ASSUME TypeOK
    PROVE  Onward(got, "failed")
BY DEF TypeOK, Onward, Sound, Steps, Over, Well, Written

LEMMA WritesOK ==
    ASSUME TypeOK, NEW i \in Ids \union {None}, NEW new, NEW st,
           Good(new), Compares => lacked,
           st \in {"changed", "failed"} \union Written,
           st \notin Over /\ i # None => i \in named \union BearerIds(task, new),
           Writes(i, new, st)
    PROVE  Outcome
<1>1. CASE store' = new /\ wrote' = TRUE /\ pc' = st /\ UNCHANGED <<faults, calm>>
  <2>1. Changed BY <1>1 DEF Writes, Changed
  <2> QED BY <1>1, <2>1 DEF TypeOK, Outcome
<1>2. CASE Fault(new)
  <2>1. faults' \in 0..MaxFaults /\ calm' \in BOOLEAN
    <3>1. faults' \in 0..MaxFaults BY <1>2, BoundsAssumption DEF TypeOK, Fault
    <3>2. calm' \in BOOLEAN BY <1>2, Zenon DEF Fault
    <3> QED BY <3>1, <3>2
  <2>2. got' = i /\ pc' = "failed" BY <1>2 DEF Fault, Writes
  <2>3. CASE store' = new /\ wrote' = TRUE
    <3>1. Changed BY <2>2, <2>3 DEF Changed, Over, Well
    <3> QED BY <2>1, <3>1 DEF Outcome
  <2>4. CASE store' = store /\ wrote' = wrote
    <3>1. Sound(i, "failed", wrote, held \/ Done(task, store, newest, named))
      BY DEF Sound, Steps, Over, Well, Written
    <3>2. Kept BY <2>2, <2>4, <3>1, Zenon DEF Kept, Over
    <3> QED BY <2>1, <3>2 DEF Outcome
  <2> QED BY <1>2, <2>3, <2>4 DEF Fault, TypeOK
<1> QED BY <1>1, <1>2 DEF Writes

\* A creation, which goes through only where nothing bears the task's name.
LEMMA CreateOK ==
    ASSUME Inv, Running, task.state = "present",
           NEW other, Creatable = {} => Onward(got, other),
           Create("changed", other)
    PROVE  Outcome
<1>1. TypeOK /\ LackedOK BY DEF Inv
<1>2. CASE Creatable = {} BY <1>1, <1>2, LearnsOK DEF Create, Read
<1>3. ASSUME NEW o \in Creatable, Write(Put(store, o), "changed")
      PROVE  Outcome
  <2>1. Good(Put(store, o)) /\ Bearers(task, store) = {}
    BY <1>1, <1>3, GoodCreate
  <2>2. ~Met(task, store, newest) BY <2>1 DEF Met
  <2>3. lacked BY <1>1, <2>2 DEF LackedOK
  <2> QED BY <1>1, <1>3, <2>1, <2>3, WritesOK DEF TypeOK, Write, Over, Well
<1> QED BY <1>2, <1>3 DEF Create

\* A replacement.
LEMMA UpdateOK ==
    ASSUME Inv, NEW o, NEW st \in {"changed", "readBack", "made"},
           Running, task.state = "present",
           Fits(o) => /\ o \in Objects(task.module)
                      /\ o.id \in named
                      /\ Meets(task, o, newest),
           Compares => lacked,
           Update(o, st)
    PROVE  Outcome
<1>1. TypeOK BY DEF Inv
<1>2. CASE Read("failed") BY <1>1, <1>2, FailsOK, LearnsOK DEF Read
<1>3. CASE Fits(o) /\ Write(Put(store, o), st)
  <2>1. \A p \in store : p.id # o.id => ~Clash(task.module, o, p)
    BY <1>3 DEF Fits
  <2>2. Good(Put(store, o)) BY <1>1, <1>3, <2>1, GoodPut
  <2>3. got # None => got \in named BY DEF Inv, NamedOK
  <2> QED BY <1>1, <1>3, <2>2, <2>3, WritesOK DEF TypeOK, Write, Over, Well, Written
<1> QED BY <1>2, <1>3 DEF Update

\* A removal of what bore the task's name.
LEMMA DeleteOK ==
    ASSUME Inv, NEW i, Running, task.state = "absent",
           (\E o \in store : o.id = i) => i \in named /\ lacked,
           Delete(i)
    PROVE  Outcome
<1>1. TypeOK BY DEF Inv
<1>2. CASE Read("failed") BY <1>1, <1>2, FailsOK, LearnsOK DEF Read
<1>3. CASE (\E o \in store : o.id = i) /\ Write(Without(store, i), "changed")
  <2>1. Good(Without(store, i)) BY <1>1, <1>3, GoodRemoval
  <2> QED BY <1>1, <1>3, <2>1, WritesOK DEF TypeOK, Write, Over, Well
<1> QED BY <1>2, <1>3 DEF Delete

\* What bears the task's name has been seen and, for `absent`, is what the
\* task asks to be gone.
LEMMA BearerIsSeen ==
    ASSUME Inv, Running, NEW o \in Bearers(task, store)
    PROVE  /\ o.id \in named
           /\ task.state = "absent" => lacked
<1>1. o.id \in BearerIds(task, store) BY DEF BearerIds
<1>2. o.id \in named BY <1>1 DEF Inv, NamedOK
<1>3. task.state = "absent" => ~Met(task, store, newest) BY DEF Met
<1> QED BY <1>2, <1>3 DEF Inv, LackedOK

LEMMA DeleteNamedOK ==
    ASSUME Inv, Running, task.state = "absent", DeleteNamed
    PROVE  Outcome
<1>1. TypeOK BY DEF Inv
<1>2. CASE Read("failed") BY <1>1, <1>2, FailsOK, LearnsOK DEF Read
<1>3. ASSUME NEW o \in Bearers(task, store), Delete(o.id)
      PROVE  Outcome
  BY <1>3, BearerIsSeen, DeleteOK
<1> QED BY <1>2, <1>3 DEF DeleteNamed

\* To observe the outcome of a step is to keep the invariant.
LEMMA OutcomeObserved ==
    ASSUME Inv, Running, Outcome, Observe, UNCHANGED <<task, newest, moves>>
    PROVE  Inv'
<1> DEFINE seen == named \union BearerIds(task, store')
<1>1. TypeOK /\ NamedOK /\ WroteOK /\ LackedOK BY DEF Inv
<1>2. /\ named' = seen
      /\ held' = (held \/ Done(task, store', newest, named'))
      /\ lacked' = (lacked \/ ~Met(task, store', newest))
  BY Zenon DEF Observe
<1>3. CASE Kept
  <2>1. named' = named /\ store' = store /\ wrote' = wrote
    BY <1>1, <1>2, <1>3 DEF Kept, NamedOK
  <2>2. TypeOK'
    <3>1. got' \in Ids \union {None} /\ pc' \in Steps
      BY <1>3 DEF Kept, Sound
    <3>2. held' \in BOOLEAN /\ lacked' \in BOOLEAN
      BY <1>1, <1>2, Zenon DEF TypeOK
    <3>3. faults' \in 0..MaxFaults /\ calm' \in BOOLEAN BY DEF Outcome
    <3> QED BY <1>1, <2>1, <3>1, <3>2, <3>3 DEF TypeOK, Steps
  <2>3. Sound(got', pc', wrote', held') BY <1>2, <1>3, <2>1, Zenon DEF Kept
  <2>4. NamedOK'
    BY <1>2, <1>3, <2>1, <2>3 DEF NamedOK, Kept, Sound, Running, Over
  <2>5. WroteOK'
    <3>1. (pc \in Written => held /\ wrote)' BY <2>3 DEF Sound, Written
    <3>2. (Running /\ pc \notin Written => ~wrote)' BY <2>3 DEF Sound, Running
    <3>3. (Nothing => held)' BY <2>3 DEF Sound, Nothing
    <3> QED BY <3>1, <3>2, <3>3 DEF WroteOK
  <2>6. LackedOK'
    BY <1>1, <1>2, <2>1, <2>3 DEF LackedOK, Sound, Running, NoNeedlessWrite, Compares
  <2> QED BY <2>2, <2>4, <2>5, <2>6 DEF Inv
<1>4. CASE Changed
  <2>1. store' \subseteq Objects(task.module) /\ Legal(task.module, store')
        /\ Done(task, store', newest, seen)
    BY <1>4, Zenon DEF Changed, Good
  <2>2. held' BY <1>2, <2>1
  <2>3. TypeOK'
    <3>1. seen \subseteq Ids \union {None}
      BY <1>1, <2>1, BearersAreThere DEF TypeOK, BearerIds, Objects
    <3>2. got' \in Ids \union {None} /\ pc' \in Steps
      BY <1>4 DEF Changed, Steps, Over, Well, Written
    <3>3. held' \in BOOLEAN /\ lacked' \in BOOLEAN
      BY <1>1, <1>2, Zenon DEF TypeOK
    <3>4. faults' \in 0..MaxFaults /\ calm' \in BOOLEAN BY DEF Outcome
    <3> QED BY <1>1, <1>2, <1>4, <2>1, <3>1, <3>2, <3>3, <3>4 DEF TypeOK, Steps, Changed
  <2>4. NamedOK'
    BY <1>2, <1>4 DEF NamedOK, Changed, Running, Over, Well, Written
  <2>5. WroteOK'
    BY <1>4, <2>2 DEF WroteOK, Changed, Running, Nothing, Over, Well, Written
  <2>6. LackedOK'
    BY <1>2, <1>4 DEF LackedOK, Changed, Running, NoNeedlessWrite, Compares,
                      Over, Well, Written
  <2> QED BY <2>3, <2>4, <2>5, <2>6 DEF Inv
<1> QED BY <1>3, <1>4 DEF Outcome

-----------------------------------------------------------------------------
(* user *)

LEMMA GetUserOK == ASSUME Inv, GetUser PROVE Running /\ Outcome
<1> DEFINE d == held \/ Done(task, store, newest, named)
<1>1. TypeOK /\ NamedOK /\ WroteOK /\ LackedOK /\ TaskShape(task)
  BY TaskIsShaped DEF Inv, TypeOK
<1>2. task \in Tasks /\ task.module = "user" BY DEF GetUser, Inv, TypeOK
<1>3. \/ pc = IF task.state = "update_password" THEN "lookup" ELSE "begin"
      \/ pc = "byEmail"
  BY DEF GetUser
<1>4. Running /\ ~wrote
  BY <1>1, <1>3 DEF Running, Over, Well, WroteOK, Written
<1> SUFFICES Outcome BY <1>4
<1>5. ASSUME NEW u \in Bearers(task, store)
      PROVE  Onward(u.id, "write")
  <2>1. u.id \in Ids BY <1>1, <1>2, BearersAreThere DEF TypeOK, Objects
  <2>2. u.id \in named /\ (task.state = "absent" => lacked)
    BY <1>4, BearerIsSeen
  <2>3. task.state = "update_password" /\ ~task.strict => lacked
    BY <1>1, <1>3 DEF LackedOK
  <2> QED BY <1>4, <2>1, <2>2, <2>3 DEF Onward, Sound, Steps, Over, Well, Written
<1>6. ASSUME NEW u \in store, u \in Bearers(task, store), Learns(u.id, "write")
      PROVE  Outcome
  BY <1>1, <1>5, <1>6, LearnsOK
<1>7. (task.state = "absent" => d) => Onward(got, NoUser)
  <2>1. CASE task.state = "present"
    BY <1>1, <1>4, <2>1 DEF NoUser, Onward, Sound, Steps, Over, Well, Written, TypeOK, NamedOK
  <2>2. CASE task.state = "absent"
    BY <1>1, <1>4, <2>2 DEF NoUser, Onward, Sound, Steps, Over, Well, Written, TypeOK
  <2>3. CASE task.state = "update_password"
    BY <1>1, <2>3, FailsOK DEF NoUser
  <2> QED BY <1>1, <2>1, <2>2, <2>3 DEF TaskShape
<1>8. CASE /\ pc = IF task.state = "update_password" THEN "lookup" ELSE "begin"
           /\ \A u \in store : u.name # task.name
           /\ Read(IF task.tag = None THEN NoUser ELSE "byEmail")
  <2>1. task.state = "absent" => d
    BY <1>2, <1>8, BearersAreThere DEF Done
  <2>2. CASE task.tag = None BY <1>1, <1>7, <1>8, <2>1, <2>2, LearnsOK DEF Read
  <2>3. CASE task.tag # None
    <3>1. Onward(got, "byEmail")
      BY <1>1, <1>4, <1>8, <2>1, <2>3 DEF Onward, Sound, Steps, Over, Well, Written,
                                          TypeOK, NamedOK, LackedOK
    <3> QED BY <1>1, <1>8, <2>3, <3>1, LearnsOK DEF Read
  <2> QED BY <2>2, <2>3
<1>9. CASE pc = "byEmail" /\ Read(NoUser)
  <2>1. task.state = "absent" => d BY <1>1, <1>9 DEF WroteOK, Nothing
  <2> QED BY <1>1, <1>7, <1>9, <2>1, LearnsOK DEF Read
<1>10. ASSUME pc = "byEmail", NEW u \in store, u.tag = task.tag
       PROVE  u \in Bearers(task, store)
  BY <1>1, <1>2, <1>10, Bears DEF NamedOK
<1>11. ASSUME NEW u \in store, u.name = task.name
       PROVE  u \in Bearers(task, store)
  BY <1>2, <1>11, Bears
<1> QED BY <1>4, <1>6, <1>8, <1>9, <1>10, <1>11 DEF GetUser

LEMMA PresentUserOK == ASSUME Inv, PresentUser PROVE Running /\ Outcome
<1>1. TypeOK /\ NamedOK /\ TaskShape(task) BY TaskIsShaped DEF Inv, TypeOK
<1>2. Running /\ task.module = "user" /\ task.state = "present"
  BY DEF PresentUser, At, Running, Over, Well
<1> SUFFICES Outcome BY <1>2
<1>3. CASE Create("changed", "failed") BY <1>1, <1>2, <1>3, CreateOK, FailsOK
<1>4. ASSUME NEW u \in store, u.id = got, Update(Renamed(u), "changed")
      PROVE  Outcome
  <2>1. u \in Objects("user") BY <1>1, <1>2 DEF TypeOK
  <2>2. u.id # None BY <2>1, ObjectsAssumption DEF Objects
  <2>3. Renamed(u) \in Objects("user") /\ Renamed(u).id = u.id
    BY <1>1, <1>2, <2>1 DEF Renamed, Objects, TaskShape, Named, Tagged
  <2>4. Renamed(u).name = task.name /\ (task.tag # None => Renamed(u).tag = task.tag)
    BY <1>1, <1>2, <2>1 DEF Renamed, Objects
  <2>5. Meets(task, Renamed(u), newest) BY <1>2, <2>4 DEF Meets
  <2>6. ~Compares BY <1>2 DEF Compares
  <2> QED BY <1>1, <1>2, <1>4, <2>2, <2>3, <2>5, <2>6, UpdateOK DEF NamedOK
<1>5. CASE Read("failed") BY <1>1, <1>5, FailsOK, LearnsOK DEF Read
<1> QED BY <1>2, <1>3, <1>4, <1>5 DEF PresentUser

LEMMA AbsentUserOK == ASSUME Inv, AbsentUser PROVE Running /\ Outcome
<1>1. TypeOK /\ NamedOK /\ LackedOK BY DEF Inv
<1>2. /\ Running /\ pc = "write" /\ task.module = "user" /\ task.state = "absent"
      /\ Delete(got)
  BY DEF AbsentUser, At, Running, Over, Well
<1>3. ASSUME NEW o \in store, o.id = got PROVE got \in named /\ lacked
  <2>1. got # None BY <1>1, <1>2, <1>3, ObjectsAssumption DEF TypeOK, Objects
  <2> QED BY <1>1, <1>2, <2>1 DEF NamedOK, LackedOK
<1> QED BY <1>2, <1>3, DeleteOK

LEMMA PasswordUserOK == ASSUME Inv, PasswordUser PROVE Running /\ Outcome
<1>1. TypeOK /\ NamedOK /\ WroteOK /\ LackedOK /\ TaskShape(task)
  BY TaskIsShaped DEF Inv, TypeOK
<1>2. /\ Running /\ task \in Tasks
      /\ task.module = "user" /\ task.state = "update_password" /\ pc \in {"begin", "write"}
  BY <1>1 DEF PasswordUser, At, Running, Over, Well, TypeOK
<1> SUFFICES Outcome BY <1>2
<1> DEFINE Right == \E u \in store : u.name = task.name /\ u.value = task.value
<1>3. CASE pc = "begin" /\ Read(IF ~task.strict /\ Right THEN "unchanged" ELSE "lookup")
  <2>1. ~wrote BY <1>1, <1>2, <1>3 DEF WroteOK, Written
  <2>2. CASE ~task.strict /\ Right
    <3>1. PICK u \in store : u.name = task.name /\ u.value = task.value BY <2>2
    <3>2. u.id \in named BY <1>2, <3>1, Bears, BearerIsSeen
    <3>3. Done(task, store, newest, named) BY <1>2, <3>1, <3>2 DEF Done
    <3>4. Onward(got, "unchanged")
      BY <1>1, <2>1, <3>3 DEF Onward, Sound, TypeOK, Steps, Over, Well, Written
    <3> QED BY <1>1, <1>3, <2>2, <3>4, LearnsOK DEF Read
  <2>3. CASE ~(~task.strict /\ Right)
    <3>1. ~task.strict => lacked
      BY <1>1, <1>2, <2>3 DEF LackedOK, Met
    <3>2. Onward(got, "lookup")
      BY <1>1, <1>2, <2>1, <3>1 DEF Onward, Sound, TypeOK, NamedOK, Steps, Over, Well, Written
    <3> QED BY <1>1, <1>3, <2>3, <3>2, LearnsOK DEF Read
  <2> QED BY <2>2, <2>3
<1>4. ASSUME pc = "write", NEW u \in store, u.id = got,
             Update([u EXCEPT !.value = task.value], "changed")
      PROVE  Outcome
  <2> DEFINE o == [u EXCEPT !.value = task.value]
  <2>1. u \in Objects("user") BY <1>1, <1>2 DEF TypeOK
  <2>2. o \in Objects("user") /\ o.id = got /\ o.value = task.value
    BY <1>1, <1>2, <1>4, <2>1 DEF Objects, TaskShape, Plain
  <2>3. got \in Ids /\ got \in named
    BY <1>1, <1>2, <1>4, <2>1, ObjectsAssumption DEF Objects, NamedOK
  <2>4. CASE Read("failed") BY <1>1, <2>4, FailsOK, LearnsOK DEF Read
  <2>5. CASE Fits(o) /\ Write(Put(store, o), "changed")
    <3>1. Put(store, o) \subseteq Objects("user") /\ Legal("user", Put(store, o))
      BY <1>1, <1>2, <2>2, <2>5, PutIsLegal DEF TypeOK, Fits
    <3>2. \A p \in store \ Put(store, o) : p.id \in named BY <2>2, <2>3 DEF Put
    <3>3. Done(task, Put(store, o), newest, named \union BearerIds(task, Put(store, o)))
      BY <1>2, <2>2, <2>3 DEF Done, Put
    <3>4. Good(Put(store, o)) BY <1>2, <3>1, <3>2, <3>3 DEF Good
    <3>5. Compares => lacked
      BY <1>1, <1>2, <1>4 DEF Compares, LackedOK
    <3> QED BY <1>1, <2>3, <2>5, <3>4, <3>5, WritesOK DEF Write, Over, Well
  <2> QED BY <1>4, <2>4, <2>5 DEF Update
<1>5. CASE Read("failed") BY <1>1, <1>5, FailsOK, LearnsOK DEF Read
<1> QED BY <1>2, <1>3, <1>4, <1>5 DEF PasswordUser, SetUserPassword, At

-----------------------------------------------------------------------------
(* Going on *)

\* Where a run that has not written may go on, with what it found before.
LEMMA Further ==
    ASSUME Inv, Running, pc \notin Written,
           NEW st \in {"list", "get", "delete", "update"},
           st = "update" /\ Compares => lacked
    PROVE  Onward(got, st)
BY DEF Inv, TypeOK, NamedOK, WroteOK, Onward, Sound, Steps, Over, Well, Written

\* A run may end with nothing to do where what the task asks is done.
LEMMA NothingToDo ==
    ASSUME Inv, Running, pc \notin Written, Done(task, store, newest, named)
    PROVE  Onward(got, "unchanged")
BY DEF Inv, TypeOK, WroteOK, Onward, Sound, Steps, Over, Well, Written

\* An object that bears the name and has what the task asks: it is done.
LEMMA MetIsDone ==
    ASSUME Inv, Running,
           \/ /\ task.state = "present"
              /\ \E o \in Bearers(task, store) : Meets(task, o, newest)
           \/ task.state = "absent" /\ Bearers(task, store) = {}
    PROVE  Done(task, store, newest, named)
BY BearerIsSeen, BearersAreThere DEF Done

\* What is not as the task asks is lacking.
LEMMA NotMetIsLacking ==
    ASSUME Inv, Running, ~Met(task, store, newest)
    PROVE  lacked
BY DEF Inv, LackedOK

-----------------------------------------------------------------------------
(* folder *)

LEMMA PresentFolderOK == ASSUME Inv, PresentFolder PROVE Running /\ Outcome
<1>1. TypeOK /\ TaskShape(task) BY TaskIsShaped DEF Inv, TypeOK
<1>2. /\ Running /\ pc \notin Written /\ task \in Tasks
      /\ task.module = "folder" /\ task.state = "present"
  BY <1>1 DEF PresentFolder, At, Running, Over, Well, Written, TypeOK
<1> SUFFICES Outcome BY <1>2
<1> DEFINE Titled == \E o \in Bearers(task, store) : o.name = task.name
<1>3. CASE Create("changed", "list") BY <1>2, <1>3, CreateOK, Further
<1>4. CASE Read(IF Titled THEN "unchanged" ELSE "update")
  <2>1. Titled <=> \E o \in Bearers(task, store) : Meets(task, o, newest)
    BY <1>2 DEF Meets, Plain
  <2>2. CASE Titled
    BY <1>1, <1>2, <1>4, <2>1, <2>2, MetIsDone, NothingToDo, LearnsOK DEF Read
  <2>3. CASE ~Titled
    <3>1. lacked BY <1>2, <2>1, <2>3, NotMetIsLacking DEF Met
    <3> QED BY <1>1, <1>2, <1>4, <2>3, <3>1, Further, LearnsOK DEF Read
  <2> QED BY <2>2, <2>3
<1> DEFINE o == [id |-> task.id, name |-> task.name, tag |-> None, value |-> None]
<1>5. CASE pc = "update" /\ Update(o, "changed")
  <2>1. o \in Objects(task.module) /\ Meets(task, o, newest)
    BY <1>1, <1>2 DEF Objects, TaskShape, Meets, Named, Tagged, Plain
  <2>2. Fits(o) => o.id \in named
    BY <1>2, Bears, BearerIsSeen DEF Fits
  <2>3. Compares => lacked BY <1>5 DEF Inv, LackedOK
  <2> QED BY <1>2, <1>5, <2>1, <2>2, <2>3, UpdateOK
<1>6. CASE Read("failed") BY <1>1, <1>6, FailsOK, LearnsOK DEF Read
<1> QED BY <1>3, <1>4, <1>5, <1>6 DEF PresentFolder, At

\* A folder or a contact point is looked up before it is deleted.
LEMMA LookAndDeleteOK ==
    ASSUME Inv, task.module \in {"folder", "contact"}, task.state = "absent",
           \/ pc = "begin" /\ Read(IF Bearers(task, store) # {} THEN "delete" ELSE "unchanged")
           \/ pc = "delete" /\ Delete(task.id)
    PROVE  Running /\ Outcome
<1>1. TypeOK BY DEF Inv
<1>2. Running /\ pc \notin Written /\ task \in Tasks
  BY <1>1 DEF Running, Over, Well, Written, TypeOK
<1> SUFFICES Outcome BY <1>2
<1>3. CASE Read(IF Bearers(task, store) # {} THEN "delete" ELSE "unchanged")
  BY <1>1, <1>2, <1>3, Further, MetIsDone, NothingToDo, LearnsOK DEF Read
<1>4. CASE Delete(task.id)
  <2>1. ASSUME NEW o \in store, o.id = task.id PROVE task.id \in named /\ lacked
    BY <1>2, <2>1, Bears, BearerIsSeen
  <2> QED BY <1>2, <1>4, <2>1, DeleteOK
<1> QED BY <1>3, <1>4

LEMMA AbsentFolderOK == ASSUME Inv, AbsentFolder PROVE Running /\ Outcome
BY LookAndDeleteOK DEF AbsentFolder, At

LEMMA AbsentContactPointOK == ASSUME Inv, AbsentContactPoint PROVE Running /\ Outcome
BY LookAndDeleteOK DEF AbsentContactPoint, At

-----------------------------------------------------------------------------
(* datasource and dashboard *)

LEMMA PresentDatasourceOK == ASSUME Inv, PresentDatasource PROVE Running /\ Outcome
<1>1. TypeOK /\ TaskShape(task) BY TaskIsShaped DEF Inv, TypeOK
<1>2. /\ Running /\ pc \notin Written /\ task \in Tasks
      /\ task.module = "datasource" /\ task.state = "present"
  BY <1>1 DEF PresentDatasource, At, Running, Over, Well, Written, TypeOK
<1> SUFFICES Outcome BY <1>2
<1>3. ~Compares BY <1>2 DEF Compares
<1>4. CASE Create("changed", "list") BY <1>2, <1>4, CreateOK, Further
<1>5. ASSUME NEW p \in Bearers(task, store), Learns(p.id, "update")
      PROVE  Outcome
  <2>1. p.id \in Ids BY <1>1, <1>2, BearersAreThere DEF TypeOK, Objects
  <2>2. p.id \in named BY <1>2, BearerIsSeen
  <2>3. ~wrote BY <1>2 DEF Inv, WroteOK
  <2>4. Onward(p.id, "update")
    BY <1>3, <2>1, <2>2, <2>3 DEF Onward, Sound, Steps, Over, Well, Written
  <2> QED BY <1>1, <1>5, <2>4, LearnsOK
<1> DEFINE o == [id |-> got, name |-> task.name, tag |-> None, value |-> task.value]
<1>6. CASE Update(o, "changed")
  <2>1. Fits(o) => got \in Ids /\ got \in named
    BY <1>1, <1>2, ObjectsAssumption DEF Fits, Inv, TypeOK, NamedOK, Objects
  <2>2. Fits(o) => o \in Objects(task.module)
    BY <1>1, <1>2, <2>1 DEF Objects, TaskShape, Named, Tagged, Plain
  <2>3. Version(task, newest) = task.value
    BY <1>1, <1>2, VersionIsValue DEF TaskShape, TypeOK, Plain
  <2>4. Meets(task, o, newest) BY <1>2, <2>3 DEF Meets
  <2> QED BY <1>2, <1>3, <1>6, <2>1, <2>2, <2>4, UpdateOK
<1>7. CASE Read("failed") BY <1>1, <1>7, FailsOK, LearnsOK DEF Read
<1> QED BY <1>4, <1>5, <1>6, <1>7 DEF PresentDatasource, At

LEMMA AbsentDatasourceOK == ASSUME Inv, AbsentDatasource PROVE Running /\ Outcome
BY DeleteNamedOK DEF AbsentDatasource, At, Running, Over, Well

LEMMA PresentDashboardOK == ASSUME Inv, PresentDashboard PROVE Running /\ Outcome
<1>1. TypeOK /\ TaskShape(task) BY TaskIsShaped DEF Inv, TypeOK
<1>2. /\ Running /\ pc \notin Written /\ task \in Tasks
      /\ task.module = "dashboard" /\ task.state = "present"
  BY <1>1 DEF PresentDashboard, At, Running, Over, Well, Written, TypeOK
<1> SUFFICES Outcome BY <1>2
<1>3. ~Compares BY <1>2 DEF Compares
<1>4. CASE Create("changed", "failed") BY <1>1, <1>2, <1>4, CreateOK, FailsOK
<1>5. ASSUME NEW p \in Bearers(task, store),
             Update([p EXCEPT !.name = task.name, !.value = task.value], "changed")
      PROVE  Outcome
  <2> DEFINE o == [p EXCEPT !.name = task.name, !.value = task.value]
  <2>1. p \in Objects("dashboard") BY <1>1, <1>2, BearersAreThere DEF TypeOK
  <2>2. o \in Objects("dashboard") /\ o.id = p.id /\ o.value = task.value
    BY <1>1, <1>2, <2>1 DEF Objects, TaskShape, Named, Plain
  <2>3. o.id \in named BY <1>2, <2>2, BearerIsSeen
  <2>4. Version(task, newest) = task.value
    BY <1>1, <1>2, VersionIsValue DEF TaskShape, TypeOK, Plain
  <2>5. Meets(task, o, newest) BY <1>2, <2>2, <2>4 DEF Meets
  <2> QED BY <1>2, <1>3, <1>5, <2>2, <2>3, <2>5, UpdateOK
<1>6. CASE Read("failed") BY <1>1, <1>6, FailsOK, LearnsOK DEF Read
<1> QED BY <1>4, <1>5, <1>6 DEF PresentDashboard

LEMMA AbsentDashboardOK == ASSUME Inv, AbsentDashboard PROVE Running /\ Outcome
<1>1. TypeOK BY DEF Inv
<1>2. Running /\ task.state = "absent" BY DEF AbsentDashboard, At, Running, Over, Well
<1>3. CASE Ends("failed")
  <2>1. Kept BY <1>1, <1>3, FailsOK DEF Ends, Kept, Onward
  <2> QED BY <1>1, <1>2, <1>3, <2>1 DEF Ends, Outcome, TypeOK
<1> QED BY <1>2, <1>3, DeleteNamedOK DEF AbsentDashboard

-----------------------------------------------------------------------------
(* alert_contact_point and alert_notification_policy *)

LEMMA PresentContactPointOK == ASSUME Inv, PresentContactPoint PROVE Running /\ Outcome
<1>1. TypeOK /\ TaskShape(task) BY TaskIsShaped DEF Inv, TypeOK
<1>2. /\ Running /\ task \in Tasks
      /\ task.module = "contact" /\ task.state = "present"
      /\ pc # "readBack" => pc \notin Written
  BY <1>1 DEF PresentContactPoint, At, Running, Over, Well, Written, TypeOK
<1> SUFFICES Outcome BY <1>2
<1>3. Version(task, newest) = task.value
  BY <1>1, <1>2, VersionIsValue DEF TaskShape, TypeOK, Plain
<1>4. CASE pc = "begin" /\ Create("changed", "list")
  BY <1>2, <1>4, CreateOK, Further
<1>5. CASE pc = "begin" /\ Refused("list") BY <1>1, <1>2, <1>5, Further, RefusedOK
<1> DEFINE Same == \E o \in Bearers(task, store) : o.value = task.value
<1>6. CASE pc = "list" /\ Read(IF Same THEN "unchanged" ELSE "update")
  <2>1. Same <=> \E o \in Bearers(task, store) : Meets(task, o, newest)
    BY <1>2, <1>3 DEF Meets, Plain
  <2>2. CASE Same
    BY <1>1, <1>2, <1>6, <2>1, <2>2, MetIsDone, NothingToDo, LearnsOK DEF Read
  <2>3. CASE ~Same
    <3>1. lacked BY <1>2, <2>1, <2>3, NotMetIsLacking DEF Met
    <3> QED BY <1>1, <1>2, <1>6, <2>3, <3>1, Further, LearnsOK DEF Read
  <2> QED BY <2>2, <2>3
<1> DEFINE o == [id |-> task.id, name |-> None, tag |-> None, value |-> task.value]
<1>7. CASE pc = "update" /\ Update(o, "readBack")
  <2>1. o \in Objects(task.module)
    BY <1>1, <1>2 DEF Objects, TaskShape, Named, Tagged, Plain
  <2>2. Meets(task, o, newest) BY <1>2, <1>3 DEF Meets
  <2>3. Fits(o) => o.id \in named BY <1>2, Bears, BearerIsSeen DEF Fits
  <2>4. Compares => lacked BY <1>7 DEF Inv, LackedOK
  <2> QED BY <1>2, <1>7, <2>1, <2>2, <2>3, <2>4, UpdateOK
<1>8. CASE pc = "readBack" /\ (Read("changed") \/ Refused("changed"))
  <2>1. Onward(got, "changed")
    BY <1>1, <1>8 DEF Inv, TypeOK, WroteOK, Onward, Sound, Steps, Over, Well, Written
  <2> QED BY <1>1, <1>8, <2>1, LearnsOK, RefusedOK DEF Read
<1> QED BY <1>4, <1>5, <1>6, <1>7, <1>8 DEF PresentContactPoint, At

LEMMA NotificationPolicyOK == ASSUME Inv, NotificationPolicy PROVE Running /\ Outcome
<1>1. TypeOK /\ TaskShape(task) BY TaskIsShaped DEF Inv, TypeOK
<1>2. /\ Running /\ pc \notin Written /\ task \in Tasks
      /\ task.module = "policy" /\ task.state = "present"
  BY <1>1 DEF NotificationPolicy, At, Running, Over, Well, Written, TypeOK
<1> SUFFICES Outcome BY <1>2
<1>3. Version(task, newest) = task.value /\ task.id = None
  BY <1>1, <1>2, VersionIsValue DEF TaskShape, TypeOK, Plain
<1>4. Bearers(task, store) = store
  BY <1>1, <1>2, <1>3 DEF Bearers, TypeOK, Objects
<1> DEFINE Same == \E o \in store : o.value = task.value
<1>5. CASE Read(IF Same THEN "unchanged" ELSE "update")
  <2>1. Same <=> \E o \in Bearers(task, store) : Meets(task, o, newest)
    BY <1>2, <1>3, <1>4 DEF Meets, Plain
  <2>2. CASE Same
    BY <1>1, <1>2, <1>5, <2>1, <2>2, MetIsDone, NothingToDo, LearnsOK DEF Read
  <2>3. CASE ~Same
    <3>1. lacked BY <1>2, <2>1, <2>3, NotMetIsLacking DEF Met
    <3> QED BY <1>1, <1>2, <1>5, <2>3, <3>1, Further, LearnsOK DEF Read
  <2> QED BY <2>2, <2>3
<1> DEFINE o == [id |-> None, name |-> None, tag |-> task.tag, value |-> task.value]
<1>6. CASE pc = "update" /\ Update(o, "changed")
  <2>1. o \in Objects(task.module)
    BY <1>1, <1>2 DEF Objects, TaskShape, Named, Tagged, Plain
  <2>2. Meets(task, o, newest) BY <1>2, <1>3 DEF Meets
  <2>3. Fits(o) => o.id \in named BY <1>2, <1>3, Bears, BearerIsSeen DEF Fits
  <2>4. Compares => lacked BY <1>6 DEF Inv, LackedOK
  <2> QED BY <1>2, <1>6, <2>1, <2>2, <2>3, <2>4, UpdateOK
<1> QED BY <1>5, <1>6 DEF NotificationPolicy, At

-----------------------------------------------------------------------------
(* cloud_stack *)

LEMMA StackDetailsOK ==
    ASSUME Inv, NEW st \in {"changed", "unchanged"}, Onward(got, st), StackDetails(st)
    PROVE  Outcome
<1>1. TypeOK BY DEF Inv
<1> QED BY <1>1, FailsOK, LearnsOK, RefusedOK DEF StackDetails, Read

LEMMA OwnStackIsSeen ==
    ASSUME Inv, Running, task.module = "stack", NEW o \in store, OwnStack(o)
    PROVE  /\ o \in Bearers(task, store) /\ o.id \in named /\ o.id \in Ids
           /\ task.state = "absent" => lacked
           /\ \A p \in Bearers(task, store) : p = o
<1>1. TypeOK /\ task \in Tasks BY DEF Inv, TypeOK
<1>2. o \in Bearers(task, store) BY <1>1, Bears DEF OwnStack
<1>3. o.id \in Ids BY <1>1 DEF TypeOK, Objects
<1>4. \A p \in Bearers(task, store) : p = o
  BY <1>1 DEF TypeOK, Legal, Clash, Named, Bearers, OwnStack
<1> QED BY <1>2, <1>3, <1>4, BearerIsSeen

LEMMA PresentStackOK == ASSUME Inv, PresentStack PROVE Running /\ Outcome
<1>1. TypeOK /\ TaskShape(task) BY TaskIsShaped DEF Inv, TypeOK
<1>2. /\ Running /\ task \in Tasks
      /\ task.module = "stack" /\ task.state = "present"
      /\ pc # "made" => pc \notin Written
  BY <1>1 DEF PresentStack, At, Running, Over, Well, Written, TypeOK
<1> SUFFICES Outcome BY <1>2
<1>3. Version(task, newest) = task.value
  BY <1>1, <1>2, VersionIsValue DEF TaskShape, TypeOK, Plain
<1>4. ASSUME NEW o \in Creatable, Writes(o.id, Put(store, o), "made")
      PROVE  Outcome
  <2>1. /\ Good(Put(store, o)) /\ Bearers(task, store) = {} /\ o.id \in Ids
        /\ o.id \in BearerIds(task, Put(store, o))
    BY <1>1, <1>2, <1>4, GoodCreate
  <2>2. lacked BY <1>2, <2>1, NotMetIsLacking DEF Met
  <2> QED BY <1>1, <1>4, <2>1, <2>2, WritesOK DEF Written
<1>5. CASE pc = "begin" /\ Read("list") BY <1>1, <1>2, <1>5, Further, LearnsOK DEF Read
<1>6. ASSUME pc = "list", NEW o \in store, OwnStack(o),
             Learns(o.id, IF o.value = task.value THEN "same" ELSE "update")
      PROVE  Outcome
  <2>1. /\ o \in Bearers(task, store) /\ o.id \in named /\ o.id \in Ids
        /\ \A p \in Bearers(task, store) : p = o
    BY <1>2, <1>6, OwnStackIsSeen
  <2>2. ~wrote BY <1>2, <1>6 DEF Inv, WroteOK
  <2>3. CASE o.value = task.value
    <3>1. Meets(task, o, newest) BY <1>2, <1>3, <2>3 DEF Meets
    <3>2. Done(task, store, newest, named) BY <1>2, <2>1, <3>1, MetIsDone
    <3>3. Onward(o.id, "same")
      BY <2>1, <2>2, <3>2 DEF Onward, Sound, Steps, Over, Well, Written
    <3> QED BY <1>1, <1>6, <2>3, <3>3, LearnsOK
  <2>4. CASE o.value # task.value
    <3>1. ~Meets(task, o, newest) BY <1>2, <1>3, <2>4 DEF Meets, Plain
    <3>2. lacked BY <1>2, <2>1, <3>1, NotMetIsLacking DEF Met
    <3>3. Onward(o.id, "update")
      BY <2>1, <2>2, <3>2 DEF Onward, Sound, Steps, Over, Well, Written
    <3> QED BY <1>1, <1>6, <2>4, <3>3, LearnsOK
  <2> QED BY <2>3, <2>4
<1>7. ASSUME pc = "update", NEW p \in store, p.id = got,
             Update([p EXCEPT !.value = task.value], "made")
      PROVE  Outcome
  <2> DEFINE o == [p EXCEPT !.value = task.value]
  <2>1. p \in Objects("stack") BY <1>1, <1>2 DEF TypeOK
  <2>2. o \in Objects("stack") /\ o.id = p.id /\ o.value = task.value
    BY <1>1, <1>2, <2>1 DEF Objects, TaskShape, Plain
  <2>3. o.id \in named
    BY <1>2, <1>7, <2>1, <2>2, ObjectsAssumption DEF Inv, NamedOK, Objects
  <2>4. Meets(task, o, newest) BY <1>2, <1>3, <2>2 DEF Meets
  <2>5. Compares => lacked BY <1>7 DEF Inv, LackedOK
  <2> QED BY <1>2, <1>7, <2>2, <2>3, <2>4, <2>5, UpdateOK
<1>8. CASE pc = "made" /\ StackDetails("changed")
  <2>1. Onward(got, "changed")
    BY <1>1, <1>8 DEF Inv, TypeOK, WroteOK, Onward, Sound, Steps, Over, Well, Written
  <2> QED BY <1>8, <2>1, StackDetailsOK
<1>9. CASE pc = "same" /\ StackDetails("unchanged")
  <2>1. Onward(got, "unchanged")
    BY <1>1, <1>2, <1>9
    DEF Inv, TypeOK, WroteOK, Nothing, Onward, Sound, Steps, Over, Well, Written
  <2> QED BY <1>9, <2>1, StackDetailsOK
<1>10. CASE Read("failed") BY <1>1, <1>10, FailsOK, LearnsOK DEF Read
<1> QED BY <1>4, <1>5, <1>6, <1>7, <1>8, <1>9, <1>10 DEF PresentStack, At

LEMMA AbsentStackOK == ASSUME Inv, AbsentStack PROVE Running /\ Outcome
<1>1. TypeOK BY DEF Inv
<1>2. /\ Running /\ pc \notin Written
      /\ task.module = "stack" /\ task.state = "absent"
  BY DEF AbsentStack, At, Running, Over, Well, Written
<1> SUFFICES Outcome BY <1>2
<1>3. Onward(got, "delete") BY <1>2, Further
<1>4. ASSUME NEW o \in store, OwnStack(o), Learns(o.id, "delete")
      PROVE  Outcome
  <2>1. o.id \in named /\ o.id \in Ids BY <1>2, <1>4, OwnStackIsSeen
  <2>2. Onward(o.id, "delete")
    BY <1>3, <2>1 DEF Onward, Sound, Over, Well
  <2> QED BY <1>1, <1>4, <2>2, LearnsOK
<1>5. ASSUME NEW o \in store, OwnStack(o), NEW st \in {"changed", "failed"},
             Write(store \ {o}, st)
      PROVE  Outcome
  <2>1. o.id \in named /\ lacked BY <1>2, <1>5, OwnStackIsSeen
  <2>2. store \ {o} = Without(store, o.id)
    BY <1>1, <1>5 DEF TypeOK, Legal, Clash, Without
  <2>3. Good(store \ {o}) BY <1>1, <1>2, <2>1, <2>2, GoodRemoval
  <2> QED BY <1>1, <1>5, <2>1, <2>3, WritesOK DEF TypeOK, Write, Over, Well
<1>6. CASE Read("delete") \/ Refused("delete")
  BY <1>1, <1>3, <1>6, LearnsOK, RefusedOK DEF Read
<1>7. CASE Read("failed") BY <1>1, <1>7, FailsOK, LearnsOK DEF Read
<1> QED BY <1>4, <1>5, <1>6, <1>7 DEF AbsentStack

-----------------------------------------------------------------------------
(* cloud_plugin and cloud_api_key *)

LEMMA PresentPluginOK == ASSUME Inv, PresentPlugin PROVE Running /\ Outcome
<1>1. TypeOK /\ TaskShape(task) BY TaskIsShaped DEF Inv, TypeOK
<1>2. /\ Running /\ pc \notin Written /\ task \in Tasks
      /\ task.module = "plugin" /\ task.state = "present"
  BY <1>1 DEF PresentPlugin, At, Running, Over, Well, Written, TypeOK
<1> SUFFICES Outcome BY <1>2
<1>3. InstalledIsWanted <=> \E o \in Bearers(task, store) : Meets(task, o, newest)
  BY <1>2 DEF InstalledIsWanted, Meets, Plain
<1>4. CASE Create("changed", "get") BY <1>2, <1>4, CreateOK, Further
<1>5. CASE InstalledIsWanted /\ Read("unchanged")
  BY <1>1, <1>2, <1>3, <1>5, MetIsDone, NothingToDo, LearnsOK DEF Read
<1>6. CASE (~InstalledIsWanted \/ task.value = Latest) /\ Read("update")
  <2>1. Compares => lacked
    BY <1>2, <1>3, <1>6, NotMetIsLacking DEF Compares, Met
  <2> QED BY <1>1, <1>2, <1>6, <2>1, Further, LearnsOK DEF Read
<1> DEFINE o == [id |-> task.id, name |-> None, tag |-> None,
                 value |-> Version(task, newest)]
<1>7. CASE pc = "update" /\ Update(o, "changed")
  <2>1. Version(task, newest) \in Values
    BY <1>1, <1>2, VersionIsValue DEF TypeOK, Plain
  <2>2. o \in Objects(task.module)
    BY <1>1, <1>2, <2>1 DEF Objects, TaskShape, Named, Tagged, Plain
  <2>3. Meets(task, o, newest) BY <1>2 DEF Meets
  <2>4. Fits(o) => o.id \in named BY <1>2, Bears, BearerIsSeen DEF Fits
  <2>5. Compares => lacked BY <1>7 DEF Inv, LackedOK
  <2> QED BY <1>2, <1>7, <2>2, <2>3, <2>4, <2>5, UpdateOK
<1>8. CASE Read("failed") BY <1>1, <1>8, FailsOK, LearnsOK DEF Read
<1> QED BY <1>4, <1>5, <1>6, <1>7, <1>8 DEF PresentPlugin, At

LEMMA AbsentPluginOK == ASSUME Inv, AbsentPlugin PROVE Running /\ Outcome
BY DeleteNamedOK DEF AbsentPlugin, At, Running, Over, Well

\* The name is taken only by a key that bears it.
LEMMA PresentKeyOK == ASSUME Inv, PresentKey PROVE Running /\ Outcome
<1>1. TypeOK /\ TaskShape(task) BY TaskIsShaped DEF Inv, TypeOK
<1>2. /\ Running /\ pc \notin Written /\ task \in Tasks
      /\ task.module = "key" /\ task.state = "present"
      /\ Create("changed", IF task.strict THEN "failed" ELSE "unchanged")
  BY <1>1 DEF PresentKey, At, Running, Over, Well, Written, TypeOK
<1> DEFINE o == [id |-> task.id, name |-> None, tag |-> None, value |-> None]
<1>3. ASSUME Creatable = {} PROVE Done(task, store, newest, named)
  <2>1. o \in Objects("key") BY <1>1, <1>2 DEF Objects, TaskShape, Named, Tagged, Plain
  <2>2. task.name = None /\ task.tag = None /\ task.value = None
    BY <1>1, <1>2 DEF TaskShape, Named, Tagged, Plain
  <2>3. Version(task, newest) = None BY <2>2, ObjectsAssumption DEF Version
  <2>4. PICK p \in store : Clash("key", o, p)
    BY <1>2, <1>3, <2>1, <2>2, <2>3 DEF Creatable
  <2>5. p.id = task.id BY <2>4 DEF Clash, Named
  <2>6. p \in Bearers(task, store) BY <1>2, <2>5, Bears
  <2>7. Meets(task, p, newest) BY <1>2 DEF Meets, Plain
  <2> QED BY <1>2, <2>6, <2>7, MetIsDone
<1>4. Creatable = {} => Onward(got, "unchanged") BY <1>2, <1>3, NothingToDo
<1>5. Creatable = {} => Onward(got, IF task.strict THEN "failed" ELSE "unchanged")
  BY <1>1, <1>4, FailsOK
<1> QED BY <1>2, <1>5, CreateOK

LEMMA AbsentKeyOK == ASSUME Inv, AbsentKey PROVE Running /\ Outcome
BY DeleteNamedOK DEF AbsentKey, At, Running, Over, Well

-----------------------------------------------------------------------------
(* The invariant is inductive *)

LEMMA StepOutcome == ASSUME Inv, Step PROVE Running /\ Outcome
<1>1. CASE GrafanaStep
  BY <1>1, GetUserOK, PresentUserOK, AbsentUserOK, PasswordUserOK, PresentFolderOK,
     AbsentFolderOK, PresentDatasourceOK, AbsentDatasourceOK, PresentDashboardOK,
     AbsentDashboardOK, PresentContactPointOK, AbsentContactPointOK, NotificationPolicyOK
  DEF GrafanaStep
<1>2. CASE CloudStep
  BY <1>2, PresentStackOK, AbsentStackOK, PresentPluginOK, AbsentPluginOK, PresentKeyOK,
     AbsentKeyOK
  DEF CloudStep
<1> QED BY <1>1, <1>2 DEF Step

LEMMA InitInv == ASSUME Init PROVE Inv
<1>1. TypeOK
  <2>1. store \subseteq Objects(task.module) /\ Legal(task.module, store)
    BY DEF Init
  <2>2. moves \in 0..MaxMoves /\ faults \in 0..MaxFaults
    BY BoundsAssumption DEF Init
  <2>3. /\ task \in Tasks /\ newest \in Values /\ got = None /\ named = {} /\ pc = "idle"
        /\ held = FALSE /\ lacked = FALSE /\ wrote = FALSE /\ calm = FALSE
    BY Zenon DEF Init
  <2>4. held \in BOOLEAN /\ lacked \in BOOLEAN /\ wrote \in BOOLEAN BY <2>3
  <2>5. calm \in BOOLEAN /\ got \in Ids \union {None} /\ named \subseteq Ids \union {None}
    BY <2>3
  <2> QED BY <2>1, <2>2, <2>3, <2>4, <2>5 DEF TypeOK
<1>2. NamedOK /\ WroteOK /\ LackedOK
  BY DEF Init, NamedOK, WroteOK, LackedOK, Running, Nothing, Written, NoNeedlessWrite
<1> QED BY <1>1, <1>2 DEF Inv

\* The ids of bearers are ids.
LEMMA BearerIdsAreIds ==
    ASSUME NEW t, NEW s, s \subseteq Objects(t.module)
    PROVE  BearerIds(t, s) \subseteq Ids \union {None}
BY BearersAreThere DEF BearerIds, Objects

LEMMA BeginInv == ASSUME Inv, Begin PROVE Inv'
<1>1. TypeOK BY DEF Inv
<1>2. TypeOK'
  <2>1. named' \subseteq Ids \union {None} BY <1>1, BearerIdsAreIds DEF TypeOK, Begin
  <2>2. held' \in BOOLEAN /\ lacked' \in BOOLEAN /\ wrote' \in BOOLEAN
    <3>1. Done(task, store, newest, named') \in BOOLEAN BY Zenon DEF Done
    <3>2. Met(task, store, newest) \in BOOLEAN BY Zenon DEF Met
    <3>3. wrote' = FALSE BY Zenon DEF Begin
    <3> QED BY <3>1, <3>2, <3>3, Zenon DEF Begin
  <2>3. calm' \in BOOLEAN BY DEF Begin
  <2>4. pc' = "begin" /\ got' = None BY DEF Begin
  <2>5. UNCHANGED <<task, store, newest, moves, faults>> BY DEF Begin
  <2> QED BY <1>1, <2>1, <2>2, <2>3, <2>4, <2>5 DEF TypeOK
<1>3. NamedOK' BY DEF Begin, NamedOK
<1>4. WroteOK' BY DEF Begin, WroteOK, Written, Nothing
<1>5. LackedOK' BY DEF Begin, LackedOK, NoNeedlessWrite
<1> QED BY <1>2, <1>3, <1>4, <1>5 DEF Inv

LEMMA OthersInv == ASSUME Inv, Others PROVE Inv'
<1>1. TypeOK /\ NamedOK /\ WroteOK /\ LackedOK BY DEF Inv
<1>2. UNCHANGED <<task, pc, got, wrote, faults>> /\ calm' = FALSE BY DEF Others
<1>3. /\ named' = named \union BearerIds(task, store')
      /\ held' = (held \/ Done(task, store', newest', named'))
      /\ lacked' = (lacked \/ ~Met(task, store', newest'))
  BY Zenon DEF Others, Observe
<1>4. TypeOK'
  <2>1. store' \subseteq Objects(task.module) /\ Legal(task.module, store')
    BY <1>1 DEF Others, TypeOK, Put
  <2>2. newest' \in Values BY <1>1 DEF Others, TypeOK
  <2>3. moves' \in 0..MaxMoves BY <1>1, BoundsAssumption DEF Others, TypeOK
  <2>4. named' \subseteq Ids \union {None} BY <1>1, <1>3, <2>1, BearerIdsAreIds DEF TypeOK
  <2>5. held' \in BOOLEAN /\ lacked' \in BOOLEAN BY <1>1, <1>3, Zenon DEF TypeOK
  <2> QED BY <1>1, <1>2, <2>1, <2>2, <2>3, <2>4, <2>5 DEF TypeOK
<1>5. NamedOK' BY <1>1, <1>2, <1>3 DEF NamedOK, Running
<1>6. WroteOK' BY <1>1, <1>2, <1>3 DEF WroteOK, Running, Nothing
<1>7. LackedOK'
  BY <1>1, <1>2, <1>3 DEF LackedOK, Running, NoNeedlessWrite, Compares
<1> QED BY <1>4, <1>5, <1>6, <1>7 DEF Inv

LEMMA NextInv == ASSUME Inv, [Next]_vars PROVE Inv'
<1>1. CASE Begin BY <1>1, BeginInv
<1>2. CASE Others BY <1>2, OthersInv
<1>3. CASE Step BY <1>3, StepOutcome, OutcomeObserved DEF Step
<1>4. CASE UNCHANGED vars
  BY <1>4 DEF vars, Inv, TypeOK, NamedOK, WroteOK, LackedOK, Running, Nothing,
              NoNeedlessWrite, Compares, Met, Bearers, BearerIds, Legal
<1> QED BY <1>1, <1>2, <1>3, <1>4 DEF Next

LEMMA Invariance == Spec => []Inv
<1>1. Init => Inv BY InitInv
<1>2. Inv /\ [Next]_vars => Inv' BY NextInv
<1> QED BY <1>1, <1>2, PTL DEF Spec

\* Every variable has its type, and the server keeps ids, names and emails
\* unique, whatever the modules and the other clients do.
THEOREM TypeCorrect == Spec => []TypeOK
<1>1. Inv => TypeOK BY DEF Inv
<1> QED BY <1>1, Invariance, PTL

\* A run of a module that compares before it changes something changes the
\* server only if, at some moment of it, the server was not as the task asks.
THEOREM NoNeedlessWrites == Spec => []NoNeedlessWrite
<1>1. Inv => NoNeedlessWrite BY DEF Inv, LackedOK
<1> QED BY <1>1, Invariance, PTL

-----------------------------------------------------------------------------
(* The modules keep the promise *)

\* PlayTask says the same things of objects.
LEMMA SameWords ==
    /\ \A k : P!Objects(k) = Objects(k)
    /\ \A t, s : P!BearerIds(t, s) = BearerIds(t, s)
    /\ \A t, s, n, i : P!Done(t, s, n, i) <=> Done(t, s, n, i)
    /\ P!Tasks = Tasks
<1>1. \A k : P!Objects(k) = Objects(k)
  BY DEF P!Objects, Objects, P!Named, Named, P!Tagged, Tagged, P!Plain, Plain
<1>2. \A t, s : P!Bearers(t, s) = Bearers(t, s) BY DEF P!Bearers, Bearers
<1>3. \A t, s : P!BearerIds(t, s) = BearerIds(t, s) BY <1>2 DEF P!BearerIds, BearerIds
<1>4. \A t, o, n : P!Meets(t, o, n) <=> Meets(t, o, n)
  BY DEF P!Meets, Meets, P!Version, Version, P!Plain, Plain
<1>5. \A t, s, n, i : P!Done(t, s, n, i) <=> Done(t, s, n, i)
  BY <1>2, <1>4 DEF P!Done, Done
<1>6. P!Tasks = Tasks
  BY DEF P!Tasks, Tasks, P!Task, Task, P!UserTasks, UserTasks, P!FolderTasks, FolderTasks,
         P!DatasourceTasks, DatasourceTasks, P!DashboardTasks, DashboardTasks,
         P!ContactTasks, ContactTasks, P!PolicyTasks, PolicyTasks,
         P!StackTasks, StackTasks, P!PluginTasks, PluginTasks, P!KeyTasks, KeyTasks
<1> QED BY <1>1, <1>3, <1>5, <1>6

LEMMA PromiseInit == ASSUME Init PROVE P!Init
<1>1. TypeOK BY InitInv DEF Inv
<1> QED BY <1>1, SameWords DEF Init, TypeOK, P!Init

LEMMA PromiseStart == ASSUME Inv, Begin PROVE P!Start
BY SameWords DEF Begin, P!Start, Over, Well

LEMMA PromiseElsewhere == ASSUME Inv, Others PROVE P!Elsewhere
<1>1. store' \subseteq Objects(task.module) /\ newest' \in Values
  BY OthersInv DEF Inv, TypeOK, Others
<1>2. /\ named' = named \union P!BearerIds(task, store')
      /\ held' = (held \/ P!Done(task, store', newest', named'))
  BY SameWords DEF Others, Observe
<1> QED BY <1>1, <1>2, SameWords DEF Others, P!Elsewhere, P!Observe

LEMMA PromiseWork == ASSUME Inv, Step PROVE P!Work
<1>1. Running /\ Outcome /\ TypeOK /\ NamedOK BY StepOutcome DEF Inv
<1>2. /\ named' = named \union BearerIds(task, store')
      /\ held' = (held \/ Done(task, store', newest, named'))
      /\ UNCHANGED <<task, newest>>
  BY DEF Step, Observe
<1>3. P!Observe BY <1>2, SameWords DEF P!Observe
<1>4. CASE Kept
  <2>1. UNCHANGED <<store, wrote>> /\ named' = named
    BY <1>1, <1>2, <1>4 DEF Kept, NamedOK
  <2>2. Sound(got', pc', wrote', held') BY <1>2, <1>4, <2>1, Zenon DEF Kept
  <2>3. P!Report BY <2>2 DEF Sound, Steps, P!Report, Over, Well
  <2> QED BY <1>1, <1>2, <1>3, <2>1, <2>3 DEF P!Work, Running
<1>5. CASE Changed
  <2>1. /\ wrote' = TRUE /\ store' \subseteq Objects(task.module)
        /\ \A o \in store \ store' : o.id \in named
        /\ Done(task, store', newest, named')
    BY <1>2, <1>5 DEF Changed, Good
  <2>2. P!Change BY <2>1, SameWords DEF P!Change
  <2>3. held' /\ wrote' BY <1>2, <2>1
  <2>4. P!Report BY <1>5, <2>3 DEF Changed, P!Report, Over, Well, Written
  <2> QED BY <1>1, <1>2, <1>3, <2>2, <2>4 DEF P!Work, Running
<1> QED BY <1>1, <1>4, <1>5 DEF Outcome

\* However the play is run and whatever other clients do, a task reports
\* success only when what it asks was done at some moment of the run, says
\* `changed` only for what it changed itself, and replaces or removes only
\* objects that bore the task's name.
THEOREM PromiseKept == Spec => Promise
<1>1. Init => P!Init BY PromiseInit
<1>2. Inv /\ [Next]_vars => [P!Next]_(P!vars)
  <2> SUFFICES ASSUME Inv, [Next]_vars PROVE [P!Next]_(P!vars) OBVIOUS
  <2>1. CASE Begin BY <2>1, PromiseStart DEF P!Next
  <2>2. CASE Step BY <2>2, PromiseWork DEF P!Next
  <2>3. CASE Others BY <2>3, PromiseElsewhere DEF P!Next
  <2>4. CASE UNCHANGED vars BY <2>4 DEF vars, P!vars
  <2> QED BY <2>1, <2>2, <2>3, <2>4 DEF Next
<1> QED BY <1>1, <1>2, Invariance, PTL DEF Spec, Promise, P!Spec
=============================================================================
