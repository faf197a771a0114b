---------------------------- MODULE TrackerProofs ----------------------------
(***************************************************************************)
(* Theorems about Tracker, for any number of items and issues, and any     *)
(* number of interrupted syncs and of edits.                               *)
(***************************************************************************)
EXTENDS Tracker, FiniteSetTheorems, TLAPS

-----------------------------------------------------------------------------
(* The inductive invariant *)

Listing == {"list_issues", "list_pulls"}
Loops   == {"items", "closed", "mirror"}
Second  == {"list_tracking", "mirror", "done"}

OnBoard(k) == row[k] # OffBoard

\* The issue the sync works on for item i.
Target(i) == IF snap[i].id # 0 THEN snap[i].id ELSE mine

\* A row belongs to an item and is numbered before it is called open, and what
\* a maintainer decided is on the board.
RowsOK ==
    \A k \in Issues :
        /\ OnBoard(k) => issue[k].item # 0
        /\ OnBoard(k) /\ row[k].state = "open" => row[k].num
        /\ yours[k] # "-" => OnBoard(k) /\ row[k].decision = yours[k]

\* What was read is on the board still, with its number and, unless somebody
\* triaged it since, its decision.
SnapOK ==
    \A i \in Items :
        LET k == snap[i].id
            r == snap[i].row
        IN  /\ phase = "idle" => k = 0
            /\ k # 0 =>
                  /\ r # OffBoard /\ k \in RowsOf(i)
                  /\ r.num => row[k].num
                  /\ phase \in Listing \union {"items"} /\ r.state = "open"
                        => row[k].state = "open"
                  /\ yours[k] # "-" => r.decision = yours[k]

\* The issue a sync opened is for the item it is at.
MineOK ==
    /\ phase \notin Loops => at = 1 /\ step = 1
    /\ mine # 0 =>
          /\ phase = "items" /\ step > 1
          /\ at \in listed /\ snap[at].id = 0
          /\ mine \in Issues /\ issue[mine].item = at /\ yours[mine] = "-"

\* What a call has done once it was made.
Effect(call) ==
    LET k == Target(at)
    IN  /\ call = "create" => mine # 0
        /\ call # "create" => k # 0 /\ OnBoard(k)
        /\ call = "Upstream" => row[k].num
        /\ call = "Upstream_state" => phase = "items" /\ row[k].state = "open"
        /\ call = "closed" => phase = "closed" /\ row[k].state # "open"
        /\ call \in {"close", "reopen", "Status"} => phase = "mirror"
        /\ call = "close" => Settled(snap[at].row.decision) /\ (k \in touched \/ ~issue[k].open)
        /\ call = "reopen" => ~Settled(snap[at].row.decision) /\ (k \in touched \/ issue[k].open)
        /\ call = "Status" => row[k].status = StatusFor(snap[at].row.decision)

\* The calls before this one were made.
CallsOK ==
    /\ step > 1 => step - 1 <= Len(Calls(at))
    /\ \A j \in 1..(step - 1) : Effect(Calls(at)[j])

\* The loop over the items has not reached the call that step names for item i.
Before(i, call) ==
    \/ phase \in Listing
    \/ phase = "items" /\ (i > at \/ (i = at /\ step <= call))

\* An item that was not on the board is not until the sync adds it.
AbsentOK ==
    \A i \in Items :
        snap[i].id = 0 /\ Before(i, 2) => RowsOf(i) \subseteq adopted

OneRow ==
    \A k, l \in Issues \ adopted :
        OnBoard(k) /\ OnBoard(l) /\ issue[k].item = issue[l].item => k = l

\* A row that was read without its number has none, nor has any other row of
\* its item, until the sync sets it.
UnnumberedOK ==
    \A i \in Items :
        /\ snap[i].id = 0 \/ ~snap[i].row.num
        /\ Before(i, IF snap[i].id = 0 THEN 3 ELSE 1)
        => \A k \in RowsOf(i) : ~row[k].num

OneNumber ==
    \A k, l \in Issues :
        /\ OnBoard(k) /\ row[k].num
        /\ OnBoard(l) /\ row[l].num
        /\ issue[k].item = issue[l].item
        => k = l

\* Items that are listed are on the board as open once the loop has passed them.
ListedOK ==
    \A i \in listed :
        \/ phase = "items" /\ i < at
        \/ phase \in {"closed", "reread"} \union Second
        => \E k \in RowsOf(i) : row[k].num /\ row[k].state = "open"

\* Before its loop is there, a row that should not be open was read as open.
StaleOK ==
    \A i \in Items : \A k \in RowsOf(i) :
        /\ \/ phase \in Listing
           \/ phase = "items" /\ i \notin listed
           \/ phase = "closed" /\ i \notin listed /\ i >= at
        /\ row[k].state = "open"
        => snap[i].id = k /\ snap[i].row.state = "open"

\* After it, none is.
ClosedOK ==
    \A i \in Items : \A k \in RowsOf(i) :
        /\ (phase = "closed" /\ i < at) \/ phase \in {"reread"} \union Second
        /\ row[k].state = "open"
        => i \in listed

\* What the mirror does not change is as it was read, unless somebody touched it.
MirrorOK ==
    \A i \in Items :
        LET k == snap[i].id
            r == snap[i].row
        IN  k # 0 /\ phase \in Second =>
                /\ row[k].status \in {r.status, StatusFor(r.decision)}
                /\ k \notin touched => row[k].decision = r.decision
                /\ phase # "list_tracking" /\ k \notin touched =>
                      issue[k].open \in {(k \in open), ~Settled(r.decision)}

\* And is what it should be once the loop has passed it.
MirroredOK ==
    \A i \in Items :
        LET k == snap[i].id
            r == snap[i].row
        IN  k # 0 /\ ((phase = "mirror" /\ i < at) \/ phase = "done") =>
                /\ k \notin touched => issue[k].open = ~Settled(r.decision)
                /\ StatusFor(r.decision) \in {"none", row[k].status}

Inv ==
    /\ TypeOK /\ RowsOK /\ SnapOK /\ MineOK /\ CallsOK
    /\ AbsentOK /\ OneRow /\ UnnumberedOK /\ OneNumber
    /\ ListedOK /\ StaleOK /\ ClosedOK /\ MirrorOK /\ MirroredOK

-----------------------------------------------------------------------------
(* The calls of an item *)

LEMMA NewRowIs ==
    /\ NewRow \in Row /\ NewRow # OffBoard
    /\ ~NewRow.num /\ NewRow.state = "-" /\ NewRow.decision = "-" /\ NewRow.status = "Todo"
  <1>1. NewRow \in Row
    BY DEF NewRow, Row, Decisions
  <1>2. NewRow # OffBoard
    BY <1>1, RowAssumption
  <1>3. ~NewRow.num /\ NewRow.state = "-" /\ NewRow.decision = "-" /\ NewRow.status = "Todo"
    BY DEF NewRow
  <1> QED
    BY <1>1, <1>2, <1>3

\* An item the board lacks.
LEMMA AddCalls ==
    /\ Len(Add) = 6
    /\ \A j \in 1..6 :
          /\ j = 1 => Add[j] = "create"
          /\ j = 2 => Add[j] = "add"
          /\ j = 3 => Add[j] = "Upstream"
          /\ j = 4 => Add[j] = "Kind"
          /\ j = 5 => Add[j] = "Upstream_state"
          /\ j = 6 => Add[j] = "Fork_decision"
  BY DEF Add

\* An item with a row that reads r.
LEMMA RefreshCalls ==
    ASSUME NEW r \in Row
    PROVE  /\ Len(Refresh(r)) \in 0..4
           /\ \A j \in 1..Len(Refresh(r)) :
                 \/ Refresh(r)[j] = "Upstream" /\ j = 1 /\ ~r.num
                 \/ Refresh(r)[j] = "Kind" /\ j = 2 /\ ~r.num
                 \/ Refresh(r)[j] = "Fork_decision" /\ j = 3 /\ ~r.num /\ r.decision = "-"
                 \/ /\ Refresh(r)[j] = "Upstream_state" /\ r.state # "open"
                    /\ ~r.num => j >= 3
           /\ ~r.num => Len(Refresh(r)) >= 1 /\ Refresh(r)[1] = "Upstream"
           /\ r.state # "open" =>
                 Len(Refresh(r)) >= 1 /\ Refresh(r)[Len(Refresh(r))] = "Upstream_state"
  <1>1. CASE r.num /\ r.state = "open"
    <2>1. Len(Refresh(r)) = 0
      BY <1>1 DEF Refresh, Only
    <2> QED
      BY <1>1, <2>1
  <1>2. CASE r.num /\ r.state # "open"
    <2>1. Len(Refresh(r)) = 1 /\ Refresh(r)[1] = "Upstream_state"
      BY <1>2 DEF Refresh, Only
    <2> QED
      BY <1>2, <2>1
  <1>3. CASE ~r.num /\ r.state = "open" /\ r.decision = "-"
    <2>1. /\ Len(Refresh(r)) = 3
          /\ Refresh(r)[1] = "Upstream"
          /\ Refresh(r)[2] = "Kind"
          /\ Refresh(r)[3] = "Fork_decision"
      BY <1>3 DEF Refresh, Repair, Only
    <2> QED
      BY <1>3, <2>1
  <1>4. CASE ~r.num /\ r.state = "open" /\ r.decision # "-"
    <2>1. Len(Refresh(r)) = 2 /\ Refresh(r)[1] = "Upstream" /\ Refresh(r)[2] = "Kind"
      BY <1>4 DEF Refresh, Repair, Only
    <2> QED
      BY <1>4, <2>1
  <1>5. CASE ~r.num /\ r.state # "open" /\ r.decision = "-"
    <2>1. /\ Len(Refresh(r)) = 4
          /\ Refresh(r)[1] = "Upstream"
          /\ Refresh(r)[2] = "Kind"
          /\ Refresh(r)[3] = "Fork_decision"
          /\ Refresh(r)[4] = "Upstream_state"
      BY <1>5 DEF Refresh, Repair, Only
    <2> QED
      BY <1>5, <2>1
  <1>6. CASE ~r.num /\ r.state # "open" /\ r.decision # "-"
    <2>1. /\ Len(Refresh(r)) = 3
          /\ Refresh(r)[1] = "Upstream"
          /\ Refresh(r)[2] = "Kind"
          /\ Refresh(r)[3] = "Upstream_state"
      BY <1>6 DEF Refresh, Repair, Only
    <2> QED
      BY <1>6, <2>1
  <1> QED
    BY <1>1, <1>2, <1>3, <1>4, <1>5, <1>6

\* The mirror, for a row that reads r and its issue k.
LEMMA MirrorCalls ==
    ASSUME NEW k, NEW r \in Row
    PROVE  /\ Len(Mirror(k, r)) \in 0..2
           /\ \A j \in 1..Len(Mirror(k, r)) :
                 \/ Mirror(k, r)[j] = "close" /\ Settled(r.decision)
                 \/ Mirror(k, r)[j] = "reopen" /\ ~Settled(r.decision)
                 \/ Mirror(k, r)[j] = "Status" /\ StatusFor(r.decision) \notin {"none", r.status}
           /\ Settled(r.decision) /\ k \in open =>
                 Len(Mirror(k, r)) >= 1 /\ Mirror(k, r)[1] = "close"
           /\ ~Settled(r.decision) /\ k \notin open =>
                 Len(Mirror(k, r)) >= 1 /\ Mirror(k, r)[1] = "reopen"
           /\ StatusFor(r.decision) \notin {"none", r.status} =>
                 Len(Mirror(k, r)) >= 1 /\ Mirror(k, r)[Len(Mirror(k, r))] = "Status"
  <1> DEFINE s == StatusFor(r.decision) \notin {"none", r.status}
             d == Settled(r.decision)
             o == k \in open
  <1>1. CASE d /\ o /\ s
    <2>1. Len(Mirror(k, r)) = 2 /\ Mirror(k, r)[1] = "close" /\ Mirror(k, r)[2] = "Status"
      BY <1>1 DEF Mirror, Only
    <2> QED
      BY <1>1, <2>1
  <1>2. CASE d /\ o /\ ~s
    <2>1. Len(Mirror(k, r)) = 1 /\ Mirror(k, r)[1] = "close"
      BY <1>2 DEF Mirror, Only
    <2> QED
      BY <1>2, <2>1
  <1>3. CASE ~d /\ ~o /\ s
    <2>1. Len(Mirror(k, r)) = 2 /\ Mirror(k, r)[1] = "reopen" /\ Mirror(k, r)[2] = "Status"
      BY <1>3 DEF Mirror, Only
    <2> QED
      BY <1>3, <2>1
  <1>4. CASE ~d /\ ~o /\ ~s
    <2>1. Len(Mirror(k, r)) = 1 /\ Mirror(k, r)[1] = "reopen"
      BY <1>4 DEF Mirror, Only
    <2> QED
      BY <1>4, <2>1
  <1>5. CASE (d <=> ~o) /\ s
    <2>1. Len(Mirror(k, r)) = 1 /\ Mirror(k, r)[1] = "Status"
      BY <1>5 DEF Mirror, Only
    <2> QED
      BY <1>5, <2>1
  <1>6. CASE (d <=> ~o) /\ ~s
    <2>1. Len(Mirror(k, r)) = 0
      BY <1>6 DEF Mirror, Only
    <2> QED
      BY <1>6, <2>1
  <1> QED
    BY <1>1, <1>2, <1>3, <1>4, <1>5, <1>6

\* The call that is made for item i, and when it is.
LEMMA CallIs ==
    ASSUME TypeOK, SnapOK, NEW i, NEW c, NEW k, Call(i, c, k)
    PROVE  /\ i = at /\ k = Target(at) /\ at \in Items
           /\ step \in 1..Len(Calls(at)) /\ step <= 6 /\ c = Calls(at)[step]
           /\ \/ /\ phase = "items" /\ at \in listed /\ snap[at].id = 0
                 /\ \/ c = "create" /\ step = 1
                    \/ c = "add" /\ step = 2
                    \/ c = "Upstream" /\ step = 3
                    \/ c = "Kind" /\ step = 4
                    \/ c = "Upstream_state" /\ step = 5
                    \/ c = "Fork_decision" /\ step = 6
              \/ /\ phase = "items" /\ at \in listed /\ snap[at].id # 0
                 /\ \/ c = "Upstream" /\ step = 1 /\ ~snap[at].row.num
                    \/ c = "Kind" /\ step = 2 /\ ~snap[at].row.num
                    \/ /\ c = "Fork_decision" /\ step = 3
                       /\ ~snap[at].row.num /\ snap[at].row.decision = "-"
                    \/ /\ c = "Upstream_state" /\ snap[at].row.state # "open"
                       /\ ~snap[at].row.num => step >= 3
              \/ /\ phase = "closed" /\ at \notin listed /\ snap[at].id # 0
                 /\ c = "closed" /\ step = 1
              \/ /\ phase = "mirror" /\ snap[at].id # 0
                 /\ \/ c = "close" /\ Settled(snap[at].row.decision)
                    \/ c = "reopen" /\ ~Settled(snap[at].row.decision)
                    \/ /\ c = "Status"
                       /\ StatusFor(snap[at].row.decision) \notin {"none", snap[at].row.status}
  <1> DEFINE r == snap[at].row
  <1>1. /\ i = at /\ k = Target(at) /\ at \in Items
        /\ step \in 1..7 /\ step <= Len(Calls(at)) /\ c = Calls(at)[step]
    BY DEF Call, Target, TypeOK
  <1>2. snap[at].id # 0 => r \in Row
    BY <1>1 DEF SnapOK, TypeOK
  <1>3. CASE phase = "items" /\ at \in listed /\ snap[at].id = 0
    <2>1. Calls(at) = Add
      BY <1>3 DEF Calls
    <2> QED
      BY <1>1, <1>3, <2>1, AddCalls
  <1>4. CASE phase = "items" /\ at \in listed /\ snap[at].id # 0
    <2>1. Calls(at) = Refresh(r)
      BY <1>4 DEF Calls
    <2> QED
      BY <1>1, <1>2, <1>4, <2>1, RefreshCalls
  <1>5. CASE phase = "closed" /\ snap[at].id # 0
    <2>1. Calls(at) = Only(r.state = "open" /\ at \notin listed, "closed")
      BY <1>5 DEF Calls
    <2> QED
      BY <1>1, <1>5, <2>1 DEF Only
  <1>6. CASE phase = "mirror" /\ snap[at].id # 0
    <2>1. Calls(at) = Mirror(snap[at].id, r)
      BY <1>6 DEF Calls
    <2> QED
      BY <1>1, <1>2, <1>6, <2>1, MirrorCalls
  <1>7. CASE /\ ~(phase = "items" /\ at \in listed)
             /\ phase \in {"closed", "mirror"} => snap[at].id = 0
    <2>1. Calls(at) = <<>>
      BY <1>7 DEF Calls
    <2> QED
      BY <1>1, <2>1
  <1> QED
    BY <1>3, <1>4, <1>5, <1>6, <1>7

\* The calls before one that adds nothing have put its issue on the board.
LEMMA TargetIsThere ==
    ASSUME Inv, NEW i, NEW c, NEW k, Call(i, c, k)
    PROVE  /\ c = "add" => k = mine /\ mine # 0
           /\ c \notin {"create", "add"} => k \in Issues /\ OnBoard(k) /\ issue[k].item = at
  <1> USE DEF Inv
  <1>1. CASE snap[at].id # 0
    BY <1>1, CallIs DEF SnapOK, RowsOf, OnBoard, Target
  <1>2. CASE snap[at].id = 0
    <2>1. k = mine
      BY <1>2, CallIs DEF Target
    <2>2. step >= 2 => mine # 0
      <3>1. ASSUME step >= 2 PROVE mine # 0
        <4>1. Calls(at) = Add
          BY <1>2, <3>1, CallIs DEF Calls
        <4>2. Effect(Calls(at)[1])
          BY <3>1, CallIs DEF CallsOK
        <4>3. Calls(at)[1] = "create"
          BY <4>1, AddCalls
        <4> QED
          BY <4>2, <4>3 DEF Effect
      <3> QED
        BY <3>1
    <2>3. step >= 3 => OnBoard(mine)
      <3>1. ASSUME step >= 3 PROVE OnBoard(mine)
        <4>1. Calls(at) = Add
          BY <1>2, <3>1, CallIs DEF Calls
        <4>2. Effect(Calls(at)[2])
          BY <3>1, CallIs DEF CallsOK
        <4>3. Calls(at)[2] = "add"
          BY <4>1, AddCalls
        <4> QED
          BY <1>2, <4>2, <4>3 DEF Effect, Target
      <3> QED
        BY <3>1
    <2> QED
      BY <1>2, <2>1, <2>2, <2>3, CallIs DEF MineOK
  <1> QED
    BY <1>1, <1>2

\* The issue the sync works on is one.
LEMMA TargetIsIssue ==
    ASSUME Inv
    PROVE  Target(at) # 0 => Target(at) \in Issues
  <1>1. at \in Items
    BY DEF Inv, TypeOK
  <1>2. CASE snap[at].id # 0
    BY <1>1, <1>2 DEF Inv, SnapOK, RowsOf, Target
  <1>3. CASE snap[at].id = 0
    BY <1>3 DEF Inv, MineOK, Target
  <1> QED
    BY <1>2, <1>3

-----------------------------------------------------------------------------
(* Upstream and the maintainers *)

LEMMA UpstreamInv ==
    ASSUME Inv, NEW i \in Items, Upstream(i)
    PROVE  Inv'
  <1>a. Calls(at)' = Calls(at)
    BY DEF Calls, Mirror, Upstream, sync
  <1>1. TypeOK'
    BY BoundsAssumption DEF Inv, TypeOK, Upstream, sync, ghosts
  <1>2. RowsOK'
    BY DEF Inv, Upstream, ghosts, RowsOK, OnBoard
  <1>3. SnapOK'
    BY DEF Inv, Upstream, sync, ghosts, SnapOK, RowsOf
  <1>4. MineOK'
    BY DEF Inv, Upstream, sync, ghosts, MineOK
  <1>5. CallsOK'
    <2>1. \A x : Effect(x) => Effect(x)'
      BY DEF Upstream, sync, ghosts, Effect, Target, OnBoard
    <2> QED
      BY <2>1, <1>a DEF Inv, CallsOK, Upstream, sync
  <1>6. AbsentOK'
    BY DEF Inv, Upstream, sync, ghosts, AbsentOK, Before, RowsOf
  <1>7. OneRow'
    BY DEF Inv, Upstream, ghosts, OneRow, OnBoard
  <1>8. UnnumberedOK'
    BY DEF Inv, Upstream, sync, UnnumberedOK, Before, RowsOf
  <1>9. OneNumber'
    BY DEF Inv, Upstream, OneNumber, OnBoard
  <1>10. ListedOK'
    BY DEF Inv, Upstream, sync, ListedOK, RowsOf
  <1>11. StaleOK'
    BY DEF Inv, Upstream, sync, StaleOK, RowsOf
  <1>12. ClosedOK'
    BY DEF Inv, Upstream, sync, ClosedOK, RowsOf
  <1>13. MirrorOK'
    BY DEF Inv, Upstream, sync, ghosts, MirrorOK
  <1>14. MirroredOK'
    BY DEF Inv, Upstream, sync, ghosts, MirroredOK
  <1> QED
    BY <1>1, <1>2, <1>3, <1>4, <1>5, <1>6, <1>7, <1>8, <1>9, <1>10, <1>11, <1>12, <1>13, <1>14
       DEF Inv

LEMMA TriageInv ==
    ASSUME Inv, NEW k \in Issues, Triage(k)
    PROVE  Inv'
  <1>a. Calls(at)' = Calls(at)
    BY DEF Calls, Mirror, Edit, Triage, sync
  <1>b. /\ row' \in [Issues -> Row \union {OffBoard}] /\ row'[k] \in Row /\ row'[k] # OffBoard
        /\ \A l \in Issues : l # k => row'[l] = row[l]
        /\ row'[k].num = row[k].num /\ row'[k].state = row[k].state
        /\ row'[k].status = row[k].status
    BY RowAssumption DEF Inv, TypeOK, Row, Triage
  <1>1. TypeOK'
    <2>1. /\ row' \in [Issues -> Row \union {OffBoard}]
          /\ issue' \in [Issues -> [item : 0..N, open : BOOLEAN]]
      BY <1>b DEF Inv, TypeOK, Triage
    <2>2. /\ upstream' \in [Items -> {"unborn", "open", "closed", "merged"}]
          /\ snap' \in [Items -> [id : 0..(N + MaxFaults), row : Row \union {OffBoard}]]
          /\ phase' \in {"idle", "list_issues", "list_pulls", "refused", "items", "closed",
                         "reread", "list_tracking", "mirror", "done"}
      BY DEF Inv, TypeOK, Edit, Triage, sync
    <2>3. /\ moves' \in 0..MaxMoves /\ edits' \in 0..MaxEdits /\ faults' \in 0..MaxFaults
          /\ at' \in Items /\ step' \in 1..7 /\ mine' \in 0..(N + MaxFaults)
      BY BoundsAssumption DEF Inv, TypeOK, Edit, Triage, sync
    <2>4. /\ listed' \subseteq Items /\ open' \subseteq Issues
          /\ touched' \subseteq Issues /\ adopted' \subseteq Issues
          /\ yours' \in [Issues -> Decisions \union {"-"}]
      BY DEF Inv, TypeOK, Edit, Triage, sync
    <2> QED
      BY <2>1, <2>2, <2>3, <2>4 DEF TypeOK
  <1>2. RowsOK'
    BY <1>b DEF Inv, TypeOK, Triage, RowsOK, OnBoard
  <1>3. SnapOK'
    BY <1>b DEF Inv, Edit, Triage, sync, SnapOK, RowsOf
  <1>4. MineOK'
    BY DEF Inv, Edit, Triage, sync, MineOK
  <1>5. CallsOK'
    <2>1. Target(at)' = Target(at) /\ (Target(at) # 0 => Target(at) \in Issues)
      BY TargetIsIssue DEF Target, Edit, Triage, sync
    <2>2. \A x : Effect(x) => Effect(x)'
      BY <2>1, <1>b, TargetIsIssue DEF Inv, TypeOK, Effect, OnBoard, Edit, Triage, sync
    <2> QED
      BY <2>2, <1>a DEF Inv, CallsOK, Edit, Triage, sync
  <1>6. AbsentOK'
    BY DEF Inv, Edit, Triage, sync, AbsentOK, Before, RowsOf
  <1>7. OneRow'
    BY DEF Inv, Triage, OneRow, OnBoard
  <1>8. UnnumberedOK'
    BY DEF Inv, Edit, Triage, sync, UnnumberedOK, Before, RowsOf
  <1>9. OneNumber'
    BY DEF Inv, Triage, OneNumber, OnBoard
  <1>10. ListedOK'
    BY <1>b DEF Inv, Edit, Triage, sync, ListedOK, RowsOf
  <1>11. StaleOK'
    BY DEF Inv, Edit, Triage, sync, StaleOK, RowsOf
  <1>12. ClosedOK'
    BY DEF Inv, Edit, Triage, sync, ClosedOK, RowsOf
  <1>13. MirrorOK'
    <2>1. ASSUME NEW l \in Issues
          PROVE  /\ row'[l].status = row[l].status
                 /\ l \notin touched' => row'[l] = row[l] /\ l \notin touched
      BY <1>b DEF Edit, Triage
    <2>2. ASSUME NEW j \in Items, snap[j].id # 0
          PROVE  snap[j].id \in Issues
      BY <2>2 DEF Inv, SnapOK, RowsOf
    <2> QED
      BY <2>1, <2>2 DEF Inv, MirrorOK, Edit, Triage, sync
  <1>14. MirroredOK'
    BY DEF Inv, Edit, Triage, sync, MirroredOK
  <1> QED
    BY <1>1, <1>2, <1>3, <1>4, <1>5, <1>6, <1>7, <1>8, <1>9, <1>10, <1>11, <1>12, <1>13, <1>14
       DEF Inv

LEMMA ToggleInv ==
    ASSUME Inv, NEW k \in Issues, Toggle(k)
    PROVE  Inv'
  <1>a. Calls(at)' = Calls(at)
    BY DEF Calls, Mirror, Edit, Toggle, sync
  <1>1. TypeOK'
    <2>1. /\ row' \in [Issues -> Row \union {OffBoard}]
          /\ issue' \in [Issues -> [item : 0..N, open : BOOLEAN]]
      <3>1. row' \in [Issues -> Row \union {OffBoard}]
        BY DEF Inv, TypeOK, Toggle
      <3>2. issue \in [Issues -> [item : 0..N, open : BOOLEAN]]
        BY DEF Inv, TypeOK
      <3>3. issue' = [issue EXCEPT ![k] = [issue[k] EXCEPT !.open = ~issue[k].open]]
        BY DEF Toggle
      <3> QED
        BY <3>1, <3>2, <3>3
    <2>2. /\ upstream' \in [Items -> {"unborn", "open", "closed", "merged"}]
          /\ snap' \in [Items -> [id : 0..(N + MaxFaults), row : Row \union {OffBoard}]]
          /\ phase' \in {"idle", "list_issues", "list_pulls", "refused", "items", "closed",
                         "reread", "list_tracking", "mirror", "done"}
      BY DEF Inv, TypeOK, Edit, Toggle, sync
    <2>3. /\ moves' \in 0..MaxMoves /\ edits' \in 0..MaxEdits /\ faults' \in 0..MaxFaults
          /\ at' \in Items /\ step' \in 1..7 /\ mine' \in 0..(N + MaxFaults)
      BY BoundsAssumption DEF Inv, TypeOK, Edit, Toggle, sync
    <2>4. /\ listed' \subseteq Items /\ open' \subseteq Issues
          /\ touched' \subseteq Issues /\ adopted' \subseteq Issues
          /\ yours' \in [Issues -> Decisions \union {"-"}]
      BY DEF Inv, TypeOK, Edit, Toggle, sync
    <2> QED
      BY <2>1, <2>2, <2>3, <2>4 DEF TypeOK
  <1>2. RowsOK'
    BY DEF Inv, Toggle, RowsOK, OnBoard
  <1>3. SnapOK'
    BY DEF Inv, Edit, Toggle, sync, SnapOK, RowsOf
  <1>4. MineOK'
    BY DEF Inv, Edit, Toggle, sync, MineOK
  <1>5. CallsOK'
    <2>1. Target(at)' = Target(at) /\ (Target(at) # 0 => Target(at) \in Issues)
      BY TargetIsIssue DEF Target, Edit, Toggle, sync
    <2>2. \A x : Effect(x) => Effect(x)'
      BY <2>1, TargetIsIssue DEF Inv, TypeOK, Effect, OnBoard, Edit, Toggle, sync
    <2> QED
      BY <2>2, <1>a DEF Inv, CallsOK, Edit, Toggle, sync
  <1>6. AbsentOK'
    BY DEF Inv, Edit, Toggle, sync, AbsentOK, Before, RowsOf
  <1>7. OneRow'
    BY DEF Inv, Toggle, OneRow, OnBoard
  <1>8. UnnumberedOK'
    BY DEF Inv, Edit, Toggle, sync, UnnumberedOK, Before, RowsOf
  <1>9. OneNumber'
    BY DEF Inv, Toggle, OneNumber, OnBoard
  <1>10. ListedOK'
    BY DEF Inv, Edit, Toggle, sync, ListedOK, RowsOf
  <1>11. StaleOK'
    BY DEF Inv, Edit, Toggle, sync, StaleOK, RowsOf
  <1>12. ClosedOK'
    BY DEF Inv, Edit, Toggle, sync, ClosedOK, RowsOf
  <1>13. MirrorOK'
    BY <1>a DEF Inv, TypeOK, Edit, Toggle, sync, MirrorOK
  <1>14. MirroredOK'
    BY DEF Inv, Edit, Toggle, sync, MirroredOK
  <1> QED
    BY <1>1, <1>2, <1>3, <1>4, <1>5, <1>6, <1>7, <1>8, <1>9, <1>10, <1>11, <1>12, <1>13, <1>14
       DEF Inv

LEMMA AdoptInv ==
    ASSUME Inv, NEW k \in Issues, Adopt(k)
    PROVE  Inv'
  <1>a. Calls(at)' = Calls(at)
    BY DEF Calls, Mirror, Edit, Adopt, sync
  <1>b. /\ row' \in [Issues -> Row \union {OffBoard}] /\ row'[k] = NewRow
        /\ \A l \in Issues : l # k => row'[l] = row[l]
    BY NewRowIs DEF Inv, TypeOK, Adopt
  <1>1. TypeOK'
    <2>1. /\ row' \in [Issues -> Row \union {OffBoard}]
          /\ issue' \in [Issues -> [item : 0..N, open : BOOLEAN]]
      BY <1>b DEF Inv, TypeOK, Adopt
    <2>2. /\ upstream' \in [Items -> {"unborn", "open", "closed", "merged"}]
          /\ snap' \in [Items -> [id : 0..(N + MaxFaults), row : Row \union {OffBoard}]]
          /\ phase' \in {"idle", "list_issues", "list_pulls", "refused", "items", "closed",
                         "reread", "list_tracking", "mirror", "done"}
      BY DEF Inv, TypeOK, Edit, Adopt, sync
    <2>3. /\ moves' \in 0..MaxMoves /\ edits' \in 0..MaxEdits /\ faults' \in 0..MaxFaults
          /\ at' \in Items /\ step' \in 1..7 /\ mine' \in 0..(N + MaxFaults)
      BY BoundsAssumption DEF Inv, TypeOK, Edit, Adopt, sync
    <2>4. /\ listed' \subseteq Items /\ open' \subseteq Issues
          /\ touched' \subseteq Issues /\ adopted' \subseteq Issues
          /\ yours' \in [Issues -> Decisions \union {"-"}]
      BY DEF Inv, TypeOK, Edit, Adopt, sync
    <2> QED
      BY <2>1, <2>2, <2>3, <2>4 DEF TypeOK
  <1>2. RowsOK'
    BY NewRowIs DEF Inv, Adopt, RowsOK, OnBoard
  <1>3. SnapOK'
    BY DEF Inv, Edit, Adopt, sync, SnapOK, RowsOf
  <1>4. MineOK'
    BY DEF Inv, Edit, Adopt, sync, MineOK
  <1>5. CallsOK'
    <2>1. Target(at)' = Target(at) /\ (Target(at) # 0 => Target(at) \in Issues)
      BY TargetIsIssue DEF Target, Edit, Adopt, sync
    <2>2. \A x : Effect(x) => Effect(x)'
      BY <2>1, <1>b, TargetIsIssue DEF Inv, TypeOK, Effect, OnBoard, Edit, Adopt, sync
    <2> QED
      BY <2>2, <1>a DEF Inv, CallsOK, Edit, Adopt, sync
  <1>6. AbsentOK'
    BY DEF Inv, Edit, Adopt, sync, AbsentOK, Before, RowsOf
  <1>7. OneRow'
    BY NewRowIs DEF Inv, Adopt, OneRow, OnBoard
  <1>8. UnnumberedOK'
    BY NewRowIs DEF Inv, Edit, Adopt, sync, UnnumberedOK, Before, RowsOf
  <1>9. OneNumber'
    BY NewRowIs DEF Inv, Adopt, OneNumber, OnBoard
  <1>10. ListedOK'
    BY DEF Inv, Edit, Adopt, sync, ListedOK, RowsOf
  <1>11. StaleOK'
    BY NewRowIs DEF Inv, Edit, Adopt, sync, StaleOK, RowsOf
  <1>12. ClosedOK'
    BY NewRowIs DEF Inv, Edit, Adopt, sync, ClosedOK, RowsOf
  <1>13. MirrorOK'
    <2>1. ASSUME NEW j \in Items, snap[j].id # 0
          PROVE  row'[snap[j].id] = row[snap[j].id]
      BY <2>1, <1>b DEF Inv, SnapOK, RowsOf, Adopt
    <2> QED
      BY <2>1 DEF Inv, MirrorOK, Edit, Adopt, sync
  <1>14. MirroredOK'
    BY DEF Inv, Edit, Adopt, sync, MirroredOK, SnapOK, RowsOf
  <1> QED
    BY <1>1, <1>2, <1>3, <1>4, <1>5, <1>6, <1>7, <1>8, <1>9, <1>10, <1>11, <1>12, <1>13, <1>14
       DEF Inv

-----------------------------------------------------------------------------
(* What a sync reads *)

LEMMA ReadIs ==
    ASSUME Inv, ReadBoard
    PROVE  /\ snap' \in [Items -> [id : 0..(N + MaxFaults), row : Row \union {OffBoard}]]
           /\ \A i \in Items :
                 /\ snap'[i].id = 0 => RowsOf(i) = {} /\ snap'[i].row = OffBoard
                 /\ snap'[i].id # 0 =>
                       snap'[i].id \in RowsOf(i) /\ snap'[i].row = row[snap'[i].id]
                 /\ \A k \in RowsOf(i) : row[k].num => snap'[i].id # 0 /\ snap'[i].row.num
  <1>1. PICK pick \in [Items -> {0} \union Issues] :
           /\ \A i \in Items : pick[i] \in Read(i)
           /\ snap' = [i \in Items |->
                 [id |-> pick[i], row |-> IF pick[i] = 0 THEN OffBoard ELSE row[pick[i]]]]
    BY DEF ReadBoard
  <1>2. \A i \in Items : /\ snap'[i].id = pick[i]
                         /\ snap'[i].row = IF pick[i] = 0 THEN OffBoard ELSE row[pick[i]]
    BY <1>1
  <1>3. 0 \notin Issues /\ {0} \union Issues = 0..(N + MaxFaults)
    BY ItemsAssumption, BoundsAssumption DEF Issues
  <1>4. snap' \in [Items -> [id : 0..(N + MaxFaults), row : Row \union {OffBoard}]]
    BY <1>1, <1>3 DEF Inv, TypeOK
  <1>5. ASSUME NEW i \in Items
        PROVE  /\ snap'[i].id = 0 => RowsOf(i) = {} /\ snap'[i].row = OffBoard
               /\ snap'[i].id # 0 =>
                     snap'[i].id \in RowsOf(i) /\ snap'[i].row = row[snap'[i].id]
               /\ \A k \in RowsOf(i) : row[k].num => snap'[i].id # 0 /\ snap'[i].row.num
    BY <1>1, <1>2, <1>3 DEF Read, RowsOf
  <1> QED
    BY <1>4, <1>5

LEMMA StartSyncInv ==
    ASSUME Inv, StartSync
    PROVE  Inv'
  <1>a. ReadBoard /\ UNCHANGED <<issue, row, yours, adopted>>
    BY DEF StartSync, github
  <1>1. TypeOK'
    <2>1. /\ row' \in [Issues -> Row \union {OffBoard}]
          /\ issue' \in [Issues -> [item : 0..N, open : BOOLEAN]]
      BY DEF Inv, TypeOK, StartSync, github
    <2>2. /\ upstream' \in [Items -> {"unborn", "open", "closed", "merged"}]
          /\ snap' \in [Items -> [id : 0..(N + MaxFaults), row : Row \union {OffBoard}]]
          /\ phase' \in {"idle", "list_issues", "list_pulls", "refused", "items", "closed",
                         "reread", "list_tracking", "mirror", "done"}
      BY ReadIs DEF Inv, TypeOK, StartSync, Goto, github
    <2>3. /\ moves' \in 0..MaxMoves /\ edits' \in 0..MaxEdits /\ faults' \in 0..MaxFaults
          /\ at' \in Items /\ step' \in 1..7 /\ mine' \in 0..(N + MaxFaults)
      BY ItemsAssumption, BoundsAssumption DEF Inv, TypeOK, Items, StartSync, Goto, budget
    <2>4. /\ listed' \subseteq Items /\ open' \subseteq Issues
          /\ touched' \subseteq Issues /\ adopted' \subseteq Issues
          /\ yours' \in [Issues -> Decisions \union {"-"}]
      BY DEF Inv, TypeOK, StartSync
    <2> QED
      BY <2>1, <2>2, <2>3, <2>4 DEF TypeOK
  <1>2. RowsOK'
    BY <1>a DEF Inv, RowsOK, OnBoard
  <1>3. SnapOK'
    BY ReadIs, <1>a DEF Inv, StartSync, Goto, SnapOK, RowsOf, RowsOK
  <1>4. MineOK'
    BY DEF Inv, StartSync, Goto, MineOK
  <1>5. CallsOK'
    BY DEF Inv, StartSync, Goto, CallsOK, Effect, Target
  <1>6. AbsentOK'
    BY ReadIs, <1>a DEF Inv, AbsentOK, RowsOf
  <1>7. OneRow'
    BY <1>a DEF Inv, OneRow, OnBoard
  <1>8. UnnumberedOK'
    BY ReadIs, <1>a DEF Inv, UnnumberedOK, RowsOf
  <1>9. OneNumber'
    BY <1>a DEF Inv, OneNumber, OnBoard
  <1>10. ListedOK'
    BY DEF Inv, StartSync, Goto, ListedOK, Second
  <1>11. StaleOK'
    BY ReadIs, <1>a DEF Inv, StaleOK, RowsOf, RowsOK, OneNumber, OnBoard
  <1>12. ClosedOK'
    BY DEF Inv, StartSync, Goto, ClosedOK, Second
  <1>13. MirrorOK'
    BY DEF Inv, StartSync, Goto, MirrorOK, Second
  <1>14. MirroredOK'
    BY DEF Inv, StartSync, Goto, MirroredOK
  <1> QED
    BY <1>1, <1>2, <1>3, <1>4, <1>5, <1>6, <1>7, <1>8, <1>9, <1>10, <1>11, <1>12, <1>13, <1>14
       DEF Inv

LEMMA ReadAgainInv ==
    ASSUME Inv, ReadAgain
    PROVE  Inv'
  <1>a. ReadBoard /\ UNCHANGED <<issue, row, yours, adopted>>
    BY DEF ReadAgain, github
  <1>1. TypeOK'
    <2>1. /\ row' \in [Issues -> Row \union {OffBoard}]
          /\ issue' \in [Issues -> [item : 0..N, open : BOOLEAN]]
      BY DEF Inv, TypeOK, ReadAgain, github
    <2>2. /\ upstream' \in [Items -> {"unborn", "open", "closed", "merged"}]
          /\ snap' \in [Items -> [id : 0..(N + MaxFaults), row : Row \union {OffBoard}]]
          /\ phase' \in {"idle", "list_issues", "list_pulls", "refused", "items", "closed",
                         "reread", "list_tracking", "mirror", "done"}
      BY ReadIs DEF Inv, TypeOK, ReadAgain, Goto, github
    <2>3. /\ moves' \in 0..MaxMoves /\ edits' \in 0..MaxEdits /\ faults' \in 0..MaxFaults
          /\ at' \in Items /\ step' \in 1..7 /\ mine' \in 0..(N + MaxFaults)
      BY ItemsAssumption, BoundsAssumption DEF Inv, TypeOK, Items, ReadAgain, Goto, budget
    <2>4. /\ listed' \subseteq Items /\ open' \subseteq Issues
          /\ touched' \subseteq Issues /\ adopted' \subseteq Issues
          /\ yours' \in [Issues -> Decisions \union {"-"}]
      BY DEF Inv, TypeOK, ReadAgain
    <2> QED
      BY <2>1, <2>2, <2>3, <2>4 DEF TypeOK
  <1>2. RowsOK'
    BY <1>a DEF Inv, RowsOK, OnBoard
  <1>3. SnapOK'
    BY ReadIs, <1>a DEF Inv, ReadAgain, Goto, SnapOK, RowsOf, RowsOK
  <1>4. MineOK'
    BY DEF Inv, ReadAgain, Goto, MineOK
  <1>5. CallsOK'
    BY DEF Inv, ReadAgain, Goto, CallsOK, Effect, Target
  <1>6. AbsentOK'
    BY ReadIs, <1>a DEF Inv, AbsentOK, RowsOf
  <1>7. OneRow'
    BY <1>a DEF Inv, OneRow, OnBoard
  <1>8. UnnumberedOK'
    BY ReadIs, <1>a DEF Inv, UnnumberedOK, RowsOf
  <1>9. OneNumber'
    BY <1>a DEF Inv, OneNumber, OnBoard
  <1>10. ListedOK'
    BY <1>a DEF Inv, ReadAgain, ListedOK, RowsOf
  <1>11. StaleOK'
    BY ReadIs DEF Inv, ReadAgain, Goto, StaleOK, Listing
  <1>12. ClosedOK'
    BY <1>a DEF Inv, ReadAgain, ClosedOK, RowsOf
  <1>13. MirrorOK'
    BY ReadIs, <1>a DEF Inv, ReadAgain, Goto, MirrorOK
  <1>14. MirroredOK'
    BY DEF Inv, ReadAgain, Goto, MirroredOK
  <1> QED
    BY <1>1, <1>2, <1>3, <1>4, <1>5, <1>6, <1>7, <1>8, <1>9, <1>10, <1>11, <1>12, <1>13, <1>14
       DEF Inv

LEMMA ListIssuesInv ==
    ASSUME Inv, ListIssues
    PROVE  Inv'
  <1>1. TypeOK'
    <2>1. /\ row' \in [Issues -> Row \union {OffBoard}]
          /\ issue' \in [Issues -> [item : 0..N, open : BOOLEAN]]
      BY DEF Inv, TypeOK, ListIssues, github
    <2>2. /\ upstream' \in [Items -> {"unborn", "open", "closed", "merged"}]
          /\ snap' \in [Items -> [id : 0..(N + MaxFaults), row : Row \union {OffBoard}]]
          /\ phase' \in {"idle", "list_issues", "list_pulls", "refused", "items", "closed",
                         "reread", "list_tracking", "mirror", "done"}
      BY DEF Inv, TypeOK, ListIssues, Goto, github
    <2>3. /\ moves' \in 0..MaxMoves /\ edits' \in 0..MaxEdits /\ faults' \in 0..MaxFaults
          /\ at' \in Items /\ step' \in 1..7 /\ mine' \in 0..(N + MaxFaults)
      BY ItemsAssumption, BoundsAssumption DEF Inv, TypeOK, Items, ListIssues, Goto, budget
    <2>4. /\ listed' \subseteq Items /\ open' \subseteq Issues
          /\ touched' \subseteq Issues /\ adopted' \subseteq Issues
          /\ yours' \in [Issues -> Decisions \union {"-"}]
      BY DEF Inv, TypeOK, ListIssues, ghosts
    <2> QED
      BY <2>1, <2>2, <2>3, <2>4 DEF TypeOK
  <1>2. RowsOK'
    BY DEF Inv, ListIssues, github, ghosts, RowsOK, OnBoard
  <1>3. SnapOK'
    BY DEF Inv, ListIssues, Goto, github, ghosts, SnapOK, RowsOf, Listing
  <1>4. MineOK'
    BY DEF Inv, ListIssues, Goto, MineOK
  <1>5. CallsOK'
    BY DEF Inv, ListIssues, Goto, CallsOK, Effect, Target
  <1>6. AbsentOK'
    BY DEF Inv, ListIssues, github, ghosts, AbsentOK, Before, Listing, RowsOf
  <1>7. OneRow'
    BY DEF Inv, ListIssues, github, ghosts, OneRow, OnBoard
  <1>8. UnnumberedOK'
    BY DEF Inv, ListIssues, github, UnnumberedOK, Before, Listing, RowsOf
  <1>9. OneNumber'
    BY DEF Inv, ListIssues, github, OneNumber, OnBoard
  <1>10. ListedOK'
    <2>1. /\ phase' \in {"list_pulls", "refused", "items", "mirror"}
          /\ at' = 1 /\ listed' \subseteq Items
      BY <1>1 DEF ListIssues, Goto, TypeOK
    <2>2. phase' = "mirror" => UNCHANGED <<listed, issue, row>> /\ phase = "list_tracking"
      BY DEF ListIssues, Goto, github
    <2> QED
      BY <2>1, <2>2 DEF Inv, ListedOK, Second, RowsOf, Items
  <1>11. StaleOK'
    BY DEF Inv, ListIssues, github, StaleOK, Listing, RowsOf
  <1>12. ClosedOK'
    BY DEF Inv, ListIssues, Goto, ClosedOK, Second
  <1>13. MirrorOK'
    BY DEF Inv, ListIssues, Goto, MirrorOK, Second
  <1>14. MirroredOK'
    BY DEF Inv, ListIssues, Goto, MirroredOK
  <1> QED
    BY <1>1, <1>2, <1>3, <1>4, <1>5, <1>6, <1>7, <1>8, <1>9, <1>10, <1>11, <1>12, <1>13, <1>14
       DEF Inv

LEMMA ListPullsInv ==
    ASSUME Inv, ListPulls
    PROVE  Inv'
  <1>1. TypeOK'
    <2>1. /\ row' \in [Issues -> Row \union {OffBoard}]
          /\ issue' \in [Issues -> [item : 0..N, open : BOOLEAN]]
      BY DEF Inv, TypeOK, ListPulls, github
    <2>2. /\ upstream' \in [Items -> {"unborn", "open", "closed", "merged"}]
          /\ snap' \in [Items -> [id : 0..(N + MaxFaults), row : Row \union {OffBoard}]]
          /\ phase' \in {"idle", "list_issues", "list_pulls", "refused", "items", "closed",
                         "reread", "list_tracking", "mirror", "done"}
      BY DEF Inv, TypeOK, ListPulls, Goto, github
    <2>3. /\ moves' \in 0..MaxMoves /\ edits' \in 0..MaxEdits /\ faults' \in 0..MaxFaults
          /\ at' \in Items /\ step' \in 1..7 /\ mine' \in 0..(N + MaxFaults)
      BY ItemsAssumption, BoundsAssumption DEF Inv, TypeOK, Items, ListPulls, Goto, budget
    <2>4. /\ listed' \subseteq Items /\ open' \subseteq Issues
          /\ touched' \subseteq Issues /\ adopted' \subseteq Issues
          /\ yours' \in [Issues -> Decisions \union {"-"}]
      BY ItemsAssumption DEF Inv, TypeOK, ListPulls, ghosts
    <2> QED
      BY <2>1, <2>2, <2>3, <2>4 DEF TypeOK
  <1>2. RowsOK'
    BY DEF Inv, ListPulls, github, ghosts, RowsOK, OnBoard
  <1>3. SnapOK'
    BY DEF Inv, ListPulls, Goto, github, ghosts, SnapOK, RowsOf, Listing
  <1>4. MineOK'
    BY DEF Inv, ListPulls, Goto, MineOK
  <1>5. CallsOK'
    BY DEF Inv, ListPulls, Goto, CallsOK, Effect, Target
  <1>6. AbsentOK'
    BY DEF Inv, ListPulls, github, ghosts, AbsentOK, Before, Listing, RowsOf
  <1>7. OneRow'
    BY DEF Inv, ListPulls, github, ghosts, OneRow, OnBoard
  <1>8. UnnumberedOK'
    BY DEF Inv, ListPulls, github, UnnumberedOK, Before, Listing, RowsOf
  <1>9. OneNumber'
    BY DEF Inv, ListPulls, github, OneNumber, OnBoard
  <1>10. ListedOK'
    <2>1. /\ phase' \in {"list_pulls", "refused", "items", "mirror"}
          /\ at' = 1 /\ listed' \subseteq Items
      BY <1>1 DEF ListPulls, Goto, TypeOK
    <2>2. phase' = "mirror" => UNCHANGED <<listed, issue, row>> /\ phase = "list_tracking"
      BY DEF ListPulls, Goto, github
    <2> QED
      BY <2>1, <2>2 DEF Inv, ListedOK, Second, RowsOf, Items
  <1>11. StaleOK'
    BY DEF Inv, ListPulls, github, StaleOK, Listing, RowsOf
  <1>12. ClosedOK'
    BY DEF Inv, ListPulls, Goto, ClosedOK, Second
  <1>13. MirrorOK'
    BY DEF Inv, ListPulls, Goto, MirrorOK, Second
  <1>14. MirroredOK'
    BY DEF Inv, ListPulls, Goto, MirroredOK
  <1> QED
    BY <1>1, <1>2, <1>3, <1>4, <1>5, <1>6, <1>7, <1>8, <1>9, <1>10, <1>11, <1>12, <1>13, <1>14
       DEF Inv

LEMMA ListTrackingInv ==
    ASSUME Inv, ListTracking
    PROVE  Inv'
  <1>1. TypeOK'
    <2>1. /\ row' \in [Issues -> Row \union {OffBoard}]
          /\ issue' \in [Issues -> [item : 0..N, open : BOOLEAN]]
      BY DEF Inv, TypeOK, ListTracking, github
    <2>2. /\ upstream' \in [Items -> {"unborn", "open", "closed", "merged"}]
          /\ snap' \in [Items -> [id : 0..(N + MaxFaults), row : Row \union {OffBoard}]]
          /\ phase' \in {"idle", "list_issues", "list_pulls", "refused", "items", "closed",
                         "reread", "list_tracking", "mirror", "done"}
      BY DEF Inv, TypeOK, ListTracking, Goto, github
    <2>3. /\ moves' \in 0..MaxMoves /\ edits' \in 0..MaxEdits /\ faults' \in 0..MaxFaults
          /\ at' \in Items /\ step' \in 1..7 /\ mine' \in 0..(N + MaxFaults)
      BY ItemsAssumption, BoundsAssumption DEF Inv, TypeOK, Items, ListTracking, Goto, budget
    <2>4. /\ listed' \subseteq Items /\ open' \subseteq Issues
          /\ touched' \subseteq Issues /\ adopted' \subseteq Issues
          /\ yours' \in [Issues -> Decisions \union {"-"}]
      BY DEF Inv, TypeOK, ListTracking, ghosts
    <2> QED
      BY <2>1, <2>2, <2>3, <2>4 DEF TypeOK
  <1>2. RowsOK'
    BY DEF Inv, ListTracking, github, ghosts, RowsOK, OnBoard
  <1>3. SnapOK'
    BY DEF Inv, ListTracking, Goto, github, ghosts, SnapOK, RowsOf, Listing
  <1>4. MineOK'
    BY DEF Inv, ListTracking, Goto, MineOK
  <1>5. CallsOK'
    BY DEF Inv, ListTracking, Goto, CallsOK, Effect, Target
  <1>6. AbsentOK'
    BY DEF Inv, ListTracking, Goto, AbsentOK, Before, Listing
  <1>7. OneRow'
    BY DEF Inv, ListTracking, github, ghosts, OneRow, OnBoard
  <1>8. UnnumberedOK'
    BY DEF Inv, ListTracking, Goto, UnnumberedOK, Before, Listing
  <1>9. OneNumber'
    BY DEF Inv, ListTracking, github, OneNumber, OnBoard
  <1>10. ListedOK'
    <2>1. /\ phase' \in {"list_pulls", "refused", "items", "mirror"}
          /\ at' = 1 /\ listed' \subseteq Items
      BY <1>1 DEF ListTracking, Goto, TypeOK
    <2>2. phase' = "mirror" => UNCHANGED <<listed, issue, row>> /\ phase = "list_tracking"
      BY DEF ListTracking, Goto, github
    <2> QED
      BY <2>1, <2>2 DEF Inv, ListedOK, Second, RowsOf, Items
  <1>11. StaleOK'
    BY DEF Inv, ListTracking, Goto, StaleOK, Listing
  <1>12. ClosedOK'
    BY DEF Inv, ListTracking, github, ClosedOK, Second, RowsOf
  <1>13. MirrorOK'
    <2>1. ASSUME NEW j \in Items, snap[j].id # 0
          PROVE  issue[snap[j].id].open = (snap[j].id \in open')
      BY <2>1 DEF Inv, TypeOK, SnapOK, RowsOf, ListTracking
    <2> QED
      BY <2>1 DEF Inv, MirrorOK, Second, ListTracking, Goto, github, ghosts
  <1>14. MirroredOK'
    BY DEF Inv, ListTracking, Goto, MirroredOK, Items
  <1> QED
    BY <1>1, <1>2, <1>3, <1>4, <1>5, <1>6, <1>7, <1>8, <1>9, <1>10, <1>11, <1>12, <1>13, <1>14
       DEF Inv

-----------------------------------------------------------------------------
(* What a loop has done when it goes on *)

LEMMA AllCallsMade ==
    ASSUME Inv, step > Len(Calls(at)), NEW j \in 1..Len(Calls(at))
    PROVE  Effect(Calls(at)[j])
  <1>1. step \in 1..7
    BY DEF Inv, TypeOK
  <1>2. j \in 1..(step - 1)
    BY <1>1
  <1> QED
    BY <1>2 DEF Inv, CallsOK

LEMMA ItemIsListed ==
    ASSUME Inv, phase = "items", at \in listed, step > Len(Calls(at))
    PROVE  \E k \in RowsOf(at) : row[k].num /\ row[k].state = "open"
  <1> DEFINE r == snap[at].row
  <1>1. at \in Items
    BY DEF Inv, TypeOK
  <1>2. CASE snap[at].id = 0
    <2>1. Calls(at) = Add
      BY <1>2 DEF Calls
    <2>2. Effect("create") /\ Effect("Upstream") /\ Effect("Upstream_state")
      <3>1. Effect(Add[1]) /\ Effect(Add[3]) /\ Effect(Add[5])
        BY <2>1, AddCalls, AllCallsMade
      <3> QED
        BY <3>1, AddCalls
    <2>3. mine # 0 /\ OnBoard(mine) /\ row[mine].num /\ row[mine].state = "open"
      BY <1>2, <2>2 DEF Effect, Target
    <2>4. mine \in RowsOf(at)
      BY <2>3 DEF Inv, MineOK, RowsOf, OnBoard
    <2> QED
      BY <2>3, <2>4
  <1>3. CASE snap[at].id # 0
    <2>1. Calls(at) = Refresh(r) /\ r \in Row
      BY <1>1, <1>3 DEF Calls, Inv, SnapOK, TypeOK
    <2>2. row[snap[at].id].num
      <3>1. CASE r.num
        BY <1>1, <1>3, <3>1 DEF Inv, SnapOK
      <3>2. CASE ~r.num
        <4>1. Effect("Upstream")
          BY <2>1, <3>2, RefreshCalls, AllCallsMade
        <4> QED
          BY <1>3, <4>1 DEF Effect, Target
      <3> QED
        BY <3>1, <3>2
    <2>3. row[snap[at].id].state = "open"
      <3>1. CASE r.state = "open"
        BY <1>1, <1>3, <3>1 DEF Inv, SnapOK
      <3>2. CASE r.state # "open"
        <4>1. Effect("Upstream_state")
          BY <2>1, <3>2, RefreshCalls, AllCallsMade
        <4> QED
          BY <1>3, <4>1 DEF Effect, Target
      <3> QED
        BY <3>1, <3>2
    <2> QED
      BY <1>1, <1>3, <2>2, <2>3 DEF Inv, SnapOK
  <1> QED
    BY <1>2, <1>3

LEMMA ItemIsClosed ==
    ASSUME Inv, phase = "closed", at \notin listed, step > Len(Calls(at)), NEW k \in RowsOf(at)
    PROVE  row[k].state # "open"
  <1>1. at \in Items
    BY DEF Inv, TypeOK
  <1> SUFFICES ASSUME row[k].state = "open" PROVE FALSE
    OBVIOUS
  <1>2. snap[at].id = k /\ snap[at].row.state = "open"
    BY <1>1 DEF Inv, StaleOK, Items
  <1>3. k # 0
    BY ItemsAssumption DEF RowsOf, Issues
  <1>4. Calls(at) = <<"closed">>
    BY <1>2, <1>3 DEF Calls, Only
  <1>5. Effect("closed")
    BY <1>4, AllCallsMade
  <1> QED
    BY <1>2, <1>3, <1>5 DEF Effect, Target

LEMMA ItemIsMirrored ==
    ASSUME Inv, phase = "mirror", snap[at].id # 0, step > Len(Calls(at))
    PROVE  LET k == snap[at].id
               r == snap[at].row
           IN  /\ k \notin touched => issue[k].open = ~Settled(r.decision)
               /\ StatusFor(r.decision) \in {"none", row[k].status}
  <1> DEFINE k == snap[at].id
             r == snap[at].row
  <1>1. at \in Items
    BY DEF Inv, TypeOK
  <1>2. Calls(at) = Mirror(k, r) /\ r \in Row /\ k \in Issues
    BY <1>1 DEF Calls, Inv, SnapOK, TypeOK, RowsOf
  <1>3. /\ k \notin touched => issue[k].open \in {(k \in open), ~Settled(r.decision)}
        /\ row[k].status \in {r.status, StatusFor(r.decision)}
    BY <1>1 DEF Inv, MirrorOK, Second
  <1>4. ASSUME k \notin touched PROVE issue[k].open = ~Settled(r.decision)
    <2>1. CASE Settled(r.decision) /\ k \in open
      <3>1. Effect("close")
        BY <1>2, <2>1, MirrorCalls, AllCallsMade
      <3>2. ~issue[k].open
        BY <1>4, <3>1 DEF Effect, Target
      <3>3. issue[k].open \in BOOLEAN
        BY <1>2 DEF Inv, TypeOK
      <3> QED
        BY <2>1, <3>2, <3>3 DEF Settled
    <2>2. CASE ~Settled(r.decision) /\ k \notin open
      <3>1. Effect("reopen")
        BY <1>2, <2>2, MirrorCalls, AllCallsMade
      <3>2. issue[k].open
        BY <1>4, <3>1 DEF Effect, Target
      <3>3. issue[k].open \in BOOLEAN
        BY <1>2 DEF Inv, TypeOK
      <3> QED
        BY <2>2, <3>2, <3>3 DEF Settled
    <2>3. CASE (k \in open) = ~Settled(r.decision)
      BY <1>3, <1>4, <2>3
    <2> QED
      BY <2>1, <2>2, <2>3 DEF Settled
  <1>5. StatusFor(r.decision) \in {"none", row[k].status}
    <2>1. CASE StatusFor(r.decision) \notin {"none", r.status}
      <3>1. Effect("Status")
        BY <1>2, <2>1, MirrorCalls, AllCallsMade
      <3> QED
        BY <3>1 DEF Effect, Target
    <2>2. CASE StatusFor(r.decision) \in {"none", r.status}
      BY <1>3, <2>2
    <2> QED
      BY <2>1, <2>2
  <1> QED
    BY <1>4, <1>5

LEMMA NextItemInv ==
    ASSUME Inv, NextItem
    PROVE  Inv'
  <1>a. /\ UNCHANGED <<issue, row, snap, listed, open, yours, touched, adopted>>
        /\ step' = 1 /\ mine' = 0 /\ step > Len(Calls(at))
        /\ phase \in {"items", "closed", "mirror"}
        /\ \/ at < N /\ at' = at + 1 /\ phase' = phase
           \/ at = N /\ at' = 1 /\ phase = "items" /\ phase' = "closed"
           \/ at = N /\ at' = 1 /\ phase = "closed" /\ phase' = "reread"
           \/ at = N /\ at' = 1 /\ phase = "mirror" /\ phase' = "done"
    BY ItemsAssumption DEF Inv, TypeOK, Items, NextItem, Goto, github, ghosts
  <1>b. \A j \in Items, c \in 1..3 : Before(j, c)' => Before(j, c)
    BY <1>a, ItemsAssumption DEF Inv, TypeOK, Before, Listing, Items
  <1>1. TypeOK'
    <2>1. /\ row' \in [Issues -> Row \union {OffBoard}]
          /\ issue' \in [Issues -> [item : 0..N, open : BOOLEAN]]
      BY DEF Inv, TypeOK, NextItem, github
    <2>2. /\ upstream' \in [Items -> {"unborn", "open", "closed", "merged"}]
          /\ snap' \in [Items -> [id : 0..(N + MaxFaults), row : Row \union {OffBoard}]]
          /\ phase' \in {"idle", "list_issues", "list_pulls", "refused", "items", "closed",
                         "reread", "list_tracking", "mirror", "done"}
      BY DEF Inv, TypeOK, NextItem, Goto, github
    <2>3. /\ moves' \in 0..MaxMoves /\ edits' \in 0..MaxEdits /\ faults' \in 0..MaxFaults
          /\ at' \in Items /\ step' \in 1..7 /\ mine' \in 0..(N + MaxFaults)
      BY <1>a, ItemsAssumption, BoundsAssumption DEF Inv, TypeOK, Items, NextItem, budget
    <2>4. /\ listed' \subseteq Items /\ open' \subseteq Issues
          /\ touched' \subseteq Issues /\ adopted' \subseteq Issues
          /\ yours' \in [Issues -> Decisions \union {"-"}]
      BY DEF Inv, TypeOK, NextItem, ghosts
    <2> QED
      BY <2>1, <2>2, <2>3, <2>4 DEF TypeOK
  <1>2. RowsOK'
    BY <1>a DEF Inv, RowsOK, OnBoard
  <1>3. SnapOK'
    BY <1>a DEF Inv, SnapOK, RowsOf, Listing
  <1>4. MineOK'
    BY <1>a DEF Inv, MineOK, Loops
  <1>5. CallsOK'
    BY <1>a DEF Inv, CallsOK, Effect, Target
  <1>6. AbsentOK'
    BY <1>a, <1>b DEF Inv, AbsentOK, RowsOf
  <1>7. OneRow'
    BY <1>a DEF Inv, OneRow, OnBoard
  <1>8. UnnumberedOK'
    BY <1>a, <1>b DEF Inv, UnnumberedOK, RowsOf
  <1>9. OneNumber'
    BY <1>a DEF Inv, OneNumber, OnBoard
  <1>10. ListedOK'
    BY ItemIsListed, <1>a DEF Inv, TypeOK, ListedOK, Second, RowsOf, Items
  <1>11. StaleOK'
    BY <1>a DEF Inv, TypeOK, StaleOK, Listing, RowsOf, Items
  <1>12. ClosedOK'
    BY ItemIsClosed, <1>a DEF Inv, TypeOK, NextItem, ClosedOK, Second, RowsOf, Items
  <1>13. MirrorOK'
    BY <1>a, ItemsAssumption DEF Inv, TypeOK, MirrorOK, Second
  <1>14. MirroredOK'
    <2> SUFFICES ASSUME NEW i \in Items, snap[i].id # 0,
                        (phase' = "mirror" /\ i < at') \/ phase' = "done"
                 PROVE  /\ snap[i].id \notin touched =>
                              issue[snap[i].id].open = ~Settled(snap[i].row.decision)
                        /\ StatusFor(snap[i].row.decision) \in {"none", row[snap[i].id].status}
      BY <1>a DEF MirroredOK
    <2>1. phase = "mirror" /\ (i < at \/ i = at)
      BY <1>a DEF Inv, TypeOK, Items
    <2>2. CASE i < at
      BY <2>1, <2>2 DEF Inv, MirroredOK
    <2>3. CASE i = at
      BY <2>1, <2>3, ItemIsMirrored, <1>a
    <2> QED
      BY <2>1, <2>2, <2>3
  <1> QED
    BY <1>1, <1>2, <1>3, <1>4, <1>5, <1>6, <1>7, <1>8, <1>9, <1>10, <1>11, <1>12, <1>13, <1>14
       DEF Inv

LEMMA EndSyncInv ==
    ASSUME Inv, EndSync
    PROVE  Inv'
  <1>1. TypeOK'
    <2>1. /\ row' \in [Issues -> Row \union {OffBoard}]
          /\ issue' \in [Issues -> [item : 0..N, open : BOOLEAN]]
      BY DEF Inv, TypeOK, EndSync, Stop, github
    <2>2. /\ upstream' \in [Items -> {"unborn", "open", "closed", "merged"}]
          /\ snap' \in [Items -> [id : 0..(N + MaxFaults), row : Row \union {OffBoard}]]
          /\ phase' \in {"idle", "list_issues", "list_pulls", "refused", "items", "closed",
                         "reread", "list_tracking", "mirror", "done"}
      BY ItemsAssumption, BoundsAssumption DEF Inv, TypeOK, EndSync, Stop, Nothing, Goto,
         github
    <2>3. /\ moves' \in 0..MaxMoves /\ edits' \in 0..MaxEdits /\ faults' \in 0..MaxFaults
          /\ at' \in Items /\ step' \in 1..7 /\ mine' \in 0..(N + MaxFaults)
      BY ItemsAssumption, BoundsAssumption DEF Inv, TypeOK, Items, EndSync, Stop, Goto
    <2>4. /\ listed' \subseteq Items /\ open' \subseteq Issues
          /\ touched' \subseteq Issues /\ adopted' \subseteq Issues
          /\ yours' \in [Issues -> Decisions \union {"-"}]
      BY DEF Inv, TypeOK, EndSync, Stop
    <2> QED
      BY <2>1, <2>2, <2>3, <2>4 DEF TypeOK
  <1>2. RowsOK'
    BY DEF Inv, EndSync, Stop, github, RowsOK, OnBoard
  <1>3. SnapOK'
    BY DEF Inv, EndSync, Stop, Nothing, SnapOK
  <1>4. MineOK'
    BY DEF Inv, EndSync, Stop, Goto, MineOK
  <1>5. CallsOK'
    BY DEF Inv, EndSync, Stop, Goto, CallsOK, Effect, Target
  <1>6. AbsentOK'
    BY DEF Inv, EndSync, Stop, Goto, AbsentOK, Before, Listing
  <1>7. OneRow'
    BY DEF Inv, EndSync, Stop, github, OneRow, OnBoard
  <1>8. UnnumberedOK'
    BY DEF Inv, EndSync, Stop, Goto, UnnumberedOK, Before, Listing
  <1>9. OneNumber'
    BY DEF Inv, EndSync, Stop, github, OneNumber, OnBoard
  <1>10. ListedOK'
    BY DEF Inv, EndSync, Stop, ListedOK
  <1>11. StaleOK'
    BY DEF Inv, EndSync, Stop, Goto, StaleOK, Listing
  <1>12. ClosedOK'
    BY DEF Inv, EndSync, Stop, Goto, ClosedOK, Second
  <1>13. MirrorOK'
    BY DEF Inv, EndSync, Stop, Nothing, MirrorOK
  <1>14. MirroredOK'
    BY DEF Inv, EndSync, Stop, Nothing, MirroredOK
  <1> QED
    BY <1>1, <1>2, <1>3, <1>4, <1>5, <1>6, <1>7, <1>8, <1>9, <1>10, <1>11, <1>12, <1>13, <1>14
       DEF Inv

LEMMA SyncDiesInv ==
    ASSUME Inv, SyncDies
    PROVE  Inv'
  <1>1. TypeOK'
    <2>1. /\ row' \in [Issues -> Row \union {OffBoard}]
          /\ issue' \in [Issues -> [item : 0..N, open : BOOLEAN]]
      BY DEF Inv, TypeOK, SyncDies, Stop, github
    <2>2. /\ upstream' \in [Items -> {"unborn", "open", "closed", "merged"}]
          /\ snap' \in [Items -> [id : 0..(N + MaxFaults), row : Row \union {OffBoard}]]
          /\ phase' \in {"idle", "list_issues", "list_pulls", "refused", "items", "closed",
                         "reread", "list_tracking", "mirror", "done"}
      BY ItemsAssumption, BoundsAssumption DEF Inv, TypeOK, SyncDies, Stop, Nothing, Goto,
         github
    <2>3. /\ moves' \in 0..MaxMoves /\ edits' \in 0..MaxEdits /\ faults' \in 0..MaxFaults
          /\ at' \in Items /\ step' \in 1..7 /\ mine' \in 0..(N + MaxFaults)
      BY ItemsAssumption, BoundsAssumption DEF Inv, TypeOK, Items, SyncDies, Stop, Goto
    <2>4. /\ listed' \subseteq Items /\ open' \subseteq Issues
          /\ touched' \subseteq Issues /\ adopted' \subseteq Issues
          /\ yours' \in [Issues -> Decisions \union {"-"}]
      BY DEF Inv, TypeOK, SyncDies, Stop
    <2> QED
      BY <2>1, <2>2, <2>3, <2>4 DEF TypeOK
  <1>2. RowsOK'
    BY DEF Inv, SyncDies, Stop, github, RowsOK, OnBoard
  <1>3. SnapOK'
    BY DEF Inv, SyncDies, Stop, Nothing, SnapOK
  <1>4. MineOK'
    BY DEF Inv, SyncDies, Stop, Goto, MineOK
  <1>5. CallsOK'
    BY DEF Inv, SyncDies, Stop, Goto, CallsOK, Effect, Target
  <1>6. AbsentOK'
    BY DEF Inv, SyncDies, Stop, Goto, AbsentOK, Before, Listing
  <1>7. OneRow'
    BY DEF Inv, SyncDies, Stop, github, OneRow, OnBoard
  <1>8. UnnumberedOK'
    BY DEF Inv, SyncDies, Stop, Goto, UnnumberedOK, Before, Listing
  <1>9. OneNumber'
    BY DEF Inv, SyncDies, Stop, github, OneNumber, OnBoard
  <1>10. ListedOK'
    BY DEF Inv, SyncDies, Stop, ListedOK
  <1>11. StaleOK'
    BY DEF Inv, SyncDies, Stop, Goto, StaleOK, Listing
  <1>12. ClosedOK'
    BY DEF Inv, SyncDies, Stop, Goto, ClosedOK, Second
  <1>13. MirrorOK'
    BY DEF Inv, SyncDies, Stop, Nothing, MirrorOK
  <1>14. MirroredOK'
    BY DEF Inv, SyncDies, Stop, Nothing, MirroredOK
  <1> QED
    BY <1>1, <1>2, <1>3, <1>4, <1>5, <1>6, <1>7, <1>8, <1>9, <1>10, <1>11, <1>12, <1>13, <1>14
       DEF Inv

-----------------------------------------------------------------------------
(* The calls *)

\* An item is numbered before it is called open.
LEMMA NumberedFirst ==
    ASSUME Inv, NEW i, NEW k, Call(i, "Upstream_state", k)
    PROVE  row[k].num
  <1>1. /\ i = at /\ k = Target(at) /\ at \in Items /\ step \in 1..Len(Calls(at))
        /\ phase = "items" /\ at \in listed
        /\ snap[at].id = 0 => step = 5
        /\ snap[at].id # 0 /\ ~snap[at].row.num => step >= 3
    BY CallIs DEF Inv
  <1>2. CASE snap[at].id = 0
    <2>1. Effect(Calls(at)[3]) /\ Calls(at)[3] = "Upstream"
      BY <1>1, <1>2, AddCalls DEF Calls, Inv, CallsOK
    <2> QED
      BY <1>1, <2>1 DEF Effect
  <1>3. CASE snap[at].id # 0 /\ ~snap[at].row.num
    <2>1. Calls(at) = Refresh(snap[at].row) /\ snap[at].row \in Row
      BY <1>1, <1>3 DEF Calls, Inv, SnapOK, TypeOK
    <2>2. Effect(Calls(at)[1]) /\ Calls(at)[1] = "Upstream"
      BY <1>1, <1>3, <2>1, RefreshCalls DEF Inv, CallsOK
    <2> QED
      BY <1>1, <2>2 DEF Effect
  <1>4. CASE snap[at].id # 0 /\ snap[at].row.num
    BY <1>1, <1>4 DEF Inv, SnapOK, Target
  <1> QED
    BY <1>2, <1>3, <1>4

LEMMA SetUpstreamInv ==
    ASSUME Inv, NEW i \in Items, NEW k \in Issues, Call(i, "Upstream", k),
           row' = [row EXCEPT ![k].num = TRUE],
           UNCHANGED <<issue, mine, faults>>
    PROVE  Inv'
  <1>a. /\ at \in Items /\ k = Target(at) /\ k # 0 /\ OnBoard(k) /\ issue[k].item = at
        /\ row[k] \in Row
        /\ "Upstream" = Calls(at)[step] /\ step \in 1..6 /\ step <= Len(Calls(at))
        /\ phase = "items" /\ at \in listed
        /\ IF snap[at].id = 0 THEN step = 3 ELSE step = 1 /\ ~snap[at].row.num
      <2>1. /\ i = at /\ at \in Items /\ k = Target(at)
            /\ "Upstream" = Calls(at)[step] /\ step \in 1..6 /\ step <= Len(Calls(at))
            /\ phase = "items" /\ at \in listed
            /\ IF snap[at].id = 0 THEN step = 3 ELSE step = 1 /\ ~snap[at].row.num
        BY CallIs DEF Inv
      <2>2. OnBoard(k) /\ issue[k].item = at
        BY TargetIsThere
      <2>3. row[k] \in Row /\ k # 0
        BY <2>2 DEF Inv, TypeOK, OnBoard, Issues
      <2> QED
        BY <2>1, <2>2, <2>3
  <1>b. /\ UNCHANGED <<upstream, issue, moves, edits, faults, phase, snap, listed, open, at, mine,
                        yours, touched, adopted>>
        /\ step' = step + 1
    BY DEF Call, ghosts
  <1>c. Calls(at)' = Calls(at)
    BY <1>b DEF Calls, Mirror
  <1>d. /\ row' \in [Issues -> Row \union {OffBoard}] /\ row'[k] \in Row
        /\ \A l \in Issues : l # k => row'[l] = row[l]
        /\ row'[k].num = TRUE /\ row'[k].state = row[k].state
        /\ row'[k].decision = row[k].decision /\ row'[k].status = row[k].status
    BY <1>a DEF Inv, TypeOK, Row
  <1>e. /\ \A l \in Issues : OnBoard(l)' = OnBoard(l)
        /\ \A j \in Items : RowsOf(j)' = RowsOf(j)
        /\ \A j \in Items : RowsOf(j) \subseteq Issues /\ (k \in RowsOf(j) => j = at)
        /\ \A j \in Items : j # at /\ snap[j].id # 0 => snap[j].id # k
      <2>1. \A l \in Issues : OnBoard(l)' = OnBoard(l)
        BY <1>a, <1>d, RowAssumption DEF OnBoard
      <2>2. \A j \in Items : RowsOf(j)' = RowsOf(j)
        BY <2>1, <1>b DEF RowsOf, OnBoard
      <2> QED
        BY <2>1, <2>2, <1>a DEF Inv, RowsOf, SnapOK
  <1>1. TypeOK'
    <2>1. row' \in [Issues -> Row \union {OffBoard}]
      BY <1>d DEF Inv, TypeOK
    <2>2. issue' \in [Issues -> [item : 0..N, open : BOOLEAN]]
      BY <1>b DEF Inv, TypeOK
    <2>3. faults' \in 0..MaxFaults /\ step' \in 1..7 /\ mine' \in 0..(N + MaxFaults)
      BY <1>a, <1>b DEF Inv, TypeOK
    <2> QED
      BY <2>1, <2>2, <2>3, <1>b DEF Inv, TypeOK
  <1>2. RowsOK'
    BY <1>b, <1>e DEF Inv, RowsOK
  <1>3. SnapOK'
    BY <1>b, <1>e DEF Inv, SnapOK
  <1>4. MineOK'
    BY <1>a, <1>b DEF Inv, MineOK, Loops
  <1>5. CallsOK'
    <2>1. \A x : Effect(x) => Effect(x)'
      <3>1. Target(at)' = Target(at)
        BY <1>b DEF Target
      <3> QED
        BY <3>1, <1>a, <1>b, <1>d, <1>e DEF Effect
    <2>2. Effect("Upstream")'
      BY <1>a, <1>b, <1>d, <1>e DEF Effect, Target
    <2>3. "Upstream" = Calls(at)[step] /\ step <= Len(Calls(at)) /\ step \in 1..6
      BY <1>a
    <2> QED
      BY <2>1, <2>2, <2>3, <1>b, <1>c DEF Inv, CallsOK
  <1>6. AbsentOK'
    BY <1>a, <1>b, <1>e DEF Inv, AbsentOK, Before
  <1>7. OneRow'
    BY <1>a, <1>b DEF Inv, OneRow, OnBoard
  <1>8. UnnumberedOK'
    BY <1>a, <1>b, <1>e DEF Inv, TypeOK, UnnumberedOK, Before, Listing
  <1>9. OneNumber'
    <2>1. \A l \in RowsOf(at) : ~row[l].num
      BY <1>a DEF Inv, UnnumberedOK, Before
    <2> QED
      BY <2>1, <1>a DEF Inv, OneNumber, OnBoard, RowsOf
  <1>10. ListedOK'
    BY <1>b, <1>e DEF Inv, TypeOK, ListedOK, Second
  <1>11. StaleOK'
    BY <1>b, <1>e DEF Inv, StaleOK
  <1>12. ClosedOK'
    BY <1>a, <1>b DEF Inv, ClosedOK, Second
  <1>13. MirrorOK'
    BY <1>b DEF Inv, MirrorOK
  <1>14. MirroredOK'
    BY <1>b DEF Inv, MirroredOK
  <1> QED
    BY <1>1, <1>2, <1>3, <1>4, <1>5, <1>6, <1>7, <1>8, <1>9, <1>10, <1>11, <1>12, <1>13, <1>14
       DEF Inv

LEMMA SetKindInv ==
    ASSUME Inv, NEW i \in Items, NEW k \in Issues, Call(i, "Kind", k),
           row' = [row EXCEPT ![k].kind = TRUE],
           UNCHANGED <<issue, mine, faults>>
    PROVE  Inv'
  <1>a. /\ at \in Items /\ k = Target(at) /\ k # 0 /\ OnBoard(k) /\ issue[k].item = at
        /\ row[k] \in Row
        /\ "Kind" = Calls(at)[step] /\ step \in 1..6 /\ step <= Len(Calls(at))
        /\ phase = "items" /\ at \in listed
      <2>1. /\ i = at /\ at \in Items /\ k = Target(at)
            /\ "Kind" = Calls(at)[step] /\ step \in 1..6 /\ step <= Len(Calls(at))
            /\ phase = "items" /\ at \in listed
        BY CallIs DEF Inv
      <2>2. OnBoard(k) /\ issue[k].item = at
        BY TargetIsThere
      <2>3. row[k] \in Row /\ k # 0
        BY <2>2 DEF Inv, TypeOK, OnBoard, Issues
      <2> QED
        BY <2>1, <2>2, <2>3
  <1>b. /\ UNCHANGED <<upstream, issue, moves, edits, faults, phase, snap, listed, open, at, mine,
                        yours, touched, adopted>>
        /\ step' = step + 1
    BY DEF Call, ghosts
  <1>c. Calls(at)' = Calls(at)
    BY <1>b DEF Calls, Mirror
  <1>d. /\ row' \in [Issues -> Row \union {OffBoard}] /\ row'[k] \in Row
        /\ \A l \in Issues : l # k => row'[l] = row[l]
        /\ row'[k].num = row[k].num /\ row'[k].state = row[k].state
        /\ row'[k].decision = row[k].decision /\ row'[k].status = row[k].status
    BY <1>a DEF Inv, TypeOK, Row
  <1>e. /\ \A l \in Issues : OnBoard(l)' = OnBoard(l)
        /\ \A j \in Items : RowsOf(j)' = RowsOf(j)
        /\ \A j \in Items : RowsOf(j) \subseteq Issues /\ (k \in RowsOf(j) => j = at)
        /\ \A j \in Items : j # at /\ snap[j].id # 0 => snap[j].id # k
      <2>1. \A l \in Issues : OnBoard(l)' = OnBoard(l)
        BY <1>a, <1>d, RowAssumption DEF OnBoard
      <2>2. \A j \in Items : RowsOf(j)' = RowsOf(j)
        BY <2>1, <1>b DEF RowsOf, OnBoard
      <2> QED
        BY <2>1, <2>2, <1>a DEF Inv, RowsOf, SnapOK
  <1>1. TypeOK'
    <2>1. row' \in [Issues -> Row \union {OffBoard}]
      BY <1>d DEF Inv, TypeOK
    <2>2. issue' \in [Issues -> [item : 0..N, open : BOOLEAN]]
      BY <1>b DEF Inv, TypeOK
    <2>3. faults' \in 0..MaxFaults /\ step' \in 1..7 /\ mine' \in 0..(N + MaxFaults)
      BY <1>a, <1>b DEF Inv, TypeOK
    <2> QED
      BY <2>1, <2>2, <2>3, <1>b DEF Inv, TypeOK
  <1>2. RowsOK'
    BY <1>b, <1>e DEF Inv, RowsOK
  <1>3. SnapOK'
    BY <1>a, <1>b, <1>c, <1>d, <1>e DEF Inv, TypeOK, SnapOK, Listing
  <1>4. MineOK'
    BY <1>a, <1>b DEF Inv, MineOK, Loops
  <1>5. CallsOK'
    <2>1. \A x : Effect(x) => Effect(x)'
      BY <1>a, <1>b, <1>d, <1>e DEF Effect, Target, OnBoard
    <2>2. Effect("Kind")'
      BY <1>a, <1>b, <1>e DEF Effect, Target
    <2>3. "Kind" = Calls(at)[step] /\ step <= Len(Calls(at)) /\ step \in 1..6
      BY <1>a
    <2> QED
      BY <2>1, <2>2, <2>3, <1>b, <1>c DEF Inv, CallsOK
  <1>6. AbsentOK'
    BY <1>a, <1>b, <1>e DEF Inv, AbsentOK, Before
  <1>7. OneRow'
    BY <1>a, <1>b DEF Inv, OneRow, OnBoard
  <1>8. UnnumberedOK'
    BY <1>a, <1>b, <1>c, <1>d, <1>e DEF Inv, TypeOK, UnnumberedOK, Before, Listing
  <1>9. OneNumber'
    BY <1>a DEF Inv, OneNumber, OnBoard
  <1>10. ListedOK'
    <2>1. \A l \in Issues : row'[l].num = row[l].num /\ row'[l].state = row[l].state
      BY <1>d
    <2> QED
      BY <2>1, <1>b, <1>e DEF Inv, TypeOK, ListedOK, Second
  <1>11. StaleOK'
    BY <1>b, <1>e DEF Inv, StaleOK
  <1>12. ClosedOK'
    BY <1>a, <1>b DEF Inv, ClosedOK, Second
  <1>13. MirrorOK'
    BY <1>b DEF Inv, MirrorOK
  <1>14. MirroredOK'
    BY <1>b DEF Inv, MirroredOK
  <1> QED
    BY <1>1, <1>2, <1>3, <1>4, <1>5, <1>6, <1>7, <1>8, <1>9, <1>10, <1>11, <1>12, <1>13, <1>14
       DEF Inv

LEMMA SetStateInv ==
    ASSUME Inv, NEW i \in Items, NEW k \in Issues, Call(i, "Upstream_state", k),
           row' = [row EXCEPT ![k].state = "open"],
           UNCHANGED <<issue, mine, faults>>
    PROVE  Inv'
  <1>a. /\ at \in Items /\ k = Target(at) /\ k # 0 /\ OnBoard(k) /\ issue[k].item = at
        /\ row[k] \in Row
        /\ "Upstream_state" = Calls(at)[step] /\ step \in 1..6 /\ step <= Len(Calls(at))
        /\ phase = "items" /\ at \in listed /\ row[k].num
      <2>1. /\ i = at /\ at \in Items /\ k = Target(at)
            /\ "Upstream_state" = Calls(at)[step] /\ step \in 1..6 /\ step <= Len(Calls(at))
            /\ phase = "items" /\ at \in listed /\ row[k].num
        BY CallIs, NumberedFirst DEF Inv
      <2>2. OnBoard(k) /\ issue[k].item = at
        BY TargetIsThere
      <2>3. row[k] \in Row /\ k # 0
        BY <2>2 DEF Inv, TypeOK, OnBoard, Issues
      <2> QED
        BY <2>1, <2>2, <2>3
  <1>b. /\ UNCHANGED <<upstream, issue, moves, edits, faults, phase, snap, listed, open, at, mine,
                        yours, touched, adopted>>
        /\ step' = step + 1
    BY DEF Call, ghosts
  <1>c. Calls(at)' = Calls(at)
    BY <1>b DEF Calls, Mirror
  <1>d. /\ row' \in [Issues -> Row \union {OffBoard}] /\ row'[k] \in Row
        /\ \A l \in Issues : l # k => row'[l] = row[l]
        /\ row'[k].num = row[k].num /\ row'[k].state = "open"
        /\ row'[k].decision = row[k].decision /\ row'[k].status = row[k].status
    BY <1>a DEF Inv, TypeOK, Row
  <1>e. /\ \A l \in Issues : OnBoard(l)' = OnBoard(l)
        /\ \A j \in Items : RowsOf(j)' = RowsOf(j)
        /\ \A j \in Items : RowsOf(j) \subseteq Issues /\ (k \in RowsOf(j) => j = at)
        /\ \A j \in Items : j # at /\ snap[j].id # 0 => snap[j].id # k
      <2>1. \A l \in Issues : OnBoard(l)' = OnBoard(l)
        BY <1>a, <1>d, RowAssumption DEF OnBoard
      <2>2. \A j \in Items : RowsOf(j)' = RowsOf(j)
        BY <2>1, <1>b DEF RowsOf, OnBoard
      <2> QED
        BY <2>1, <2>2, <1>a DEF Inv, RowsOf, SnapOK
  <1>1. TypeOK'
    <2>1. row' \in [Issues -> Row \union {OffBoard}]
      BY <1>d DEF Inv, TypeOK
    <2>2. issue' \in [Issues -> [item : 0..N, open : BOOLEAN]]
      BY <1>b DEF Inv, TypeOK
    <2>3. faults' \in 0..MaxFaults /\ step' \in 1..7 /\ mine' \in 0..(N + MaxFaults)
      BY <1>a, <1>b DEF Inv, TypeOK
    <2> QED
      BY <2>1, <2>2, <2>3, <1>b DEF Inv, TypeOK
  <1>2. RowsOK'
    BY <1>a, <1>b, <1>e DEF Inv, RowsOK
  <1>3. SnapOK'
    BY <1>b, <1>e DEF Inv, SnapOK
  <1>4. MineOK'
    BY <1>a, <1>b DEF Inv, MineOK, Loops
  <1>5. CallsOK'
    <2>1. \A x : Effect(x) => Effect(x)'
      BY <1>a, <1>b, <1>d, <1>e DEF Effect, Target, OnBoard
    <2>2. Effect("Upstream_state")'
      BY <1>a, <1>b, <1>d, <1>e DEF Effect, Target, OnBoard
    <2>3. "Upstream_state" = Calls(at)[step] /\ step <= Len(Calls(at)) /\ step \in 1..6
      BY <1>a
    <2> QED
      BY <2>1, <2>2, <2>3, <1>b, <1>c DEF Inv, CallsOK
  <1>6. AbsentOK'
    BY <1>a, <1>b, <1>e DEF Inv, AbsentOK, Before
  <1>7. OneRow'
    BY <1>a, <1>b DEF Inv, OneRow, OnBoard
  <1>8. UnnumberedOK'
    BY <1>a, <1>b, <1>e DEF Inv, UnnumberedOK, Before
  <1>9. OneNumber'
    BY <1>a DEF Inv, OneNumber, OnBoard
  <1>10. ListedOK'
    BY <1>b, <1>e DEF Inv, TypeOK, ListedOK
  <1>11. StaleOK'
    BY <1>a, <1>b, <1>e DEF Inv, StaleOK, Listing
  <1>12. ClosedOK'
    BY <1>a, <1>b DEF Inv, ClosedOK, Second
  <1>13. MirrorOK'
    BY <1>b DEF Inv, MirrorOK
  <1>14. MirroredOK'
    BY <1>b DEF Inv, MirroredOK
  <1> QED
    BY <1>1, <1>2, <1>3, <1>4, <1>5, <1>6, <1>7, <1>8, <1>9, <1>10, <1>11, <1>12, <1>13, <1>14
       DEF Inv

LEMMA SetDecisionInv ==
    ASSUME Inv, NEW i \in Items, NEW k \in Issues, Call(i, "Fork_decision", k),
           row' = [row EXCEPT ![k].decision = "Untriaged"],
           UNCHANGED <<issue, mine, faults>>
    PROVE  Inv'
  <1>a. /\ at \in Items /\ k = Target(at) /\ k # 0 /\ OnBoard(k) /\ issue[k].item = at
        /\ row[k] \in Row
        /\ "Fork_decision" = Calls(at)[step] /\ step \in 1..6 /\ step <= Len(Calls(at))
        /\ phase = "items" /\ at \in listed /\ yours[k] = "-"
      <2>1. /\ i = at /\ at \in Items /\ k = Target(at)
            /\ "Fork_decision" = Calls(at)[step] /\ step \in 1..6 /\ step <= Len(Calls(at))
            /\ phase = "items" /\ at \in listed
            /\ IF snap[at].id = 0 THEN step = 6 ELSE snap[at].row.decision = "-"
        BY CallIs DEF Inv
      <2>2. OnBoard(k) /\ issue[k].item = at
        BY TargetIsThere
      <2>3. row[k] \in Row /\ k # 0
        BY <2>2 DEF Inv, TypeOK, OnBoard, Issues
      <2>4. yours[k] = "-"
        <3>1. CASE snap[at].id = 0
          BY <2>1, <2>3, <3>1 DEF Inv, MineOK, Target
        <3>2. CASE snap[at].id # 0
          <4>1. k = snap[at].id /\ snap[at].row.decision = "-"
            BY <2>1, <3>2 DEF Target
          <4> QED
            BY <2>1, <3>2, <4>1 DEF Inv, SnapOK
        <3> QED
          BY <3>1, <3>2
      <2> QED
        BY <2>1, <2>2, <2>3, <2>4
  <1>b. /\ UNCHANGED <<upstream, issue, moves, edits, faults, phase, snap, listed, open, at, mine,
                        yours, touched, adopted>>
        /\ step' = step + 1
    BY DEF Call, ghosts
  <1>c. Calls(at)' = Calls(at)
    BY <1>b DEF Calls, Mirror
  <1>d. /\ row' \in [Issues -> Row \union {OffBoard}] /\ row'[k] \in Row
        /\ \A l \in Issues : l # k => row'[l] = row[l]
        /\ row'[k].num = row[k].num /\ row'[k].state = row[k].state
        /\ row'[k].decision = "Untriaged" /\ row'[k].status = row[k].status
    BY <1>a DEF Inv, TypeOK, Row, Decisions
  <1>e. /\ \A l \in Issues : OnBoard(l)' = OnBoard(l)
        /\ \A j \in Items : RowsOf(j)' = RowsOf(j)
        /\ \A j \in Items : RowsOf(j) \subseteq Issues /\ (k \in RowsOf(j) => j = at)
        /\ \A j \in Items : j # at /\ snap[j].id # 0 => snap[j].id # k
      <2>1. \A l \in Issues : OnBoard(l)' = OnBoard(l)
        BY <1>a, <1>d, RowAssumption DEF OnBoard
      <2>2. \A j \in Items : RowsOf(j)' = RowsOf(j)
        BY <2>1, <1>b DEF RowsOf, OnBoard
      <2> QED
        BY <2>1, <2>2, <1>a DEF Inv, RowsOf, SnapOK
  <1>1. TypeOK'
    <2>1. row' \in [Issues -> Row \union {OffBoard}]
      BY <1>d DEF Inv, TypeOK
    <2>2. issue' \in [Issues -> [item : 0..N, open : BOOLEAN]]
      BY <1>b DEF Inv, TypeOK
    <2>3. faults' \in 0..MaxFaults /\ step' \in 1..7 /\ mine' \in 0..(N + MaxFaults)
      BY <1>a, <1>b DEF Inv, TypeOK
    <2> QED
      BY <2>1, <2>2, <2>3, <1>b DEF Inv, TypeOK
  <1>2. RowsOK'
    BY <1>a, <1>b DEF Inv, RowsOK, OnBoard
  <1>3. SnapOK'
    BY <1>b, <1>e DEF Inv, SnapOK
  <1>4. MineOK'
    BY <1>a, <1>b DEF Inv, MineOK, Loops
  <1>5. CallsOK'
    <2>1. \A x : Effect(x) => Effect(x)'
      <3>1. Target(at)' = Target(at)
        BY <1>b DEF Target
      <3> QED
        BY <3>1, <1>a, <1>b, <1>d, <1>e DEF Effect
    <2>2. Effect("Fork_decision")'
      BY <1>a, <1>b, <1>e DEF Effect, Target, OnBoard
    <2>3. "Fork_decision" = Calls(at)[step] /\ step <= Len(Calls(at)) /\ step \in 1..6
      BY <1>a
    <2> QED
      BY <2>1, <2>2, <2>3, <1>b, <1>c DEF Inv, CallsOK
  <1>6. AbsentOK'
    BY <1>a, <1>b, <1>e DEF Inv, AbsentOK, Before
  <1>7. OneRow'
    BY <1>a, <1>b DEF Inv, OneRow, OnBoard
  <1>8. UnnumberedOK'
    BY <1>a, <1>b, <1>c, <1>d, <1>e DEF Inv, TypeOK, UnnumberedOK, Before, Listing
  <1>9. OneNumber'
    BY <1>a DEF Inv, OneNumber, OnBoard
  <1>10. ListedOK'
    BY <1>b, <1>e DEF Inv, TypeOK, ListedOK, Second
  <1>11. StaleOK'
    BY <1>b, <1>e DEF Inv, StaleOK
  <1>12. ClosedOK'
    BY <1>a, <1>b DEF Inv, ClosedOK, Second
  <1>13. MirrorOK'
    BY <1>a, <1>b DEF Inv, MirrorOK, Second
  <1>14. MirroredOK'
    BY <1>b DEF Inv, MirroredOK
  <1> QED
    BY <1>1, <1>2, <1>3, <1>4, <1>5, <1>6, <1>7, <1>8, <1>9, <1>10, <1>11, <1>12, <1>13, <1>14
       DEF Inv

LEMMA SetStatusInv ==
    ASSUME Inv, NEW i \in Items, NEW k \in Issues, Call(i, "Status", k),
           row' = [row EXCEPT ![k].status = StatusFor(snap[i].row.decision)],
           UNCHANGED <<issue, mine, faults>>
    PROVE  Inv'
  <1>a. /\ at \in Items /\ k = Target(at) /\ k # 0 /\ OnBoard(k) /\ issue[k].item = at
        /\ row[k] \in Row
        /\ "Status" = Calls(at)[step] /\ step \in 1..6 /\ step <= Len(Calls(at))
        /\ i = at /\ phase = "mirror" /\ snap[at].id # 0
        /\ StatusFor(snap[at].row.decision) \in {"Todo", "In_Progress", "Done"}
      <2>1. /\ i = at /\ at \in Items /\ k = Target(at)
            /\ "Status" = Calls(at)[step] /\ step \in 1..6 /\ step <= Len(Calls(at))
            /\ phase = "mirror" /\ snap[at].id # 0
            /\ StatusFor(snap[at].row.decision) # "none"
        BY CallIs DEF Inv
      <2>2. OnBoard(k) /\ issue[k].item = at
        BY TargetIsThere
      <2>3. row[k] \in Row /\ k # 0
        BY <2>2 DEF Inv, TypeOK, OnBoard, Issues
      <2>4. StatusFor(snap[at].row.decision) \in {"none", "Todo", "In_Progress", "Done"}
        BY DEF StatusFor
      <2> QED
        BY <2>1, <2>2, <2>3, <2>4
  <1>b. /\ UNCHANGED <<upstream, issue, moves, edits, faults, phase, snap, listed, open, at, mine,
                        yours, touched, adopted>>
        /\ step' = step + 1
    BY DEF Call, ghosts
  <1>c. Calls(at)' = Calls(at)
    BY <1>b DEF Calls, Mirror
  <1>d. /\ row' \in [Issues -> Row \union {OffBoard}] /\ row'[k] \in Row
        /\ \A l \in Issues : l # k => row'[l] = row[l]
        /\ row'[k].num = row[k].num /\ row'[k].state = row[k].state
        /\ row'[k].decision = row[k].decision /\ row'[k].status = StatusFor(snap[i].row.decision)
    BY <1>a DEF Inv, TypeOK, Row
  <1>e. /\ \A l \in Issues : OnBoard(l)' = OnBoard(l)
        /\ \A j \in Items : RowsOf(j)' = RowsOf(j)
        /\ \A j \in Items : RowsOf(j) \subseteq Issues /\ (k \in RowsOf(j) => j = at)
        /\ \A j \in Items : j # at /\ snap[j].id # 0 => snap[j].id # k
      <2>1. \A l \in Issues : OnBoard(l)' = OnBoard(l)
        BY <1>a, <1>d, RowAssumption DEF OnBoard
      <2>2. \A j \in Items : RowsOf(j)' = RowsOf(j)
        BY <2>1, <1>b DEF RowsOf, OnBoard
      <2> QED
        BY <2>1, <2>2, <1>a DEF Inv, RowsOf, SnapOK
  <1>1. TypeOK'
    <2>1. row' \in [Issues -> Row \union {OffBoard}]
      BY <1>d DEF Inv, TypeOK
    <2>2. issue' \in [Issues -> [item : 0..N, open : BOOLEAN]]
      BY <1>b DEF Inv, TypeOK
    <2>3. faults' \in 0..MaxFaults /\ step' \in 1..7 /\ mine' \in 0..(N + MaxFaults)
      BY <1>a, <1>b DEF Inv, TypeOK
    <2> QED
      BY <2>1, <2>2, <2>3, <1>b DEF Inv, TypeOK
  <1>2. RowsOK'
    BY <1>b, <1>e DEF Inv, RowsOK
  <1>3. SnapOK'
    BY <1>b, <1>e DEF Inv, SnapOK
  <1>4. MineOK'
    BY <1>a, <1>b DEF Inv, MineOK, Loops
  <1>5. CallsOK'
    <2>1. \A x : Effect(x) => Effect(x)'
      BY <1>a, <1>b, <1>d, <1>e DEF Effect, Target, OnBoard
    <2>2. Effect("Status")'
      BY <1>a, <1>b, <1>d, <1>e DEF Effect, Target
    <2>3. "Status" = Calls(at)[step] /\ step <= Len(Calls(at)) /\ step \in 1..6
      BY <1>a
    <2> QED
      BY <2>1, <2>2, <2>3, <1>b, <1>c DEF Inv, CallsOK
  <1>6. AbsentOK'
    BY <1>a, <1>b DEF Inv, AbsentOK, Before, Listing
  <1>7. OneRow'
    BY <1>a, <1>b DEF Inv, OneRow, OnBoard
  <1>8. UnnumberedOK'
    BY <1>a, <1>b DEF Inv, UnnumberedOK, Before, Listing
  <1>9. OneNumber'
    BY <1>a DEF Inv, OneNumber, OnBoard
  <1>10. ListedOK'
    BY <1>b, <1>e DEF Inv, TypeOK, ListedOK
  <1>11. StaleOK'
    BY <1>a, <1>b DEF Inv, StaleOK, Listing
  <1>12. ClosedOK'
    BY <1>b, <1>e DEF Inv, ClosedOK
  <1>13. MirrorOK'
    <2> SUFFICES ASSUME NEW j \in Items, snap[j].id # 0
                 PROVE  /\ row'[snap[j].id].status
                              \in {snap[j].row.status, StatusFor(snap[j].row.decision)}
                        /\ row'[snap[j].id].decision = row[snap[j].id].decision
      BY <1>a, <1>b DEF Inv, MirrorOK, Second
    <2>1. CASE j = at
      BY <2>1, <1>a, <1>d DEF Target
    <2>2. CASE j # at
      <3>1. row'[snap[j].id] = row[snap[j].id]
        BY <2>2, <1>e DEF Inv
      <3> QED
        BY <3>1, <1>a DEF Inv, MirrorOK, Second
    <2> QED
      BY <2>1, <2>2
  <1>14. MirroredOK'
    BY <1>a, <1>b, <1>e DEF Inv, TypeOK, MirroredOK
  <1> QED
    BY <1>1, <1>2, <1>3, <1>4, <1>5, <1>6, <1>7, <1>8, <1>9, <1>10, <1>11, <1>12, <1>13, <1>14
       DEF Inv

LEMMA MarkClosedInv ==
    ASSUME Inv, NEW i \in Items, NEW k \in Issues, MarkClosed(i, k)
    PROVE  Inv'
  <1>a. /\ at \in Items /\ k = Target(at) /\ k # 0 /\ OnBoard(k) /\ issue[k].item = at
        /\ row[k] \in Row
        /\ "closed" = Calls(at)[step] /\ step \in 1..6 /\ step <= Len(Calls(at))
        /\ phase = "closed" /\ at \notin listed /\ step = 1
      <2>1. /\ i = at /\ at \in Items /\ k = Target(at)
            /\ "closed" = Calls(at)[step] /\ step \in 1..6 /\ step <= Len(Calls(at))
            /\ phase = "closed" /\ at \notin listed /\ step = 1
        BY CallIs DEF Inv, MarkClosed
      <2>2. OnBoard(k) /\ issue[k].item = at
        BY TargetIsThere DEF MarkClosed
      <2>3. row[k] \in Row /\ k # 0
        BY <2>2 DEF Inv, TypeOK, OnBoard, Issues
      <2> QED
        BY <2>1, <2>2, <2>3
  <1>b. /\ UNCHANGED <<upstream, issue, moves, edits, phase, snap, listed, open, at, mine,
                        yours, touched, adopted>>
        /\ step' = step + 1 /\ faults' \in 0..MaxFaults
    BY BoundsAssumption DEF Inv, TypeOK, MarkClosed, Call, ghosts
  <1>c. Calls(at)' = Calls(at)
    BY <1>b DEF Calls, Mirror
  <1>d. /\ row' \in [Issues -> Row \union {OffBoard}] /\ row'[k] \in Row
        /\ \A l \in Issues : l # k => row'[l] = row[l]
        /\ row'[k].num = row[k].num /\ row'[k].state # "open"
        /\ row'[k].decision = row[k].decision /\ row'[k].status = row[k].status
      <2>1. PICK new \in {"merged", "closed"} : row' = [row EXCEPT ![k].state = new]
        BY DEF MarkClosed
      <2>2. row \in [Issues -> Row \union {OffBoard}]
        BY DEF Inv, TypeOK
      <2>3. row'[k] = [row[k] EXCEPT !.state = new] /\ \A l \in Issues : l # k => row'[l] = row[l]
        BY <2>1, <2>2
      <2>4. /\ row'[k] \in Row /\ row'[k].num = row[k].num /\ row'[k].state # "open"
            /\ row'[k].decision = row[k].decision /\ row'[k].status = row[k].status
        BY <2>3, <1>a DEF Row
      <2> QED
        BY <2>1, <2>2, <2>3, <2>4
  <1>e. /\ \A l \in Issues : OnBoard(l)' = OnBoard(l)
        /\ \A j \in Items : RowsOf(j)' = RowsOf(j)
        /\ \A j \in Items : RowsOf(j) \subseteq Issues /\ (k \in RowsOf(j) => j = at)
        /\ \A j \in Items : j # at /\ snap[j].id # 0 => snap[j].id # k
      <2>1. \A l \in Issues : OnBoard(l)' = OnBoard(l)
        BY <1>a, <1>d, RowAssumption DEF OnBoard
      <2>2. \A j \in Items : RowsOf(j)' = RowsOf(j)
        BY <2>1, <1>b DEF RowsOf, OnBoard
      <2> QED
        BY <2>1, <2>2, <1>a DEF Inv, RowsOf, SnapOK
  <1>1. TypeOK'
    <2>1. row' \in [Issues -> Row \union {OffBoard}]
      BY <1>d DEF Inv, TypeOK
    <2>2. issue' \in [Issues -> [item : 0..N, open : BOOLEAN]]
      BY <1>b DEF Inv, TypeOK
    <2>3. faults' \in 0..MaxFaults /\ step' \in 1..7 /\ mine' \in 0..(N + MaxFaults)
      BY <1>a, <1>b DEF Inv, TypeOK
    <2> QED
      BY <2>1, <2>2, <2>3, <1>b DEF Inv, TypeOK
  <1>2. RowsOK'
    <2>1. \A l \in Issues :
             /\ row'[l].num = row[l].num
             /\ (row'[l].state = "open" => row[l].state = "open")
             /\ (row'[l].state = row[l].state \/ l = k)
      BY <1>d
    <2> QED
      BY <2>1, <1>b, <1>d, <1>e DEF Inv, RowsOK
  <1>3. SnapOK'
    <2>1. \A l \in Issues :
             /\ row'[l].num = row[l].num
             /\ (row'[l].state = "open" => row[l].state = "open")
             /\ (row'[l].state = row[l].state \/ l = k)
      BY <1>d
    <2>2. ASSUME NEW j \in Items, snap[j].id # 0
          PROVE  /\ snap[j].id \in RowsOf(j)'
                 /\ row'[snap[j].id].num = row[snap[j].id].num
      BY <2>1, <2>2, <1>e DEF Inv, SnapOK
    <2> QED
      BY <2>2, <1>a, <1>b DEF Inv, SnapOK, Listing
  <1>4. MineOK'
    BY <1>a, <1>b DEF Inv, MineOK, Loops
  <1>5. CallsOK'
    <2>1. \A x : Effect(x) => Effect(x)'
      BY <1>a, <1>b, <1>d, <1>e DEF Effect, Target
    <2>2. Effect("closed")'
      BY <1>a, <1>b, <1>d, <1>e DEF Effect, Target
    <2>3. "closed" = Calls(at)[step] /\ step <= Len(Calls(at)) /\ step \in 1..6
      BY <1>a
    <2> QED
      BY <2>1, <2>2, <2>3, <1>b, <1>c DEF Inv, CallsOK
  <1>6. AbsentOK'
    BY <1>a, <1>b DEF Inv, AbsentOK, Before, Listing
  <1>7. OneRow'
    BY <1>b, <1>e DEF Inv, OneRow
  <1>8. UnnumberedOK'
    BY <1>a, <1>b DEF Inv, UnnumberedOK, Before, Listing
  <1>9. OneNumber'
    <2>1. \A l \in Issues : row'[l].num = row[l].num
      BY <1>d
    <2> QED
      BY <2>1, <1>b, <1>e DEF Inv, OneNumber
  <1>10. ListedOK'
    <2>1. /\ listed' = listed /\ listed \subseteq Items /\ at \notin listed
          /\ phase' = phase /\ at' = at
      BY <1>a, <1>b DEF Inv, TypeOK
    <2>2. ASSUME NEW j \in listed, NEW l \in RowsOf(j)
          PROVE  l \in RowsOf(j)' /\ row'[l] = row[l]
      BY <2>1, <1>d, <1>e
    <2> QED
      BY <2>1, <2>2 DEF Inv, ListedOK
  <1>11. StaleOK'
    <2>1. \A l \in Issues :
             /\ row'[l].num = row[l].num
             /\ (row'[l].state = "open" => row[l].state = "open")
             /\ (row'[l].state = row[l].state \/ l = k)
      BY <1>d
    <2> QED
      BY <2>1, <1>b, <1>e DEF Inv, StaleOK
  <1>12. ClosedOK'
    <2>1. \A l \in Issues :
             /\ row'[l].num = row[l].num
             /\ (row'[l].state = "open" => row[l].state = "open")
             /\ (row'[l].state = row[l].state \/ l = k)
      BY <1>d
    <2> QED
      BY <2>1, <1>b, <1>e DEF Inv, ClosedOK
  <1>13. MirrorOK'
    BY <1>a, <1>b DEF Inv, MirrorOK, Second
  <1>14. MirroredOK'
    BY <1>a, <1>b DEF Inv, MirroredOK
  <1> QED
    BY <1>1, <1>2, <1>3, <1>4, <1>5, <1>6, <1>7, <1>8, <1>9, <1>10, <1>11, <1>12, <1>13, <1>14
       DEF Inv

LEMMA MirrorIssueInv ==
    ASSUME Inv, NEW i \in Items, NEW k \in Issues, MirrorIssue(i, k)
    PROVE  Inv'
  <1>a. /\ at \in Items /\ k = Target(at) /\ k # 0 /\ OnBoard(k) /\ issue[k].item = at
        /\ step \in 1..6 /\ step <= Len(Calls(at)) /\ phase = "mirror" /\ snap[at].id # 0
        /\ \/ Calls(at)[step] = "close" /\ Settled(snap[at].row.decision) /\ ~issue'[k].open
           \/ Calls(at)[step] = "reopen" /\ ~Settled(snap[at].row.decision) /\ issue'[k].open
      <2>1. PICK c \in {"close", "reopen"} :
               Call(i, c, k) /\ issue' = [issue EXCEPT ![k].open = (c = "reopen")]
        BY DEF MirrorIssue
      <2>2. /\ i = at /\ at \in Items /\ k = Target(at)
            /\ c = Calls(at)[step] /\ step \in 1..6 /\ step <= Len(Calls(at))
            /\ phase = "mirror" /\ snap[at].id # 0
            /\ c = "close" => Settled(snap[at].row.decision)
            /\ c = "reopen" => ~Settled(snap[at].row.decision)
        BY <2>1, CallIs DEF Inv
      <2>3. OnBoard(k) /\ issue[k].item = at
        BY <2>1, TargetIsThere
      <2>4. k # 0
        BY ItemsAssumption, BoundsAssumption DEF Issues
      <2>5. issue'[k].open = (c = "reopen")
        BY <2>1 DEF Inv, TypeOK
      <2> QED
        BY <2>1, <2>2, <2>3, <2>4, <2>5
  <1>b. /\ UNCHANGED <<upstream, row, moves, edits, faults, phase, snap, listed, open, at, mine,
                        yours, touched, adopted>>
        /\ step' = step + 1
    BY DEF MirrorIssue, Call, ghosts
  <1>c. Calls(at)' = Calls(at)
    BY <1>b DEF Calls, Mirror
  <1>d. /\ issue' \in [Issues -> [item : 0..N, open : BOOLEAN]]
        /\ \A l \in Issues : l # k => issue'[l] = issue[l]
        /\ \A l \in Issues : issue'[l].item = issue[l].item
      <2>1. PICK e \in BOOLEAN : issue' = [issue EXCEPT ![k].open = e]
        BY DEF MirrorIssue
      <2>2. issue \in [Issues -> [item : 0..N, open : BOOLEAN]]
        BY DEF Inv, TypeOK
      <2>3. /\ issue'[k] = [issue[k] EXCEPT !.open = e]
          /\ \A l \in Issues : l # k => issue'[l] = issue[l]
        BY <2>1, <2>2
      <2>4. issue'[k] \in [item : 0..N, open : BOOLEAN] /\ issue'[k].item = issue[k].item
        BY <2>2, <2>3
      <2> QED
        BY <2>1, <2>2, <2>3, <2>4
  <1>e. /\ \A l \in Issues : OnBoard(l)' = OnBoard(l)
        /\ \A j \in Items : RowsOf(j)' = RowsOf(j)
        /\ \A j \in Items : RowsOf(j) \subseteq Issues /\ (k \in RowsOf(j) => j = at)
        /\ \A j \in Items : j # at /\ snap[j].id # 0 => snap[j].id # k
      <2>1. \A l \in Issues : OnBoard(l)' = OnBoard(l)
        BY <1>b DEF OnBoard
      <2>2. \A j \in Items : RowsOf(j)' = RowsOf(j)
        BY <1>b, <1>d DEF RowsOf
      <2> QED
        BY <2>1, <2>2, <1>a DEF Inv, RowsOf, SnapOK
  <1>1. TypeOK'
    <2>1. row' \in [Issues -> Row \union {OffBoard}]
      BY <1>b DEF Inv, TypeOK
    <2>2. issue' \in [Issues -> [item : 0..N, open : BOOLEAN]]
      BY <1>d DEF Inv, TypeOK
    <2>3. faults' \in 0..MaxFaults /\ step' \in 1..7 /\ mine' \in 0..(N + MaxFaults)
      BY <1>a, <1>b DEF Inv, TypeOK
    <2> QED
      BY <2>1, <2>2, <2>3, <1>b DEF Inv, TypeOK
  <1>2. RowsOK'
    BY <1>b, <1>d, <1>e DEF Inv, RowsOK
  <1>3. SnapOK'
    BY <1>b, <1>e DEF Inv, SnapOK
  <1>4. MineOK'
    BY <1>a, <1>b DEF Inv, MineOK, Loops
  <1>5. CallsOK'
    <2>1. \A x : Effect(x) => Effect(x)'
      BY <1>a, <1>b DEF Effect, Target, OnBoard
    <2>2. CASE Calls(at)[step] = "close"
      <3>1. Effect("close")'
        BY <2>2, <1>a, <1>b DEF Effect, Target, OnBoard
      <3> QED
        BY <2>1, <2>2, <3>1, <1>a, <1>b, <1>c DEF Inv, CallsOK
    <2>3. CASE Calls(at)[step] = "reopen"
      <3>1. Effect("reopen")'
        BY <2>3, <1>a, <1>b DEF Effect, Target, OnBoard
      <3> QED
        BY <2>1, <2>3, <3>1, <1>a, <1>b, <1>c DEF Inv, CallsOK
    <2> QED
      BY <2>2, <2>3, <1>a
  <1>6. AbsentOK'
    BY <1>a, <1>b DEF Inv, AbsentOK, Before, Listing
  <1>7. OneRow'
    BY <1>b, <1>d, <1>e DEF Inv, OneRow
  <1>8. UnnumberedOK'
    BY <1>a, <1>b DEF Inv, UnnumberedOK, Before, Listing
  <1>9. OneNumber'
    BY <1>b, <1>d, <1>e DEF Inv, OneNumber
  <1>10. ListedOK'
    BY <1>b, <1>e DEF Inv, TypeOK, ListedOK
  <1>11. StaleOK'
    BY <1>a, <1>b DEF Inv, StaleOK, Listing
  <1>12. ClosedOK'
    BY <1>b, <1>e DEF Inv, ClosedOK
  <1>13. MirrorOK'
    <2> SUFFICES ASSUME NEW j \in Items, snap[j].id # 0, snap[j].id \notin touched
                 PROVE  issue'[snap[j].id].open
                            \in {(snap[j].id \in open), ~Settled(snap[j].row.decision)}
      BY <1>b DEF Inv, MirrorOK
    <2>1. CASE j = at
      <3>1. issue'[k].open \in BOOLEAN /\ snap[j].id = k
        BY <2>1, <1>a, <1>d DEF Target
      <3> QED
        BY <2>1, <3>1, <1>a DEF Settled
    <2>2. CASE j # at
      <3>1. issue'[snap[j].id] = issue[snap[j].id]
        BY <2>2, <1>d, <1>e DEF Inv, SnapOK
      <3> QED
        BY <3>1, <1>a DEF Inv, MirrorOK, Second
    <2> QED
      BY <2>1, <2>2
  <1>14. MirroredOK'
    <2> SUFFICES ASSUME NEW j \in Items, snap[j].id # 0, j < at
                 PROVE  issue'[snap[j].id] = issue[snap[j].id]
      BY <1>a, <1>b DEF Inv, MirroredOK
    <2> QED
      BY <1>d, <1>e DEF Inv, SnapOK, Items
  <1> QED
    BY <1>1, <1>2, <1>3, <1>4, <1>5, <1>6, <1>7, <1>8, <1>9, <1>10, <1>11, <1>12, <1>13, <1>14
       DEF Inv

LEMMA CreateIssueInv ==
    ASSUME Inv, NEW i \in Items, CreateIssue(i)
    PROVE  Inv'
  <1>a. /\ i = at /\ at \in Items /\ step = 1
        /\ step <= Len(Calls(at)) /\ "create" = Calls(at)[step]
        /\ phase = "items" /\ at \in listed /\ snap[at].id = 0
    BY CallIs DEF Inv, CreateIssue
  <1>b. /\ UNCHANGED <<upstream, row, moves, edits, faults, phase, snap, listed, open, at,
                        yours, touched, adopted>>
        /\ step' = step + 1
    BY DEF CreateIssue, Call, ghosts
  <1>c. Calls(at)' = Calls(at)
    BY <1>b DEF Calls, Mirror
  <1>d. PICK k \in Issues : /\ issue[k].item = 0 /\ mine' = k
                             /\ issue' = [issue EXCEPT ![k] = [item |-> at, open |-> TRUE]]
    BY <1>a DEF CreateIssue
  <1>e. /\ k # 0 /\ ~OnBoard(k) /\ yours[k] = "-"
        /\ issue' \in [Issues -> [item : 0..N, open : BOOLEAN]] /\ issue'[k].item = at
        /\ \A l \in Issues : l # k => issue'[l] = issue[l]
    <2>1. k # 0
      BY ItemsAssumption, BoundsAssumption DEF Issues
    <2>2. ~OnBoard(k) /\ yours[k] = "-"
      BY <1>d DEF Inv, TypeOK, RowsOK
    <2>3. issue \in [Issues -> [item : 0..N, open : BOOLEAN]]
      BY DEF Inv, TypeOK
    <2>4. [item |-> at, open |-> TRUE] \in [item : 0..N, open : BOOLEAN]
      BY <1>a, ItemsAssumption DEF Items
    <2> QED
      BY <1>d, <2>1, <2>2, <2>3, <2>4
  <1>f. /\ \A l \in Issues : OnBoard(l)' = OnBoard(l)
        /\ \A j \in Items :
              RowsOf(j)' = RowsOf(j) /\ RowsOf(j) \subseteq Issues /\ k \notin RowsOf(j)
    BY <1>b, <1>e DEF OnBoard, RowsOf
  <1>1. TypeOK'
    <2>1. row' \in [Issues -> Row \union {OffBoard}]
      BY <1>b DEF Inv, TypeOK
    <2>2. issue' \in [Issues -> [item : 0..N, open : BOOLEAN]]
      BY <1>e DEF Inv, TypeOK
    <2>3. faults' \in 0..MaxFaults /\ step' \in 1..7 /\ mine' \in 0..(N + MaxFaults)
      BY <1>a, <1>b, <1>d DEF Inv, TypeOK, Issues
    <2> QED
      BY <2>1, <2>2, <2>3, <1>b DEF Inv, TypeOK
  <1>2. RowsOK'
    BY <1>f, <1>b, <1>e DEF Inv, RowsOK
  <1>3. SnapOK'
    BY <1>f, <1>b DEF Inv, SnapOK
  <1>4. MineOK'
    BY <1>f, <1>a, <1>b, <1>d, <1>e DEF Inv, MineOK, Loops
  <1>5. CallsOK'
    <2>1. Effect("create")'
      BY <1>d, <1>e DEF Effect
    <2> QED
      BY <2>1, <1>a, <1>b, <1>c DEF Inv, CallsOK
  <1>6. AbsentOK'
    BY <1>f, <1>a, <1>b DEF Inv, AbsentOK, Before
  <1>7. OneRow'
    BY <1>f, <1>b, <1>e DEF Inv, OneRow
  <1>8. UnnumberedOK'
    BY <1>f, <1>a, <1>b DEF Inv, UnnumberedOK, Before
  <1>9. OneNumber'
    BY <1>f, <1>b, <1>e DEF Inv, OneNumber
  <1>10. ListedOK'
    BY <1>f, <1>b DEF Inv, TypeOK, ListedOK
  <1>11. StaleOK'
    BY <1>f, <1>b DEF Inv, StaleOK
  <1>12. ClosedOK'
    BY <1>f, <1>b DEF Inv, ClosedOK
  <1>13. MirrorOK'
    BY <1>f, <1>a, <1>b DEF Inv, MirrorOK, Second
  <1>14. MirroredOK'
    BY <1>f, <1>a, <1>b DEF Inv, MirroredOK
  <1> QED
    BY <1>1, <1>2, <1>3, <1>4, <1>5, <1>6, <1>7, <1>8, <1>9, <1>10, <1>11, <1>12, <1>13, <1>14
       DEF Inv

LEMMA AddToBoardInv ==
    ASSUME Inv, NEW i \in Items, NEW k \in Issues, AddToBoard(i, k)
    PROVE  Inv'
  <1>a. /\ i = at /\ at \in Items /\ step = 2
        /\ step <= Len(Calls(at)) /\ "add" = Calls(at)[step]
        /\ phase = "items" /\ at \in listed /\ snap[at].id = 0
        /\ k = mine /\ k = Target(at) /\ k # 0 /\ issue[k].item = at
      <2>1. /\ i = at /\ at \in Items /\ step = 2
        /\ step <= Len(Calls(at)) /\ "add" = Calls(at)[step]
            /\ phase = "items" /\ at \in listed /\ snap[at].id = 0
            /\ k = Target(at)
        BY CallIs DEF Inv, AddToBoard
      <2>2. k = mine /\ mine # 0
        BY TargetIsThere DEF AddToBoard
      <2> QED
        BY <2>1, <2>2 DEF Inv, MineOK
  <1>b. /\ UNCHANGED <<upstream, issue, moves, edits, faults, phase, snap, listed, open, at, mine,
                        yours, touched, adopted>>
        /\ step' = step + 1
    BY DEF AddToBoard, Call, ghosts
  <1>c. Calls(at)' = Calls(at)
    BY <1>b DEF Calls, Mirror
  <1>d. /\ row' \in [Issues -> Row \union {OffBoard}] /\ row'[k] \in Row
        /\ \A l \in Issues : l # k => row'[l] = row[l]
        /\ OnBoard(k) => row'[k] = row[k]
        /\ ~OnBoard(k) => /\ row'[k] = NewRow /\ ~row'[k].num /\ row'[k].state = "-"
    BY NewRowIs DEF Inv, TypeOK, AddToBoard, OnBoard
  <1>e. /\ \A l \in Issues : OnBoard(l)' = (OnBoard(l) \/ l = k)
        /\ \A j \in Items : j # at => RowsOf(j)' = RowsOf(j)
        /\ RowsOf(at)' = RowsOf(at) \union {k}
        /\ \A j \in Items : RowsOf(j) \subseteq Issues /\ (k \in RowsOf(j) => j = at)
      <2>1. \A l \in Issues : OnBoard(l)' = (OnBoard(l) \/ l = k)
        BY <1>d, RowAssumption DEF OnBoard
      <2> QED
        BY <2>1, <1>a, <1>b DEF RowsOf, OnBoard
  <1>1. TypeOK'
    <2>1. step' \in 1..7
      BY <1>a, <1>b
    <2>2. row' \in [Issues -> Row \union {OffBoard}]
      BY <1>d
    <2> QED
      BY <2>1, <2>2, <1>b DEF Inv, TypeOK
  <1>2. RowsOK'
    <2>1. \A l \in Issues : OnBoard(l) => row'[l] = row[l]
      BY <1>d
    <2>2. ~OnBoard(k) => yours[k] = "-"
      BY DEF Inv, TypeOK, RowsOK
    <2>3. ASSUME NEW l \in Issues, l = k, ~OnBoard(k)
          PROVE  row'[l].state # "open" /\ issue[l].item # 0 /\ yours[l] = "-"
      BY <2>2, <2>3, <1>a, <1>d DEF Items
    <2> QED
      BY <2>1, <2>3, <1>b, <1>e DEF Inv, RowsOK
  <1>3. SnapOK'
    BY <1>a, <1>b, <1>d, <1>e DEF Inv, SnapOK
  <1>4. MineOK'
    <2>1. mine \in Issues /\ issue[mine].item = at /\ yours[mine] = "-"
      BY <1>a DEF Inv, MineOK
    <2>2. step' = 3
      BY <1>a, <1>b
    <2> QED
      <3>1. /\ phase' = "items" /\ at' \in listed' /\ snap'[at'].id = 0
            /\ mine' \in Issues /\ issue'[mine'].item = at' /\ yours'[mine'] = "-"
        BY <2>1, <1>a, <1>b
      <3> QED
        BY <2>2, <3>1 DEF MineOK, Loops
  <1>5. CallsOK'
    <2>1. \A x : Effect(x) => Effect(x)'
      BY <1>a, <1>b, <1>d DEF Effect, Target, OnBoard
    <2>2. Effect("add")'
      BY <1>a, <1>b, <1>e DEF Effect, Target
    <2>3. "add" = Calls(at)[step] /\ step <= Len(Calls(at)) /\ step \in 1..6
      BY <1>a
    <2> QED
      BY <2>1, <2>2, <2>3, <1>b, <1>c DEF Inv, CallsOK
  <1>6. AbsentOK'
    <2>1. ~Before(at, 2)'
      BY <1>a, <1>b DEF Before, Listing, Items
    <2>2. ASSUME NEW j \in Items, j # at
          PROVE  RowsOf(j)' = RowsOf(j) /\ Before(j, 2)' = Before(j, 2)
      BY <2>2, <1>b, <1>e DEF Before
    <2> QED
      BY <2>1, <2>2, <1>b DEF Inv, AbsentOK
  <1>7. OneRow'
    <2>1. ~OnBoard(k) => RowsOf(at) \subseteq adopted
      <3>1. Before(at, 2)
        BY <1>a DEF Before
      <3> QED
        BY <3>1, <1>a DEF Inv, AbsentOK
    <2> QED
      BY <2>1, <1>b, <1>e DEF Inv, OneRow, RowsOf, OnBoard
  <1>8. UnnumberedOK'
    <2>1. \A l \in RowsOf(at) : ~row[l].num
      BY <1>a DEF Inv, UnnumberedOK, Before
    <2>2. \A l \in RowsOf(at)' : ~row'[l].num
      BY <2>1, <1>a, <1>d, <1>e DEF RowsOf
    <2>3. ASSUME NEW j \in Items, j # at
          PROVE  /\ RowsOf(j)' = RowsOf(j) /\ \A l \in RowsOf(j) : row'[l] = row[l]
                 /\ \A c : Before(j, c)' = Before(j, c)
      BY <2>3, <1>b, <1>d, <1>e DEF Before
    <2> QED
      BY <2>2, <2>3, <1>b DEF Inv, UnnumberedOK
  <1>9. OneNumber'
    <2>1. \A l \in Issues : OnBoard(l)' /\ row'[l].num => OnBoard(l) /\ row[l].num
      BY <1>d, <1>e
    <2> QED
      BY <2>1, <1>b DEF Inv, OneNumber
  <1>10. ListedOK'
    <2>1. ASSUME NEW j \in Items, j # at
          PROVE  RowsOf(j)' = RowsOf(j) /\ \A l \in RowsOf(j) : row'[l] = row[l]
      BY <2>1, <1>d, <1>e
    <2>2. ASSUME NEW j \in listed, j < at
          PROVE  \E l \in RowsOf(j)' : row'[l].num /\ row'[l].state = "open"
      <3>1. j \in Items /\ j # at
        BY <2>2, <1>a, ItemsAssumption DEF Inv, TypeOK, Items
      <3>2. \E l \in RowsOf(j) : row[l].num /\ row[l].state = "open"
        BY <2>2, <1>a DEF Inv, ListedOK
      <3> QED
        BY <2>1, <3>1, <3>2
    <2> QED
      BY <2>2, <1>a, <1>b DEF ListedOK, Second
  <1>11. StaleOK'
    <2>1. ASSUME NEW j \in Items, j # at
          PROVE  RowsOf(j)' = RowsOf(j) /\ \A l \in RowsOf(j) : row'[l] = row[l]
      BY <2>1, <1>d, <1>e
    <2> QED
      BY <2>1, <1>a, <1>b DEF Inv, StaleOK, Listing
  <1>12. ClosedOK'
    BY <1>a, <1>b DEF Inv, ClosedOK, Second
  <1>13. MirrorOK'
    BY <1>a, <1>b DEF Inv, MirrorOK, Second
  <1>14. MirroredOK'
    BY <1>a, <1>b DEF Inv, MirroredOK
  <1> QED
    BY <1>1, <1>2, <1>3, <1>4, <1>5, <1>6, <1>7, <1>8, <1>9, <1>10, <1>11, <1>12, <1>13, <1>14
       DEF Inv

-----------------------------------------------------------------------------
(* The invariant *)

LEMMA InitInv ==
    ASSUME Init
    PROVE  Inv
  <1>1. TypeOK
    BY ItemsAssumption, BoundsAssumption DEF Init, TypeOK, Nothing, Items
  <1>2. /\ \A k \in Issues : ~OnBoard(k) /\ yours[k] = "-" /\ issue[k].item = 0
        /\ \A i \in Items : snap[i].id = 0 /\ RowsOf(i) = {}
        /\ phase = "idle" /\ listed = {} /\ at = 1 /\ step = 1 /\ mine = 0
    BY DEF Init, Nothing, OnBoard, RowsOf
  <1>3. RowsOK /\ SnapOK /\ MineOK /\ CallsOK
    BY <1>2 DEF RowsOK, SnapOK, MineOK, CallsOK
  <1>4. AbsentOK /\ OneRow /\ UnnumberedOK /\ OneNumber
    BY <1>2 DEF AbsentOK, OneRow, UnnumberedOK, OneNumber
  <1>5. ListedOK /\ StaleOK /\ ClosedOK /\ MirrorOK /\ MirroredOK
    BY <1>2 DEF ListedOK, StaleOK, ClosedOK, MirrorOK, MirroredOK
  <1> QED
    BY <1>1, <1>3, <1>4, <1>5 DEF Inv

LEMMA StutterInv ==
    ASSUME Inv, UNCHANGED vars
    PROVE  Inv'
  <1>1. UNCHANGED <<upstream, issue, row, moves, edits, faults, phase, snap, listed, open, at,
                    step, mine, yours, touched, adopted>>
    BY DEF vars
  <1>2. TypeOK' /\ RowsOK' /\ SnapOK' /\ MineOK'
    BY <1>1 DEF Inv, TypeOK, RowsOK, SnapOK, MineOK, OnBoard, RowsOf
  <1>3. CallsOK'
    <2>1. Calls(at)' = Calls(at)
      BY <1>1 DEF Calls, Mirror
    <2>2. \A x : Effect(x)' = Effect(x)
      BY <1>1 DEF Effect, Target, OnBoard
    <2> QED
      BY <1>1, <2>1, <2>2 DEF Inv, CallsOK
  <1>4. AbsentOK' /\ OneRow' /\ UnnumberedOK' /\ OneNumber'
    BY <1>1 DEF Inv, AbsentOK, OneRow, UnnumberedOK, OneNumber, OnBoard, RowsOf, Before
  <1>5. ListedOK' /\ StaleOK' /\ ClosedOK'
    BY <1>1 DEF Inv, ListedOK, StaleOK, ClosedOK, RowsOf
  <1>6. MirrorOK' /\ MirroredOK'
    BY <1>1 DEF Inv, MirrorOK, MirroredOK
  <1> QED
    BY <1>2, <1>3, <1>4, <1>5, <1>6 DEF Inv

LEMMA NextInv ==
    ASSUME Inv, [Next]_vars
    PROVE  Inv'
  <1>1. CASE Environment
    BY <1>1, UpstreamInv, TriageInv, ToggleInv, AdoptInv DEF Environment
  <1>2. CASE SyncStep
    <2>1. CASE StartSync \/ ListIssues \/ ListPulls \/ ReadAgain \/ ListTracking
      BY <2>1, StartSyncInv, ListIssuesInv, ListPullsInv, ReadAgainInv, ListTrackingInv
    <2>2. CASE NextItem \/ EndSync
      BY <2>2, NextItemInv, EndSyncInv
    <2>3. CASE \E i \in Items : CreateIssue(i)
      BY <2>3, CreateIssueInv
    <2>4. ASSUME NEW i \in Items, NEW k \in Issues, SetField(i, k)
          PROVE  Inv'
      <3>1. CASE Call(i, "Upstream", k) /\ row' = [row EXCEPT ![k].num = TRUE]
        BY <2>4, <3>1, SetUpstreamInv DEF SetField
      <3>2. CASE Call(i, "Kind", k) /\ row' = [row EXCEPT ![k].kind = TRUE]
        BY <2>4, <3>2, SetKindInv DEF SetField
      <3>3. CASE Call(i, "Upstream_state", k) /\ row' = [row EXCEPT ![k].state = "open"]
        BY <2>4, <3>3, SetStateInv DEF SetField
      <3>4. CASE Call(i, "Fork_decision", k) /\ row' = [row EXCEPT ![k].decision = "Untriaged"]
        BY <2>4, <3>4, SetDecisionInv DEF SetField
      <3>5. CASE /\ Call(i, "Status", k)
                 /\ row' = [row EXCEPT ![k].status = StatusFor(snap[i].row.decision)]
        BY <2>4, <3>5, SetStatusInv DEF SetField
      <3> QED
        BY <2>4, <3>1, <3>2, <3>3, <3>4, <3>5 DEF SetField
    <2>5. ASSUME NEW i \in Items, NEW k \in Issues,
                 AddToBoard(i, k) \/ MarkClosed(i, k) \/ MirrorIssue(i, k)
          PROVE  Inv'
      BY <2>5, AddToBoardInv, MarkClosedInv, MirrorIssueInv
    <2> QED
      BY <1>2, <2>1, <2>2, <2>3, <2>4, <2>5 DEF SyncStep
  <1>3. CASE SyncDies
    BY <1>3, SyncDiesInv
  <1>4. CASE UNCHANGED vars
    BY <1>4, StutterInv
  <1> QED
    BY <1>1, <1>2, <1>3, <1>4 DEF Next

LEMMA Invariant == Spec => []Inv
  <1>1. Init => Inv
    BY InitInv
  <1>2. Inv /\ [Next]_vars => Inv'
    BY NextInv
  <1> QED
    BY <1>1, <1>2, PTL DEF Spec

-----------------------------------------------------------------------------
(* Theorems *)

\* Every variable keeps its type, and a loop never makes more than six calls.
THEOREM TypeCorrect == Spec => []TypeOK
  <1>1. Inv => TypeOK
    BY DEF Inv
  <1> QED
    BY <1>1, Invariant, PTL

\* However often syncs are interrupted, and whatever maintainers and upstream
\* do meanwhile, no sync adds a second row for an item.
THEOREM NoSecondRow == Spec => []OneRowPerItem
  <1>1. Inv => OneRowPerItem
    <2> SUFFICES ASSUME Inv, NEW i \in Items
                 PROVE  Cardinality(RowsOf(i) \ adopted) <= 1
      BY DEF OneRowPerItem
    <2>1. CASE RowsOf(i) \ adopted = {}
      BY <2>1, FS_EmptySet
    <2>2. CASE RowsOf(i) \ adopted # {}
      <3>1. PICK k : k \in RowsOf(i) \ adopted
        BY <2>2
      <3>2. RowsOf(i) \ adopted = {k}
        BY <3>1 DEF Inv, OneRow, OnBoard, RowsOf
      <3> QED
        BY <3>2, FS_Singleton
    <2> QED
      BY <2>1, <2>2
  <1> QED
    BY <1>1, Invariant, PTL

\* No sync changes a decision that a maintainer took between two syncs.
THEOREM NoDecisionLost == Spec => []YoursKept
  <1>1. Inv => YoursKept
    BY DEF Inv, RowsOK, YoursKept
  <1> QED
    BY <1>1, Invariant, PTL

\* A sync that goes on after the listings has something listed.
Told ==
    phase \in {"items", "closed", "reread", "list_tracking", "mirror", "done"} => listed # {}

\* Only ListPulls leads there, and it refuses to where nothing is listed.
LEMMA ToldHolds == Spec => []Told
  <1>1. Init => Told
    BY DEF Init, Told
  <1>2. Told /\ [Next]_vars => Told'
    <2> SUFFICES ASSUME Told, [Next]_vars
                 PROVE  Told'
      OBVIOUS
    <2>1. CASE Environment
      BY <2>1 DEF Environment, Upstream, Triage, Toggle, Adopt, Edit, sync, Told
    <2>2. CASE StartSync \/ ListIssues
      BY <2>2 DEF StartSync, ListIssues, Goto, Told
    <2>3. CASE ListPulls
      BY <2>3 DEF ListPulls, Goto, Told
    <2>4. CASE ReadAgain \/ ListTracking
      BY <2>4 DEF ReadAgain, ListTracking, Goto, Told
    <2>5. CASE NextItem
      BY <2>5 DEF NextItem, Goto, Told
    <2>6. CASE EndSync \/ SyncDies
      BY <2>6 DEF EndSync, SyncDies, Stop, Goto, Told
    <2>7. CASE \/ \E i \in Items : CreateIssue(i)
               \/ \E i \in Items, k \in Issues :
                     AddToBoard(i, k) \/ SetField(i, k) \/ MarkClosed(i, k) \/ MirrorIssue(i, k)
      <3>1. UNCHANGED <<phase, listed>>
        BY <2>7 DEF CreateIssue, AddToBoard, SetField, MarkClosed, MirrorIssue, Call
      <3> QED
        BY <3>1 DEF Told
    <2>8. CASE UNCHANGED vars
      BY <2>8 DEF vars, sync, Told
    <2> QED
      BY <2>1, <2>2, <2>3, <2>4, <2>5, <2>6, <2>7, <2>8 DEF Next, SyncStep
  <1> QED
    BY <1>1, <1>2, PTL DEF Spec

\* After a sync that ran to its end the board has what upstream listed, which is
\* something, as open, and nothing else as open.
THEOREM BoardMatchesListing == Spec => []BoardIsCurrent
  <1>1. Inv /\ Told => BoardIsCurrent
    <2> SUFFICES ASSUME Inv, Told, phase = "done"
                 PROVE  BoardIsCurrent
      BY DEF BoardIsCurrent
    <2>0. listed # {}
      BY DEF Told
    <2>1. \A i \in listed : \E k \in RowsOf(i) : row[k].num /\ row[k].state = "open"
      BY DEF Inv, ListedOK, Second
    <2>2. ASSUME NEW k \in Issues, row[k] # OffBoard, row[k].state = "open"
          PROVE  issue[k].item \in listed
      <3>1. issue[k].item \in Items
        BY <2>2 DEF Inv, TypeOK, RowsOK, OnBoard, Items
      <3>2. k \in RowsOf(issue[k].item)
        BY <2>2 DEF RowsOf
      <3> QED
        BY <2>2, <3>1, <3>2 DEF Inv, ClosedOK, Second
    <2> QED
      BY <2>0, <2>1, <2>2 DEF BoardIsCurrent
  <1> QED
    BY <1>1, Invariant, ToldHolds, PTL

\* And every row it read shows its decision, on the board and on its issue,
\* unless somebody touched it since.
THEOREM DecisionsAreMirrored == Spec => []DecisionIsMirrored
  <1>1. Inv => DecisionIsMirrored
    <2> SUFFICES ASSUME Inv, phase = "done", NEW i \in Items,
                        snap[i].id # 0, snap[i].id \notin touched
                 PROVE  LET k == snap[i].id
                        IN  /\ issue[k].open = ~Settled(row[k].decision)
                            /\ StatusFor(row[k].decision) \in {"none", row[k].status}
      BY DEF DecisionIsMirrored
    <2>1. row[snap[i].id].decision = snap[i].row.decision
      BY DEF Inv, MirrorOK, Second
    <2> QED
      BY <2>1 DEF Inv, MirroredOK
  <1> QED
    BY <1>1, Invariant, PTL

=============================================================================
