------------------------------- MODULE Tracker -------------------------------
(***************************************************************************)
(* The upstream tracking board: tools/upstream-tracker.sh, run weekly by   *)
(* .github/workflows/upstream-tracker.yml.                                 *)
(*                                                                         *)
(* A sync reads the board, lists what upstream has open, opens and adds a  *)
(* tracking issue for every item the board lacks, repairs and refreshes    *)
(* the rest, marks what upstream closed, reads the board again and mirrors *)
(* each Fork decision onto the row's Status and onto its tracking issue.   *)
(* Every change is an API call of its own.  A call that fails ends the     *)
(* sync (set -e), and what was written stays.  Maintainers triage, close   *)
(* and reopen between any two calls, and upstream does not wait either.    *)
(*                                                                         *)
(* A row is known by its tracking issue.  The workflow's concurrency group *)
(* lets one sync run at a time.                                            *)
(***************************************************************************)
EXTENDS Integers, Sequences, FiniteSets

CONSTANTS
    N,          \* number of upstream items, in the order of their numbers
    Pulls,      \* those that are pull requests
    OffBoard,   \* the row of an issue the board does not have
    MaxMoves,   \* bound on what upstream does
    MaxEdits,   \* bound on what maintainers do
    MaxFaults   \* bound on calls that fail

Items == 1..N
\* Opening a second issue for an item takes a failed call.
Issues == 1..(N + MaxFaults)

ASSUME ItemsAssumption == N \in Nat \ {0} /\ Pulls \subseteq Items
ASSUME BoundsAssumption == MaxMoves \in Nat /\ MaxEdits \in Nat /\ MaxFaults \in Nat

VARIABLES
    (* GitHub.                                                             *)
    upstream,  \* upstream[i]: the state of item i
    issue,     \* issue[k]: the item a tracking issue names in its title, and whether it is open
    row,       \* row[k]: the board's fields of tracking issue k
    moves, edits, faults,
    (* The sync.                                                           *)
    phase,
    snap,      \* snap[i]: the row read for item i, and its issue; 0 if there is none
    listed,    \* what upstream listed as open
    open,      \* the tracking issues listed as open
    at,        \* the item the current loop is at
    step,      \* the call to make next for it
    mine,      \* the issue opened for it
    (* What the properties observe.                                        *)
    yours,     \* yours[k]: the decision taken on k while no sync ran
    touched,   \* rows and issues a maintainer changed since the board was last read
    adopted    \* issues a maintainer added to the board

github == <<upstream, issue, row>>
budget == <<moves, edits, faults>>
sync == <<phase, snap, listed, open, at, step, mine>>
ghosts == <<yours, touched, adopted>>
vars == <<upstream, issue, row, moves, edits, faults, phase, snap, listed, open,
          at, step, mine, yours, touched, adopted>>

-----------------------------------------------------------------------------
(* The board *)

\* Carry stands for Fix here too, Done for Not applicable and Superseded.
Decisions == {"Untriaged", "Carry", "Done"}
Settled(decision) == decision = "Done"

Row == [num : BOOLEAN, kind : BOOLEAN,
        state : {"-", "open", "closed", "merged"},
        decision : Decisions \union {"-"},
        status : {"Todo", "In_Progress", "Done"}]

ASSUME RowAssumption == OffBoard \notin Row

\* What adding an issue makes of it: GitHub sets Status, nobody else sets anything.
NewRow == [num |-> FALSE, kind |-> FALSE, state |-> "-", decision |-> "-", status |-> "Todo"]

\* status_for; a row without a decision maps to no Status.
StatusFor(decision) ==
    IF decision = "Untriaged" THEN "Todo"
    ELSE IF decision = "Carry" THEN "In_Progress"
    ELSE IF decision = "Done" THEN "Done" ELSE "none"

RowsOf(i) == {k \in Issues : issue[k].item = i /\ row[k] # OffBoard}

\* Broken: a row is known by its Upstream number alone
NumberedRead(i) ==
    LET rows == {k \in RowsOf(i) : row[k].num}
    IN  IF rows = {} THEN {0} ELSE rows

\* read_board: one row per item, found by its number or else by its title, and
\* one that carries the number before one that does not.
Read(i) ==
    LET numbered == {k \in RowsOf(i) : row[k].num}
    IN  IF numbered # {} THEN numbered
        ELSE IF RowsOf(i) # {} THEN RowsOf(i) ELSE {0}

ReadBoard ==
    \E pick \in [Items -> {0} \union Issues] :
       /\ \A i \in Items : pick[i] \in Read(i)
       /\ snap' = [i \in Items |->
             [id |-> pick[i], row |-> IF pick[i] = 0 THEN OffBoard ELSE row[pick[i]]]]

Nothing == [i \in Items |-> [id |-> 0, row |-> OffBoard]]

-----------------------------------------------------------------------------
Init ==
    /\ upstream \in [Items -> {"unborn", "open"}]
    /\ issue = [k \in Issues |-> [item |-> 0, open |-> FALSE]]
    /\ row = [k \in Issues |-> OffBoard]
    /\ moves = 0 /\ edits = 0 /\ faults = 0
    /\ phase = "idle"
    /\ snap = Nothing
    /\ listed = {} /\ open = {}
    /\ at = 1 /\ step = 1 /\ mine = 0
    /\ yours = [k \in Issues |-> "-"]
    /\ touched = {} /\ adopted = {}

-----------------------------------------------------------------------------
(* Upstream and the maintainers *)

Upstream(i) ==
    /\ moves < MaxMoves
    /\ moves' = moves + 1
    /\ \E new \in {"open", "closed", "merged"} :
          /\ new = "open"   => upstream[i] \in {"unborn", "closed"}
          /\ new = "closed" => upstream[i] = "open"
          /\ new = "merged" => upstream[i] = "open" /\ i \in Pulls
          /\ upstream' = [upstream EXCEPT ![i] = new]
    /\ UNCHANGED <<issue, row, edits, faults, sync, ghosts>>

Edit(k) ==
    /\ edits < MaxEdits
    /\ edits' = edits + 1
    /\ touched' = touched \union {k}
    /\ UNCHANGED <<upstream, moves, faults, sync>>

Triage(k) ==
    /\ Edit(k)
    /\ row[k] # OffBoard
    /\ \E d \in Decisions \ {row[k].decision} :
          /\ row' = [row EXCEPT ![k].decision = d]
          /\ yours' = [yours EXCEPT ![k] = IF phase = "idle" THEN d ELSE "-"]
    /\ UNCHANGED <<issue, adopted>>

\* A tracking issue closed or reopened by hand.
Toggle(k) ==
    /\ Edit(k)
    /\ issue[k].item # 0
    /\ issue' = [issue EXCEPT ![k].open = ~@]
    /\ UNCHANGED <<row, yours, adopted>>

\* An issue the board lacks is added to it by hand.
Adopt(k) ==
    /\ Edit(k)
    /\ issue[k].item # 0
    /\ row[k] = OffBoard
    /\ row' = [row EXCEPT ![k] = NewRow]
    /\ adopted' = adopted \union {k}
    /\ UNCHANGED <<issue, yours>>

Environment ==
    \/ \E i \in Items : Upstream(i)
    \/ \E k \in Issues : Triage(k) \/ Toggle(k) \/ Adopt(k)

-----------------------------------------------------------------------------
(* What a sync reads *)

Goto(p) == phase' = p /\ at' = 1 /\ step' = 1 /\ mine' = 0

StartSync ==
    /\ phase = "idle"
    /\ ReadBoard
    /\ touched' = {}
    /\ Goto("list_issues")
    /\ UNCHANGED <<github, budget, listed, open, yours, adopted>>

ListIssues ==
    /\ phase = "list_issues"
    /\ listed' = {i \in Items \ Pulls : upstream[i] = "open"}
    /\ Goto("list_pulls")
    /\ UNCHANGED <<github, budget, snap, open, ghosts>>

ListPulls ==
    /\ phase = "list_pulls"
    /\ listed' = listed \union {i \in Pulls : upstream[i] = "open"}
    /\ Goto(IF listed' = {} THEN "refused" ELSE "items")
    /\ UNCHANGED <<github, budget, snap, open, ghosts>>

\* Broken: the mirror works on the board as it was read at the start
MirrorFirstRead ==
    /\ phase = "reread"
    /\ touched' = {}
    /\ Goto("list_tracking")
    /\ UNCHANGED <<github, budget, snap, listed, open, yours, adopted>>

ReadAgain ==
    /\ phase = "reread"
    /\ ReadBoard
    /\ touched' = {}
    /\ Goto("list_tracking")
    /\ UNCHANGED <<github, budget, listed, open, yours, adopted>>

ListTracking ==
    /\ phase = "list_tracking"
    /\ open' = {k \in Issues : issue[k].open}
    /\ Goto("mirror")
    /\ UNCHANGED <<github, budget, snap, listed, ghosts>>

-----------------------------------------------------------------------------
(* The calls a sync makes, item by item *)

Only(condition, call) == IF condition THEN <<call>> ELSE <<>>

\* An item the board lacks: the issue first, so that no row points at nothing.
Add == <<"create", "add", "Upstream", "Kind", "Upstream_state", "Fork_decision">>

\* Broken: a repaired row is always seeded
RepairAll(r) == <<"Upstream", "Kind", "Fork_decision">>

\* A row without its number was half made by an interrupted sync.  It is seeded
\* only if nobody triaged it meanwhile.
Repair(r) == <<"Upstream", "Kind">> \o Only(r.decision = "-", "Fork_decision")

\* Broken: a row that is on the board is taken to be open
RefreshRepair(r) == IF r.num THEN <<>> ELSE Repair(r)

Refresh(r) ==
    (IF r.num THEN <<>> ELSE Repair(r)) \o Only(r.state # "open", "Upstream_state")

\* Broken: the issue is only ever closed
MirrorClosing(k, r) ==
    Only(Settled(r.decision) /\ k \in open, "close")
    \o Only(StatusFor(r.decision) \notin {"none", r.status}, "Status")

\* Broken: a decision that maps to no Status is written all the same
MirrorUnmapped(k, r) ==
    Only(Settled(r.decision) /\ k \in open, "close")
    \o Only(~Settled(r.decision) /\ k \notin open, "reopen")
    \o Only(StatusFor(r.decision) # r.status, "Status")

\* Only differences are written, and only a decision that maps to a Status.
Mirror(k, r) ==
    Only(Settled(r.decision) /\ k \in open, "close")
    \o Only(~Settled(r.decision) /\ k \notin open, "reopen")
    \o Only(StatusFor(r.decision) \notin {"none", r.status}, "Status")

Calls(i) ==
    LET k == snap[i].id
        r == snap[i].row
    IN  IF phase = "items" /\ i \in listed THEN IF k = 0 THEN Add ELSE Refresh(r)
        ELSE IF phase = "closed" /\ k # 0 THEN Only(r.state = "open" /\ i \notin listed, "closed")
        ELSE IF phase = "mirror" /\ k # 0 THEN Mirror(k, r)
        ELSE <<>>

\* The sync makes this call for item i, on the issue k.
Call(i, call, k) ==
    /\ i = at
    /\ k = IF snap[i].id # 0 THEN snap[i].id ELSE mine
    /\ step <= Len(Calls(i))
    /\ Calls(i)[step] = call
    /\ step' = step + 1
    /\ UNCHANGED <<upstream, moves, edits, phase, snap, listed, open, at, ghosts>>

CreateIssue(i) ==
    /\ Call(i, "create", 0)
    /\ \E k \in Issues :
          /\ issue[k].item = 0
          /\ \A j \in Issues : issue[j].item = 0 => k <= j
          /\ issue' = [issue EXCEPT ![k] = [item |-> i, open |-> TRUE]]
          /\ mine' = k
    /\ UNCHANGED <<row, faults>>

\* Adding an issue the board has already changes nothing.
AddToBoard(i, k) ==
    /\ Call(i, "add", k)
    /\ row' = IF row[k] = OffBoard THEN [row EXCEPT ![k] = NewRow] ELSE row
    /\ UNCHANGED <<issue, mine, faults>>

SetField(i, k) ==
    /\ \/ /\ Call(i, "Upstream", k)
          /\ row' = [row EXCEPT ![k].num = TRUE]
       \/ /\ Call(i, "Kind", k)
          /\ row' = [row EXCEPT ![k].kind = TRUE]
       \/ /\ Call(i, "Upstream_state", k)
          /\ row' = [row EXCEPT ![k].state = "open"]
       \/ /\ Call(i, "Fork_decision", k)
          /\ row' = [row EXCEPT ![k].decision = "Untriaged"]
       \/ /\ Call(i, "Status", k)
          /\ row' = [row EXCEPT ![k].status = StatusFor(snap[i].row.decision)]
    /\ UNCHANGED <<issue, mine, faults>>

\* An item upstream lists no more.  Whether a pull request was merged is asked
\* for; a question that fails counts as a no.
MarkClosed(i, k) ==
    /\ Call(i, "closed", k)
    /\ \E merged \in BOOLEAN :
          /\ merged => snap[i].row.kind /\ upstream[i] = "merged"
          /\ IF ~merged /\ snap[i].row.kind /\ upstream[i] = "merged"
             THEN faults < MaxFaults /\ faults' = faults + 1 ELSE UNCHANGED faults
          /\ row' = [row EXCEPT ![k].state = IF merged THEN "merged" ELSE "closed"]
    /\ UNCHANGED <<issue, mine>>

MirrorIssue(i, k) ==
    /\ \/ Call(i, "close", k) /\ issue' = [issue EXCEPT ![k].open = FALSE]
       \/ Call(i, "reopen", k) /\ issue' = [issue EXCEPT ![k].open = TRUE]
    /\ UNCHANGED <<row, mine, faults>>

\* The loop goes on with the next item, or the sync with what follows the loop.
NextItem ==
    /\ phase \in {"items", "closed", "mirror"}
    /\ step > Len(Calls(at))
    /\ IF at < N
       THEN at' = at + 1 /\ step' = 1 /\ mine' = 0 /\ UNCHANGED phase
       ELSE Goto([items |-> "closed", closed |-> "reread", mirror |-> "done"][phase])
    /\ UNCHANGED <<github, budget, snap, listed, open, ghosts>>

Stop ==
    /\ Goto("idle")
    /\ snap' = Nothing /\ listed' = {} /\ open' = {}
    /\ UNCHANGED <<github, moves, edits, yours, touched, adopted>>

EndSync ==
    /\ phase \in {"done", "refused"}
    /\ Stop
    /\ UNCHANGED faults

\* A call fails, the job is cancelled or runs out of its thirty minutes.
SyncDies ==
    /\ phase # "idle"
    /\ faults < MaxFaults
    /\ faults' = faults + 1
    /\ Stop

SyncStep ==
    \/ StartSync \/ ListIssues \/ ListPulls \/ ReadAgain \/ ListTracking
    \/ NextItem \/ EndSync
    \/ \E i \in Items : CreateIssue(i)
    \/ \E i \in Items, k \in Issues :
          AddToBoard(i, k) \/ SetField(i, k) \/ MarkClosed(i, k) \/ MirrorIssue(i, k)

Next == Environment \/ SyncStep \/ SyncDies

Spec == Init /\ [][Next]_vars

\* The schedule starts a sync every week; nothing makes anybody else act.
FairSpec == Spec /\ WF_vars(SyncStep)

-----------------------------------------------------------------------------
(* Properties *)

TypeOK ==
    /\ upstream \in [Items -> {"unborn", "open", "closed", "merged"}]
    /\ issue \in [Issues -> [item : 0..N, open : BOOLEAN]]
    /\ row \in [Issues -> Row \union {OffBoard}]
    /\ moves \in 0..MaxMoves /\ edits \in 0..MaxEdits /\ faults \in 0..MaxFaults
    /\ phase \in {"idle", "list_issues", "list_pulls", "refused", "items", "closed",
                  "reread", "list_tracking", "mirror", "done"}
    /\ snap \in [Items -> [id : 0..(N + MaxFaults), row : Row \union {OffBoard}]]
    /\ listed \subseteq Items
    /\ open \subseteq Issues
    /\ at \in Items
    /\ step \in 1..7
    /\ mine \in 0..(N + MaxFaults)
    /\ yours \in [Issues -> Decisions \union {"-"}]
    /\ touched \subseteq Issues
    /\ adopted \subseteq Issues

\* However syncs are interrupted, no sync adds a second row for an item: a row
\* that an interrupted sync left without its number is known by its title.
OneRowPerItem ==
    \A i \in Items : Cardinality(RowsOf(i) \ adopted) <= 1

\* A decision taken between two syncs is the maintainer's: no sync changes it,
\* not even one that repairs the row.
YoursKept == \A k \in Issues : yours[k] # "-" => row[k].decision = yours[k]

\* A sync that ran to its end was told of open items, and has every one of them
\* on the board as open, under its number, and nothing else.
BoardIsCurrent ==
    phase = "done" =>
        /\ listed # {}
        /\ \A i \in listed : \E k \in RowsOf(i) : row[k].num /\ row[k].state = "open"
        /\ \A k \in Issues : row[k] # OffBoard /\ row[k].state = "open"
                                => issue[k].item \in listed

\* And every row it read shows its decision: the issue is open until the
\* decision is settled, and Status says where it stands.
DecisionIsMirrored ==
    phase = "done" =>
        \A i \in Items :
            LET k == snap[i].id
            IN  k # 0 /\ k \notin touched =>
                   /\ issue[k].open = ~Settled(row[k].decision)
                   /\ StatusFor(row[k].decision) \in {"none", row[k].status}

\* Once everybody rests, the weekly syncs leave every open item on the board as
\* open and tracked, and no closed one, whatever was interrupted before.
EventuallyTracked ==
    <>[](\A i \in Items :
           /\ upstream[i] = "open" =>
                 \E k \in RowsOf(i) :
                    /\ row[k].num /\ row[k].state = "open"
                    /\ issue[k].open = ~Settled(row[k].decision)
           /\ upstream[i] # "open" /\ (\E j \in Items : upstream[j] = "open") =>
                 \A k \in RowsOf(i) : row[k].state # "open")

(* What the script's comments say and the sync does not keep. *)

\* "carrying a Fork decision that a maintainer sets and this job never
\* overwrites".  It does when the row is triaged after the board was read, or
\* after the issue was added, and before the sync seeds it.
NeverOverwritten ==
    [][\A k \in Issues :
          row[k] # OffBoard /\ row'[k] # row[k] /\ row[k].decision # "-" /\ SyncStep
              => row'[k].decision = row[k].decision]_vars

=============================================================================
