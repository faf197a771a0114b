--------------------------------- MODULE Seed ---------------------------------
(***************************************************************************)
(* tools/handover/seed.py: a chunk's first review branch is built by       *)
(* cherry-picking its commits, with a human who resolves what does not     *)
(* apply, commits, skips, gives up or goes elsewhere between two commands, *)
(* and with commands that are killed.  One clone; git's own steps follow   *)
(* what git does with a cherry-pick and the queue of its sequencer.        *)
(***************************************************************************)
EXTENDS Manifest

CONSTANTS
    Files,      \* the manifests considered
    Ids,        \* the ids a command may name
    None,
    Main,       \* where the human starts, a branch of no chunk or no branch at all
    Detached,   \* another such place
    MaxMoves,   \* bound on what the human does beside following the printed advice
    MaxKills    \* bound on killed commands

\* A command may name each chunk of a manifest.
ASSUME FilesAssumption == \A f \in Files : Shaped(f) /\ FileIds(f) \subseteq Ids

\* A branch is the commits it starts from and those that were picked onto it.
Branches == [base : Seq(OnMain), own : Seq(OnMain)]

ASSUME NamesAssumption ==
    /\ None \notin Ids \union {Main, Detached} /\ None \notin OnMain /\ None \notin Branches
    /\ {Main, Detached, Root} \intersect Ids = {}
ASSUME BoundsAssumption == MaxMoves \in Nat /\ MaxKills \in Nat

VARIABLES
    file,       \* chunks.yml
    loaded,     \* its chunks in order, or Refused
    branch,     \* the local review branches: what each starts from and what was picked
    origin,     \* the chunks with a review branch on origin
    remote,     \* those of them that this clone saw when it last fetched or pushed
    head,       \* what is checked out: Main, Detached or the branch of a chunk
    pick,       \* CHERRY_PICK_HEAD: the commit git stopped at
    todo,       \* the sequencer's queue; its first commit is the one being picked
    tree,       \* the work tree: clean, conflict or dirty
    marker,     \* the file in .git that remembers where seeding a chunk started
    said,       \* how the command that just ended did
    moves, kills,
    (* What the properties observe.                                        *)
    home,       \* where the human was when seeding a chunk started, until it ends well
    astray,     \* chunks whose start was cut before the marker was written, or whose
                \* way back was cut or refused
    owner,      \* the chunk whose commits are queued
    mixed       \* chunks continued while another's commits were queued

vars == <<file, loaded, branch, origin, remote, head, pick, todo, tree, marker, said, moves,
          kills, home, astray, owner, mixed>>

git == <<branch, head, pick, todo, tree>>
published == <<origin, remote>>
observed == <<home, astray, owner, mixed>>

Known(c) == loaded # Refused /\ c \in {d.id : d \in ToSet(loaded)}
Chunk(c) == ById(file, c)
Content(c) == branch[c].base \o branch[c].own

Silent == [chunk |-> None, result |-> "nothing"]
Says(c, result) == said' = [chunk |-> c, result |-> result]
Well == {"done", "warned"}

\* _in_progress: git stopped at a commit, or some are left in its queue.
InProgress == pick # None \/ todo # <<>>

\* What git leaves of a queue when a stopped pick is dropped or committed.
Left == IF pick # None /\ Len(todo) <= 1 THEN <<>> ELSE todo

Rest == IF todo = <<>> THEN <<>> ELSE Tail(todo)

-----------------------------------------------------------------------------
(* git cherry-pick of the commits q onto branch c, which holds b.  A       *)
(* sequencer keeps those that are left in its queue; a single commit is    *)
(* picked without one, beside the queue other.                             *)

Grown(b, q, k) == [b EXCEPT !.own = @ \o SubSeq(q, 1, k)]

AllApply(c, b, q, kept, other) ==
    /\ branch' = [branch EXCEPT ![c] = Grown(b, q, Len(q))]
    /\ pick' = None /\ tree' = "clean"
    /\ todo' = IF kept THEN <<>> ELSE other

\* One does not apply, or nothing is left of it.
OneStops(c, b, q, kept, other) ==
    \E k \in 0..(Len(q) - 1) :
        /\ branch' = [branch EXCEPT ![c] = Grown(b, q, k)]
        /\ pick' = q[k + 1] /\ tree' \in {"conflict", "clean"}
        /\ todo' = IF kept THEN SubSeq(q, k + 1, Len(q)) ELSE other

\* git is killed: the queue starts with the commit being picked, or with the
\* one just picked.
KilledPicking(c, b, q, kept, other) ==
    \E k \in 0..Len(q) :
        /\ branch' = [branch EXCEPT ![c] = Grown(b, q, k)]
        /\ pick' = None /\ tree' = "clean"
        /\ todo' \in IF ~kept THEN {other}
                     ELSE {SubSeq(q, j, Len(q)) : j \in {k, k + 1} \ {0}}

-----------------------------------------------------------------------------
(* The two commands *)

Killed(c) == kills < MaxKills /\ kills' = kills + 1 /\ Says(c, "killed")

Lives(c, result) == Says(c, result) /\ UNCHANGED kills

Exists(place) == place \in Ids => branch'[place] # None

Marks(c, place) == marker' = [marker EXCEPT ![c] = place]

(* What a step means for the way back is observed beside the marker.       *)

Since(c) == IF branch[c] = None THEN [home EXCEPT ![c] = head] ELSE home

UnderWay(c) ==
    home' = Since(c) /\ astray' = IF branch[c] = None THEN astray \ {c} ELSE astray

Strays(c) == home' = Since(c) /\ astray' = astray \union {c}

Returns(c) == home' = [home EXCEPT ![c] = None] /\ astray' = astray \ {c}

Count(c) == IF Len(branch'[c].own) = Len(Chunk(c).commits) THEN "done" ELSE "warned"

\* Broken: goes back to a branch that may be gone.
FinishBlindly(c, marked) ==
    /\ Marks(c, None) /\ Returns(c)
    /\ head' = IF marked = None THEN c ELSE marked
    /\ Lives(c, Count(c))

\* Broken: never warns.
FinishQuietly(c, marked) ==
    /\ Marks(c, None) /\ Returns(c)
    /\ head' = IF marked = None \/ ~Exists(marked) THEN c ELSE marked
    /\ Lives(c, "done")

\* _finish: forgets the start, and only then goes back to it, which git may
\* refuse for changes in the work tree; it warns when the branch has not the
\* number of commits the manifest lists.
Finish(c, marked) ==
    LET back == IF marked = None THEN c ELSE marked
    IN  /\ Marks(c, None)
        /\ \/ /\ Exists(back) /\ head' = back
              /\ Lives(c, Count(c)) /\ Returns(c)
           \/ /\ ~Exists(back) \/ (back # c /\ tree' = "dirty")
              /\ head' = c /\ Lives(c, "error") /\ Strays(c)
           \/ /\ head' = c \/ (Exists(back) /\ head' = back)
              /\ Killed(c) /\ Strays(c)

PickAndFinish(c, b, q, kept, other, marked) ==
    \/ /\ OneStops(c, b, q, kept, other)
       /\ head' = c /\ Marks(c, marked) /\ UnderWay(c) /\ Lives(c, "stopped")
    \/ /\ KilledPicking(c, b, q, kept, other)
       /\ head' = c /\ Marks(c, marked) /\ UnderWay(c) /\ Killed(c)
    \/ /\ AllApply(c, b, q, kept, other)
       /\ Finish(c, marked)

\* A SeedError, or a manifest that is refused: nothing changes.
Fails(c) == Lives(c, "error") /\ UNCHANGED <<git, marker, observed>>

HasBase(c) == ParentOf(Chunk(c)) = Root \/ branch[ParentOf(Chunk(c))] # None

Base(c) == IF ParentOf(Chunk(c)) = Root THEN <<>> ELSE Content(ParentOf(Chunk(c)))

\* Broken: looks for a local branch only.
MayStartUnpublished(c) ==
    Known(c) /\ HasBase(c) /\ tree = "clean" /\ branch[c] = None /\ Chunk(c).commits # <<>>

\* The branch is looked for in this clone, which nobody brings up to date.
MayStart(c) ==
    /\ Known(c) /\ HasBase(c)
    /\ tree = "clean"
    /\ branch[c] = None /\ c \notin remote
    /\ Chunk(c).commits # <<>>

Makes(c) ==
    /\ branch' = [branch EXCEPT ![c] = [base |-> Base(c), own |-> <<>>]]
    /\ pick' = None /\ todo' = Left /\ tree' = "clean" /\ head' = c

\* Broken: writes the marker once the picks are done.
StartsAndMarksLater(c) ==
    LET q    == Chunk(c).commits
        kept == Len(q) > 1
    IN  /\ ~kept \/ Left = <<>>
        /\ owner' = IF kept THEN c ELSE owner
        /\ PickAndFinish(c, [base |-> Base(c), own |-> <<>>], q, kept, Left, marker[c])

\* git checkout -b, which drops a stopped pick; then the marker; then the
\* picks.  Several commits are not picked at all while there is a queue.
Starts(c) ==
    LET q    == Chunk(c).commits
        kept == Len(q) > 1
    IN  \/ /\ Makes(c) /\ Killed(c) /\ owner' = owner
           /\ \/ Marks(c, head) /\ UnderWay(c)
              \/ (\E place \in {marker[c], None} : Marks(c, place)) /\ Strays(c)
        \/ /\ kept /\ Left # <<>> /\ Makes(c) /\ owner' = owner
           /\ Marks(c, head) /\ UnderWay(c) /\ Lives(c, "stopped")
        \/ /\ ~kept \/ Left = <<>>
           /\ owner' = IF kept THEN c ELSE owner
           /\ PickAndFinish(c, [base |-> Base(c), own |-> <<>>], q, kept, Left, head)

Seed(c) ==
    IF MayStart(c) THEN Starts(c) /\ mixed' = mixed \ {c} ELSE Fails(c)

\* git cherry-pick --continue: refused over a conflict, over a commit that
\* became empty, and over changes that are not the commit's.
Refuses == tree = "conflict" \/ (pick # None <=> tree = "clean")

\* What is picked on c while another chunk's commits are queued.
Mixes(c) == mixed' = IF todo # <<>> /\ owner # c THEN mixed \union {c} ELSE mixed

\* Broken: starts the chunk's picks again.
ContinueAnew(c) ==
    IF ~(Known(c) /\ HasBase(c) /\ head = c) THEN Fails(c)
    ELSE /\ InProgress /\ ~Refuses
         /\ PickAndFinish(c, branch[c], Chunk(c).commits, TRUE, <<>>, marker[c])
         /\ Mixes(c) /\ UNCHANGED owner

\* Broken: waits for a stopped pick where commits are only queued.
ContinueStopped(c) ==
    IF ~(Known(c) /\ HasBase(c) /\ head = c) THEN Fails(c)
    ELSE \/ /\ InProgress /\ (pick = None \/ Refuses)
            /\ UNCHANGED <<git, marker, observed>>
            /\ Lives(c, "stopped")
         \/ /\ pick # None /\ ~Refuses
            /\ PickAndFinish(c, Grown(branch[c], <<pick>>, 1), Rest, TRUE, <<>>,
                             marker[c])
            /\ Mixes(c) /\ UNCHANGED owner

Continue(c) ==
    IF ~(Known(c) /\ HasBase(c) /\ head = c) THEN Fails(c)
    ELSE \/ /\ ~InProgress
            /\ UNCHANGED <<branch, pick, todo, tree, owner, mixed>>
            /\ Finish(c, marker[c])
         \/ /\ InProgress /\ Refuses
            /\ UNCHANGED <<git, marker, observed>>
            /\ Lives(c, "stopped")
         \/ /\ InProgress /\ ~Refuses
            /\ PickAndFinish(c, Grown(branch[c], <<pick>>, IF pick = None THEN 0 ELSE 1),
                             Rest, TRUE, <<>>, marker[c])
            /\ Mixes(c) /\ UNCHANGED owner

Command == \E c \in Ids : (Seed(c) \/ Continue(c)) /\ UNCHANGED <<file, loaded, published, moves>>

-----------------------------------------------------------------------------
(* The human, between two commands *)

Hand == said' = Silent /\ UNCHANGED <<file, loaded, marker, kills, home, astray, owner>>

\* git add, after the conflict is resolved with the commit's change or without.
Resolve ==
    /\ tree = "conflict" /\ tree' \in {"dirty", "clean"}
    /\ UNCHANGED <<branch, published, head, pick, todo, moves, mixed>> /\ Hand

\* git cherry-pick --skip, which goes on with the queue.
Skip ==
    /\ pick # None /\ head \in Ids
    /\ \/ AllApply(head, branch[head], Rest, TRUE, <<>>)
       \/ OneStops(head, branch[head], Rest, TRUE, <<>>)
    /\ Mixes(head)
    /\ UNCHANGED <<published, head, moves>> /\ Hand

\* Changes that are no commit's are put away.
Tidy ==
    /\ tree = "dirty" /\ pick = None /\ tree' = "clean"
    /\ UNCHANGED <<branch, published, head, pick, todo, moves, mixed>> /\ Hand

Childless(c) == \A d \in Ids : Known(d) /\ ParentOf(Chunk(d)) = c => branch[d] = None

\* git commit instead of --continue.
Commit ==
    /\ pick # None /\ tree = "dirty" /\ head \in Ids
    /\ branch' = [branch EXCEPT ![head] = Grown(@, <<pick>>, 1)]
    /\ pick' = None /\ tree' = "clean" /\ todo' = Left
    /\ UNCHANGED <<published, head>>

\* git cherry-pick --abort, which goes back to the start of the picks unless
\* the branch has moved on.  A branch others stand on is not rewound.
Abort ==
    /\ InProgress
    /\ pick' = None /\ tree' = "clean" /\ todo' = <<>>
    /\ \/ branch' = branch
       \/ /\ head \in Ids /\ head = owner /\ todo # <<>> /\ Childless(head)
          /\ branch' = [branch EXCEPT ![head].own = <<>>]
    /\ UNCHANGED <<published, head>>

\* git checkout, which drops a stopped pick and may carry changes along.
Checkout ==
    /\ tree # "conflict"
    /\ \E p \in {Main, Detached} \union {c \in Ids : branch[c] # None} : head' = p
    /\ pick' = None /\ todo' = Left
    /\ tree' \in {tree, "clean"}
    /\ UNCHANGED <<branch, published>>

\* git branch -D of a branch no other stands on.
Delete ==
    /\ \E c \in Ids \ {head} :
          branch[c] # None /\ Childless(c) /\ branch' = [branch EXCEPT ![c] = None]
    /\ UNCHANGED <<published, head, pick, todo, tree>>

\* A review branch, which has commits, is pushed: from here, or from a clone
\* that this one knows nothing of.
Publish ==
    /\ \E c \in Ids :
          /\ Known(c) /\ Chunk(c).commits # <<>> /\ origin' = origin \union {c}
          /\ remote' = remote \/ (branch[c] # None /\ remote' = remote \union {c})
    /\ UNCHANGED git

\* git fetch origin.
Fetch == origin # remote /\ remote' = origin /\ UNCHANGED <<git, origin>>

Edit ==
    /\ tree = "clean" /\ pick = None /\ tree' = "dirty"
    /\ UNCHANGED <<branch, published, head, pick, todo>>

Move ==
    /\ moves < MaxMoves /\ moves' = moves + 1
    /\ Commit \/ Abort \/ Checkout \/ Delete \/ Publish \/ Fetch \/ Edit
    /\ UNCHANGED mixed /\ Hand

-----------------------------------------------------------------------------

Init ==
    /\ file \in Files /\ loaded = Load(file)
    /\ branch = [c \in Ids |-> None]
    /\ origin = {} /\ remote = {}
    /\ head = Main
    /\ pick = None /\ todo = <<>> /\ tree = "clean"
    /\ marker = [c \in Ids |-> None]
    /\ said = Silent
    /\ moves = 0 /\ kills = 0
    /\ home = [c \in Ids |-> None]
    /\ astray = {} /\ owner = None /\ mixed = {}

Next == Command \/ Resolve \/ Skip \/ Tidy \/ Move

Spec == Init /\ [][Next]_vars

\* What a stopped command advises: resolve, skip what became empty, continue.
Advised ==
    \/ Resolve \/ Tidy
    \/ tree = "clean" /\ Skip
    \/ InProgress /\ ~Refuses /\ \E c \in Ids :
          head = c /\ Continue(c) /\ UNCHANGED <<file, loaded, published, moves>>

\* The human follows the advice in the end.
FairSpec == Spec /\ WF_vars(Advised)

-----------------------------------------------------------------------------
(* Properties *)

TypeOK ==
    /\ file \in Files
    /\ branch \in [Ids -> Branches \union {None}]
    /\ remote \subseteq origin /\ origin \subseteq Ids
    /\ head \in {Main, Detached} \union {c \in Ids : branch[c] # None}
    /\ pick \in OnMain \union {None} /\ todo \in Seq(OnMain)
    /\ tree \in {"clean", "conflict", "dirty"}
    /\ tree = "conflict" => pick # None
    /\ pick # None => head \in Ids
    /\ marker \in [Ids -> Ids \union {Main, Detached, None}]
    /\ said \in [chunk : Ids \union {None},
                result : Well \union {"nothing", "error", "stopped", "killed"}]
    /\ moves \in 0..MaxMoves /\ kills \in 0..MaxKills

\* load() accepts exactly the manifests that say what depends on what without
\* contradiction, and orders them parents first.
LoadIsRight ==
    /\ loaded = Refused <=> ~Sound(file)
    /\ loaded # Refused => InOrder(file, loaded)

\* children() of a chunk are all that stand on it, through others too.
ChildrenAreBelow ==
    loaded # Refused =>
        \A c \in FileIds(file) : AllBelow(file, loaded, c, Children(loaded, c))

\* A review branch holds commits of its chunk, each once and in the order of
\* the manifest, whatever was resolved, committed, skipped or killed.
OwnInOrder ==
    \A c \in Ids \ mixed : branch[c] # None => Subsequence(branch[c].own, Chunk(c).commits)

\* Success without a warning means that the branch has all of them.
QuietMeansAll ==
    said.result = "done" /\ said.chunk \notin mixed =>
        branch[said.chunk].own = Chunk(said.chunk).commits

\* A command that ends well leaves the human where seeding the chunk started,
\* whatever stopped, was moved, committed or killed in the picks: all but a
\* start killed before it wrote the marker, and a way back that was killed or
\* that git refused, after which the next command has nothing to go back to.
ReturnsHome ==
    [][LET c == said'.chunk
       IN  said'.result \in Well /\ (branch[c] = None \/ c \notin astray) =>
              head' = IF branch[c] = None \/ home[c] = None THEN head ELSE home[c]]_vars

\* No command takes anything from a branch, touches another chunk's, or
\* starts one that this clone has seen on origin.
NeverOverwrites ==
    [][said' # Silent => \A c \in Ids :
          /\ branch[c] # None => /\ branch'[c] # None /\ branch'[c].base = branch[c].base
                                 /\ IsPrefix(branch[c].own, branch'[c].own)
          /\ branch'[c] # branch[c] => said'.chunk = c
          /\ branch[c] = None /\ branch'[c] # None => c \notin remote]_vars

\* Whoever follows the advice of a stopped command comes to its end, or leaves
\* the branches of chunks.
AdviceWorks == InProgress ~> (~InProgress \/ head \notin Ids)

\* tools/handover/seed.py: "Commits are picked in manifest order".  They are
\* not, where another chunk's commits were queued.
OnlyOwnCommits ==
    \A c \in Ids : branch[c] # None => Subsequence(branch[c].own, Chunk(c).commits)
=============================================================================
