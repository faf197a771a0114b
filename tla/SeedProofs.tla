------------------------------ MODULE SeedProofs ------------------------------
(***************************************************************************)
(* Theorems about Seed, for any manifests, any bounds, and whatever the    *)
(* human does between two commands: a branch holds its chunk's commits in  *)
(* order, silence means all of them, the human comes back to where seeding *)
(* started, and nothing is overwritten.                                    *)
(***************************************************************************)
EXTENDS Seed, ManifestProofs

-----------------------------------------------------------------------------
(* The inductive invariant *)

Commits(c) == Chunk(c).commits

\* s is what is left of the first n commits of t when some are dropped.
Upto(s, t, n) ==
    \E at \in [DOMAIN s -> 1..n] :
        /\ \A i \in DOMAIN s : s[i] = t[at[i]]
        /\ \A i, j \in DOMAIN s : i < j => at[i] < at[j]

\* How many of the commits t come before a queue q of the last ones.
Before(q, t) == Len(t) - Len(q)

EndOf(q, t) == Len(q) <= Len(t) /\ \A i \in 1..Len(q) : q[i] = t[Before(q, t) + i]

LoadedOK == loaded = Load(file)

\* Only chunks of the manifest have a branch here, and unless another chunk's
\* commits came in between, it holds some of the chunk's in order.
OwnOK(br, mx) ==
    \A c \in Ids : br[c] # None =>
        /\ Known(c)
        /\ c \notin mx => Upto(br[c].own, Commits(c), Len(Commits(c)))

\* The queue q is the last commits of chunk c, and what is on a branch of c
\* comes no later than its first.
QueueOf(q, c, br, mx) ==
    /\ c \in Ids \ mx /\ Known(c) /\ Len(Commits(c)) > 1
    /\ EndOf(q, Commits(c))
    /\ br[c] # None => Upto(br[c].own, Commits(c), Before(q, Commits(c)) + 1)

QueueOK(q, o, br, mx) == q # <<>> => QueueOf(q, o, br, mx)

\* The commit p that git stopped at on c is one that the branch does not hold
\* yet: the first of the chunk's own queue, or one after all it holds.
StoppedAt(p, q, o, c, own) ==
    \E n \in 1..Len(Commits(c)) :
        /\ p = Commits(c)[n] /\ Upto(own, Commits(c), n - 1)
        /\ q # <<>> /\ o = c => n = Before(q, Commits(c)) + 1

PickOK(p, q, o, br, mx, h) ==
    p # None /\ h \in Ids \ mx => StoppedAt(p, q, o, h, br[h].own)

Fits(br, p, q, h, o, mx) ==
    OwnOK(br, mx) /\ QueueOK(q, o, br, mx) /\ PickOK(p, q, o, br, mx, h)

PicksOK == Fits(branch, pick, todo, head, owner, mixed)

\* Who ended without a warning has as many commits as the manifest lists.
DoneOK ==
    said.result = "done" =>
        /\ said.chunk \in Ids /\ branch[said.chunk] # None
        /\ Len(branch[said.chunk].own) = Len(Commits(said.chunk))

\* The marker says where the human was, unless the start or the way back was
\* cut, or the way back was refused.
HomeOK == home \in [Ids -> Ids \union {Main, Detached, None}]
          /\ \A c \in Ids \ astray : marker[c] = home[c]

Inv == TypeOK /\ LoadedOK /\ PicksOK /\ DoneOK /\ HomeOK
-----------------------------------------------------------------------------
(* What is left of a sequence when some of it is dropped *)

\* Nothing is always some of the first commits.
LEMMA UptoOfNothing == \A t, n : Upto(<<>>, t, n)
  <1> TAKE t, n
  <1> DEFINE at == [i \in {} |-> i]
  <1>1. DOMAIN <<>> = {} /\ at \in [{} -> 1..n]
    OBVIOUS
  <1> QED BY <1>1 DEF Upto

\* Some of the first m are some of the first n, if these are not fewer.
LEMMA UptoGrows ==
  ASSUME NEW s, NEW t, NEW m \in Int, NEW n \in Int, m <= n, Upto(s, t, m)
  PROVE  Upto(s, t, n)
  <1>1. PICK at \in [DOMAIN s -> 1..m] :
           /\ \A i \in DOMAIN s : s[i] = t[at[i]]
           /\ \A i, j \in DOMAIN s : i < j => at[i] < at[j]
    BY DEF Upto
  <1>2. at \in [DOMAIN s -> 1..n]
    OBVIOUS
  <1> QED BY <1>1, <1>2 DEF Upto

\* What follows in t, put behind what was kept of its first m, is some of as
\* many more.
LEMMA UptoJoined ==
  ASSUME NEW S, NEW s \in Seq(S), NEW r \in Seq(S), NEW t, NEW m \in Nat,
         Upto(s, t, m), \A i \in 1..Len(r) : r[i] = t[m + i]
  PROVE  Upto(s \o r, t, m + Len(r))
  <1>1. PICK at \in [DOMAIN s -> 1..m] :
           /\ \A i \in DOMAIN s : s[i] = t[at[i]]
           /\ \A i, j \in DOMAIN s : i < j => at[i] < at[j]
    BY DEF Upto
  <1>2. /\ Len(s) \in Nat /\ Len(r) \in Nat /\ DOMAIN s = 1..Len(s)
        /\ s \o r \in Seq(S) /\ DOMAIN (s \o r) = 1..(Len(s) + Len(r))
        /\ \A i \in 1..(Len(s) + Len(r)) :
              (s \o r)[i] = IF i <= Len(s) THEN s[i] ELSE r[i - Len(s)]
    BY LenProperties, ConcatProperties
  <1> DEFINE u == s \o r
             up == [i \in DOMAIN u |-> IF i <= Len(s) THEN at[i] ELSE m + (i - Len(s))]
  <1>3. \A i \in 1..Len(s) : at[i] \in 1..m
    BY <1>1, <1>2
  <1>4. up \in [DOMAIN u -> 1..(m + Len(r))]
    BY <1>2, <1>3
  <1>5. ASSUME NEW i \in DOMAIN u PROVE u[i] = t[up[i]]
    <2>1. CASE i <= Len(s)
      BY <2>1, <1>1, <1>2
    <2>2. CASE ~(i <= Len(s))
      <3>1. i - Len(s) \in 1..Len(r) /\ up[i] = m + (i - Len(s)) /\ u[i] = r[i - Len(s)]
        BY <2>2, <1>2
      <3> QED BY <3>1
    <2> QED BY <2>1, <2>2
  <1>6. ASSUME NEW i \in DOMAIN u, NEW j \in DOMAIN u, i < j PROVE up[i] < up[j]
    BY <1>1, <1>2, <1>3, <1>6
  <1> HIDE DEF u, up
  <1>7. Upto(u, t, m + Len(r))
    BY <1>4, <1>5, <1>6 DEF Upto
  <1> QED BY <1>7 DEF u

\* What is left of all of t is a subsequence of it.
LEMMA UptoIsSubsequence ==
  ASSUME NEW s, NEW S, NEW t \in Seq(S), Upto(s, t, Len(t))
  PROVE  Subsequence(s, t)
  <1>1. DOMAIN t = 1..Len(t)
    BY LenProperties
  <1> QED BY <1>1 DEF Upto, Subsequence

\* An increasing function from the first n numbers to themselves leaves each
\* where it is.
LEMMA IncreasingIsIdentity ==
  ASSUME NEW n \in Nat, NEW at \in [1..n -> 1..n],
         \A i, j \in 1..n : i < j => at[i] < at[j]
  PROVE  \A i \in 1..n : at[i] = i
  <1>1. ASSUME NEW k \in 1..n, at[k] < k PROVE FALSE
    <2> DEFINE Low == {i \in 1..n : at[i] < i}
    <2>1. k \in Low /\ Low \subseteq Nat
      BY <1>1
    <2>2. PICK i \in Low : \A j \in Low : ~(<<j, i>> \in OpToRel(<, Nat))
      BY <2>1, NatLessThanWellFounded, WFMin
    <2>3. \A j \in Low : ~(j < i)
      BY <2>1, <2>2 DEF OpToRel
    <2>4. i \in 1..n /\ at[i] \in 1..n /\ at[i] < i
      OBVIOUS
    <2>5. at[at[i]] < at[i]
      BY <2>4
    <2>6. at[i] \in Low
      BY <2>4, <2>5
    <2> QED BY <2>3, <2>4, <2>6
  <1>2. ASSUME NEW k \in 1..n, at[k] > k PROVE FALSE
    <2> DEFINE High == {d \in 0..(n - 1) : at[n - d] > n - d}
    <2>1. n - k \in High /\ High \subseteq Nat
      BY <1>2
    <2>2. PICK d \in High : \A e \in High : ~(<<e, d>> \in OpToRel(<, Nat))
      BY <2>1, NatLessThanWellFounded, WFMin
    <2>3. \A e \in High : ~(e < d)
      BY <2>1, <2>2 DEF OpToRel
    <2>4. d \in 0..(n - 1) /\ at[n - d] \in 1..n /\ at[n - d] > n - d
      OBVIOUS
    <2>5. d # 0
      BY <2>4
    <2>6. n - (d - 1) \in 1..n /\ n - d \in 1..n /\ n - d < n - (d - 1)
      BY <2>4, <2>5
    <2>7. at[n - d] < at[n - (d - 1)] /\ at[n - (d - 1)] \in 1..n
      BY <2>6
    <2>8. d - 1 \in High
      BY <2>4, <2>5, <2>6, <2>7
    <2>9. d - 1 < d
      BY <2>4
    <2> QED BY <2>3, <2>8, <2>9
  <1>3. \A i \in 1..n : at[i] \in 1..n
    OBVIOUS
  <1> QED BY <1>1, <1>2, <1>3

\* Whoever keeps as many of t as there are keeps t.
LEMMA UptoOfAllIsAll ==
  ASSUME NEW S, NEW s \in Seq(S), NEW t \in Seq(S), Upto(s, t, Len(t)), Len(s) = Len(t)
  PROVE  s = t
  <1>1. Len(t) \in Nat /\ DOMAIN s = 1..Len(t)
    BY LenProperties
  <1>2. PICK at \in [1..Len(t) -> 1..Len(t)] :
           /\ \A i \in 1..Len(t) : s[i] = t[at[i]]
           /\ \A i, j \in 1..Len(t) : i < j => at[i] < at[j]
    BY <1>1 DEF Upto
  <1>3. \A i \in 1..Len(t) : at[i] = i
    BY <1>1, <1>2, IncreasingIsIdentity
  <1> QED BY <1>2, <1>3, SeqEqual

-----------------------------------------------------------------------------
(* Chunks of the manifest *)

\* What load() accepted of a chunk: its commits are on main, and its parent is
\* a chunk, or there is none.
LEMMA KnownChunk ==
  ASSUME file \in Files, LoadedOK, NEW c, Known(c)
  PROVE  /\ Commits(c) \in Seq(OnMain)
         /\ ParentOf(Chunk(c)) \in Ids \union {Root}
  <1>1. Load(file) # Refused /\ \E d \in ToSet(Load(file)) : d.id = c
    BY DEF LoadedOK, Known
  <1>2. Shaped(file) /\ FileIds(file) \subseteq Ids
    BY FilesAssumption
  <1>3. Chunk(c) \in Listed(file)
    <2>1. Load(file) \in Seq(Listed(file))
      BY <1>1, <1>2, LoadedIs DEF OrderedOK
    <2>2. ToSet(Load(file)) \subseteq Listed(file)
      BY <2>1 DEF ToSet
    <2> QED BY <1>1, <2>2 DEF Chunk, ById
  <1>4. \A d \in Listed(file) : Parses(d)
    BY <1>1, <1>2, LoadedIs
  <1>6. ParentOf(Chunk(c)) \in FileIds(file) \union {Root}
    BY <1>1, <1>2, <1>3, LoadedIs DEF OneParent, Good
  <1>7. Commits(c) \in Seq(ToSet(Commits(c)))
    BY <1>2, <1>3 DEF Commits, Shaped
  <1>8. ToSet(Commits(c)) \subseteq OnMain
    BY <1>3, <1>4 DEF Parses, Commits
  <1>9. Commits(c) \in Seq(OnMain)
    BY <1>7, <1>8, SeqMonotonic
  <1> QED BY <1>2, <1>6, <1>9

\* Nothing changes chunks.yml.
Stays == file' = file /\ loaded' = loaded

\* The manifest stays what it is.
LEMMA NextStays == Next => Stays
  BY Zenon DEF Next, Command, Resolve, Skip, Tidy, Move, Hand, Stays

LEMMA SameChunks ==
  Stays => /\ LoadedOK => LoadedOK'
           /\ \A c : Commits(c)' = Commits(c) /\ (Known(c)' <=> Known(c))
  BY DEF Stays, LoadedOK, Known, Commits, Chunk

\* What holds of the branches after a step, said of their chunks before it.
LEMMA FitsAfter ==
  ASSUME Stays, Fits(branch', pick', todo', head', owner', mixed')
  PROVE  PicksOK'
  <1>1. \A c : Commits(c)' = Commits(c) /\ (Known(c)' <=> Known(c))
    BY SameChunks
  <1>2. OwnOK(branch', mixed') => OwnOK(branch, mixed)'
    BY <1>1 DEF OwnOK
  <1>3. QueueOK(todo', owner', branch', mixed') => QueueOK(todo, owner, branch, mixed)'
    BY <1>1 DEF QueueOK, QueueOf
  <1>4. PickOK(pick', todo', owner', branch', mixed', head')
           => PickOK(pick, todo, owner, branch, mixed, head)'
    BY <1>1 DEF PickOK, StoppedAt
  <1> QED BY <1>2, <1>3, <1>4 DEF Fits, PicksOK

-----------------------------------------------------------------------------
(* Picking *)

\* A branch with the first k commits of q picked onto it.
LEMMA GrownIs ==
  ASSUME NEW b \in Branches, NEW q \in Seq(OnMain), NEW k \in 0..Len(q)
  PROVE  /\ SubSeq(q, 1, k) \in Seq(OnMain)
         /\ Len(SubSeq(q, 1, k)) = k /\ \A i \in 1..k : SubSeq(q, 1, k)[i] = q[i]
         /\ Grown(b, q, k) \in Branches
         /\ Grown(b, q, k).base = b.base
         /\ Grown(b, q, k).own = b.own \o SubSeq(q, 1, k)
         /\ b.own \in Seq(OnMain)
  <1>1. Len(q) \in Nat /\ \A i \in 1..Len(q) : q[i] \in OnMain
    BY LenProperties
  <1>2. /\ SubSeq(q, 1, k) \in Seq(OnMain)
        /\ Len(SubSeq(q, 1, k)) = k /\ \A i \in 1..k : SubSeq(q, 1, k)[i] = q[i]
    BY <1>1, SubSeqProperties
  <1>3. b.own \in Seq(OnMain) /\ b.base \in Seq(OnMain)
    BY DEF Branches
  <1>4. b.own \o SubSeq(q, 1, k) \in Seq(OnMain)
    BY <1>2, <1>3, ConcatProperties
  <1> QED BY <1>2, <1>3, <1>4 DEF Grown, Branches

\* The commit git stopped at is committed before the queue goes on.
LEMMA FirstIs ==
  ASSUME NEW b \in Branches
  PROVE  /\ Grown(b, <<None>>, 0) = b
         /\ \A p \in OnMain : /\ Grown(b, <<p>>, 1) \in Branches
                              /\ Grown(b, <<p>>, 1).base = b.base
                              /\ Grown(b, <<p>>, 1).own = b.own \o <<p>>
  <1>1. b.own \in Seq(OnMain) /\ b.base \in Seq(OnMain)
    BY DEF Branches
  <1>2. SubSeq(<<None>>, 1, 0) = <<>>
    BY SubSeqEmpty
  <1>3. b.own \o <<>> = b.own
    BY <1>1, ConcatEmptySeq
  <1>4. Grown(b, <<None>>, 0) = b
    <2>1. Grown(b, <<None>>, 0) = [b EXCEPT !.own = b.own]
      BY <1>2, <1>3 DEF Grown
    <2> QED BY <2>1 DEF Branches
  <1>5. ASSUME NEW p \in OnMain
        PROVE  /\ Grown(b, <<p>>, 1) \in Branches /\ Grown(b, <<p>>, 1).base = b.base
               /\ Grown(b, <<p>>, 1).own = b.own \o <<p>>
    <2> DEFINE q == <<p>>
    <2>1. q \in Seq(OnMain) /\ 1 \in 0..Len(q) /\ Len(q) = 1
      OBVIOUS
    <2> HIDE DEF q
    <2>2. SubSeq(q, 1, 1) = q
      BY <2>1, SubSeqFull
    <2>3. /\ Grown(b, q, 1) \in Branches /\ Grown(b, q, 1).base = b.base
          /\ Grown(b, q, 1).own = b.own \o SubSeq(q, 1, 1)
      BY <2>1, GrownIs
    <2> QED BY <2>2, <2>3 DEF q
  <1> QED BY <1>4, <1>5

\* The ways picks go: k of q are picked, and what is queued starts with the
\* commit git is at or with the one before.
Picks(c, b, q, kept, other) ==
    \E k \in 0..Len(q), j \in 1..(Len(q) + 1) :
        /\ branch' = [branch EXCEPT ![c] = Grown(b, q, k)]
        /\ j \in {k, k + 1}
        /\ todo' = IF kept THEN SubSeq(q, j, Len(q)) ELSE other
        /\ pick' # None => k < Len(q) /\ pick' = q[k + 1] /\ j = k + 1
        /\ tree' \in {"clean", "conflict"} /\ (tree' = "conflict" => pick' # None)

\* All apply, one stops, or git is killed.
LEMMA PicksGo ==
  ASSUME NEW c, NEW b, NEW q \in Seq(OnMain), NEW kept \in BOOLEAN, NEW other,
         \/ AllApply(c, b, q, kept, other)
         \/ OneStops(c, b, q, kept, other)
         \/ KilledPicking(c, b, q, kept, other)
  PROVE  Picks(c, b, q, kept, other)
  <1> Len(q) \in Nat
    BY LenProperties
  <1>1. CASE AllApply(c, b, q, kept, other)
    <2>1. SubSeq(q, Len(q) + 1, Len(q)) = <<>>
      BY SubSeqEmpty
    <2>2. Len(q) \in 0..Len(q) /\ Len(q) + 1 \in 1..(Len(q) + 1)
      OBVIOUS
    <2> QED BY <1>1, <2>1, <2>2 DEF AllApply, Picks
  <1>2. CASE OneStops(c, b, q, kept, other)
    <2>1. PICK k \in 0..(Len(q) - 1) :
        /\ branch' = [branch EXCEPT ![c] = Grown(b, q, k)]
        /\ pick' = q[k + 1] /\ tree' \in {"conflict", "clean"}
        /\ todo' = IF kept THEN SubSeq(q, k + 1, Len(q)) ELSE other
      BY <1>2 DEF OneStops
    <2>2. k \in 0..Len(q) /\ k + 1 \in 1..(Len(q) + 1) /\ k < Len(q) /\ k + 1 \in 1..Len(q)
      OBVIOUS
    <2>3. q[k + 1] \in OnMain
      BY <2>2, ElementOfSeq
    <2>4. pick' # None
      BY <2>1, <2>3, NamesAssumption
    <2> QED BY <2>1, <2>2, <2>4 DEF Picks
  <1>3. CASE KilledPicking(c, b, q, kept, other)
    <2>1. PICK k \in 0..Len(q) :
        /\ branch' = [branch EXCEPT ![c] = Grown(b, q, k)]
        /\ pick' = None /\ tree' = "clean"
        /\ todo' \in IF ~kept THEN {other}
                     ELSE {SubSeq(q, j, Len(q)) : j \in {k, k + 1} \ {0}}
      BY <1>3 DEF KilledPicking
    <2>2. CASE kept
      <3>1. PICK j \in {k, k + 1} \ {0} : todo' = SubSeq(q, j, Len(q))
        BY <2>1, <2>2
      <3>2. j \in 1..(Len(q) + 1)
        OBVIOUS
      <3> QED BY <2>1, <2>2, <3>1, <3>2 DEF Picks
    <2>3. CASE ~kept
      <3>1. k + 1 \in 1..(Len(q) + 1) /\ todo' = other
        BY <2>1, <2>3
      <3> QED BY <2>1, <2>3, <3>1 DEF Picks
    <2> QED BY <2>2, <2>3
  <1> QED BY <1>1, <1>2, <1>3

\* Picks on a chunk's branch leave sane values behind, and no other branch is
\* touched.
LEMMA PicksTyped ==
  ASSUME NEW c \in Ids, NEW b \in Branches, NEW q \in Seq(OnMain), NEW kept \in BOOLEAN,
         NEW other \in Seq(OnMain), Picks(c, b, q, kept, other),
         branch \in [Ids -> Branches \union {None}]
  PROVE  /\ branch' \in [Ids -> Branches \union {None}]
         /\ branch'[c] # None /\ \A d \in Ids \ {c} : branch'[d] = branch[d]
         /\ branch'[c].base = b.base
         /\ \E k \in 0..Len(q) : branch'[c].own = b.own \o SubSeq(q, 1, k)
         /\ pick' \in OnMain \union {None} /\ todo' \in Seq(OnMain)
         /\ tree' \in {"clean", "conflict"} /\ (tree' = "conflict" => pick' # None)
  <1>0. Len(q) \in Nat /\ DOMAIN q = 1..Len(q) /\ \A i \in 1..Len(q) : q[i] \in OnMain
    BY LenProperties
  <1>1. PICK k \in 0..Len(q), j \in 1..(Len(q) + 1) :
        /\ branch' = [branch EXCEPT ![c] = Grown(b, q, k)]
        /\ todo' = IF kept THEN SubSeq(q, j, Len(q)) ELSE other
        /\ pick' # None => k < Len(q) /\ pick' = q[k + 1]
        /\ tree' \in {"clean", "conflict"} /\ (tree' = "conflict" => pick' # None)
    BY DEF Picks
  <1>2. /\ Grown(b, q, k) \in Branches /\ Grown(b, q, k).base = b.base
        /\ Grown(b, q, k).own = b.own \o SubSeq(q, 1, k)
    BY GrownIs
  <1>3. /\ branch' \in [Ids -> Branches \union {None}] /\ branch'[c] = Grown(b, q, k)
        /\ \A d \in Ids \ {c} : branch'[d] = branch[d]
    BY <1>1, <1>2
  <1>4. branch'[c] # None
    BY <1>2, <1>3, NamesAssumption
  <1>5. SubSeq(q, j, Len(q)) \in Seq(OnMain)
    BY <1>0, SubSeqProperties
  <1>6. pick' \in OnMain \union {None}
    BY <1>0, <1>1
  <1> QED BY <1>1, <1>2, <1>3, <1>4, <1>5, <1>6

\* A queue is the end of its chunk, and so is what is left of it.
LEMMA EndOfEnd ==
  ASSUME NEW t \in Seq(OnMain), NEW q \in Seq(OnMain), EndOf(q, t), NEW j \in 1..(Len(q) + 1)
  PROVE  /\ SubSeq(q, j, Len(q)) \in Seq(OnMain)
         /\ EndOf(SubSeq(q, j, Len(q)), t)
         /\ Before(SubSeq(q, j, Len(q)), t) = Before(q, t) + j - 1
         /\ Before(q, t) \in Nat
  <1> DEFINE r == SubSeq(q, j, Len(q))
  <1>1. Len(q) \in Nat /\ Len(t) \in Nat /\ \A i \in 1..Len(q) : q[i] \in OnMain
    BY LenProperties
  <1>2. /\ r \in Seq(OnMain) /\ Len(r) = Len(q) - j + 1
        /\ \A i \in 1..(Len(q) - j + 1) : r[i] = q[j + i - 1]
    BY <1>1, SubSeqProperties
  <1> HIDE DEF r
  <1>3. Before(r, t) = Before(q, t) + j - 1 /\ Before(q, t) \in Nat
    BY <1>1, <1>2 DEF Before, EndOf
  <1>4. ASSUME NEW i \in 1..Len(r) PROVE r[i] = t[Before(r, t) + i]
    <2>1. j + i - 1 \in 1..Len(q) /\ r[i] = q[j + i - 1]
      BY <1>1, <1>2
    <2>2. r[i] = t[Before(q, t) + (j + i - 1)]
      BY <2>1 DEF EndOf
    <2>3. Before(q, t) + (j + i - 1) = Before(r, t) + i
      BY <1>3
    <2> QED BY <2>2, <2>3
  <1>5. EndOf(r, t)
    BY <1>1, <1>2, <1>4 DEF EndOf
  <1> QED BY <1>2, <1>3, <1>5 DEF r

\* Picking from a queue that ends chunk t onto what holds commits before it.
LEMMA PickedFromEnd ==
  ASSUME NEW t \in Seq(OnMain), NEW q \in Seq(OnMain), EndOf(q, t), NEW b \in Branches,
         NEW k \in 0..Len(q), Upto(b.own, t, Before(q, t))
  PROVE  /\ Upto(Grown(b, q, k).own, t, Before(q, t) + k)
         /\ Upto(Grown(b, q, k).own, t, Len(t))
  <1>1. Len(q) \in Nat /\ Len(t) \in Nat /\ \A i \in 1..Len(q) : q[i] \in OnMain
    BY LenProperties
  <1>2. /\ SubSeq(q, 1, k) \in Seq(OnMain)
        /\ Len(SubSeq(q, 1, k)) = k /\ \A i \in 1..k : SubSeq(q, 1, k)[i] = q[i]
        /\ Grown(b, q, k) \in Branches
        /\ Grown(b, q, k).base = b.base
        /\ Grown(b, q, k).own = b.own \o SubSeq(q, 1, k)
        /\ b.own \in Seq(OnMain)
    BY GrownIs, Zenon
  <1>3. Before(q, t) \in Nat /\ b.own \in Seq(OnMain) /\ Before(q, t) + k <= Len(t)
    BY <1>1 DEF Before, EndOf, Branches
  <1>4. ASSUME NEW i \in 1..k PROVE SubSeq(q, 1, k)[i] = t[Before(q, t) + i]
    <2>1. i \in 1..Len(q) /\ SubSeq(q, 1, k)[i] = q[i]
      BY <1>1, <1>2
    <2> QED BY <2>1 DEF EndOf
  <1> DEFINE r == SubSeq(q, 1, k)
  <1>5. r \in Seq(OnMain) /\ Len(r) = k /\ \A i \in 1..Len(r) : r[i] = t[Before(q, t) + i]
    BY <1>2, <1>4
  <1> HIDE DEF r
  <1>6. Upto(b.own \o r, t, Before(q, t) + Len(r))
    BY <1>3, <1>5, UptoJoined
  <1>7. Upto(b.own \o r, t, Before(q, t) + k)
    BY <1>5, <1>6
  <1>8. Upto(b.own \o r, t, Len(t))
    BY <1>1, <1>3, <1>7, UptoGrows
  <1> QED BY <1>2, <1>7, <1>8 DEF r

\* The commit git stopped at, put behind what came before it.
LEMMA StoppedOn ==
  ASSUME NEW t \in Seq(OnMain), NEW n \in 1..Len(t), NEW s \in Seq(OnMain), Upto(s, t, n - 1)
  PROVE  Upto(s \o <<t[n]>>, t, n) /\ Upto(s \o <<t[n]>>, t, Len(t))
  <1>1. Len(t) \in Nat /\ t[n] \in OnMain
    BY LenProperties, ElementOfSeq
  <1> DEFINE r == <<t[n]>>
  <1>2. r \in Seq(OnMain) /\ Len(r) = 1 /\ \A i \in 1..Len(r) : r[i] = t[(n - 1) + i]
    BY <1>1
  <1>3. n - 1 \in Nat /\ (n - 1) + Len(r) = n
    BY <1>1, <1>2
  <1> HIDE DEF r
  <1>4. Upto(s \o r, t, (n - 1) + Len(r))
    BY <1>2, <1>3, UptoJoined
  <1>5. Upto(s \o r, t, n)
    BY <1>3, <1>4
  <1>6. Upto(s \o r, t, Len(t))
    BY <1>1, <1>5, UptoGrows
  <1> QED BY <1>5, <1>6 DEF r

-----------------------------------------------------------------------------
(* What picks do to the invariant *)

\* A chunk's own queue, of the commits after those its branch may hold, goes
\* on: another chunk is not concerned.
LEMMA OwnQueueGoesOn ==
  ASSUME NEW c \in Ids, Known(c), Commits(c) \in Seq(OnMain), Len(Commits(c)) > 1,
         branch \in [Ids -> Branches \union {None}], OwnOK(branch, mixed),
         NEW b \in Branches, NEW q \in Seq(OnMain), EndOf(q, Commits(c)),
         Upto(b.own, Commits(c), Before(q, Commits(c))),
         NEW other \in Seq(OnMain), Picks(c, b, q, TRUE, other),
         c \notin mixed', mixed \ {c} \subseteq mixed', owner' = c,
         pick' # None => head' = c
  PROVE  Fits(branch', pick', todo', head', owner', mixed')
  <1> DEFINE t == Commits(c)
  <1>0. Len(q) \in Nat /\ Len(t) \in Nat
    BY LenProperties
  <1>1. PICK k \in 0..Len(q), j \in 1..(Len(q) + 1) :
        /\ branch' = [branch EXCEPT ![c] = Grown(b, q, k)]
        /\ j \in {k, k + 1}
        /\ todo' = SubSeq(q, j, Len(q))
        /\ pick' # None => k < Len(q) /\ pick' = q[k + 1] /\ j = k + 1
    BY DEF Picks
  <1>2. branch'[c] = Grown(b, q, k) /\ \A d \in Ids \ {c} : branch'[d] = branch[d]
    BY <1>1
  <1>3. /\ Upto(branch'[c].own, t, Before(q, t) + k)
        /\ Upto(branch'[c].own, t, Len(t))
    BY <1>2, PickedFromEnd
  <1>4. /\ EndOf(todo', t) /\ Before(todo', t) = Before(q, t) + j - 1
        /\ Before(q, t) \in Nat
    BY <1>1, EndOfEnd
  <1>5. OwnOK(branch', mixed')
    BY <1>2, <1>3 DEF OwnOK
  <1>6. QueueOK(todo', owner', branch', mixed')
    <2>1. Before(q, t) + k <= Before(todo', t) + 1
      BY <1>0, <1>1, <1>4
    <2>2. Upto(branch'[c].own, t, Before(todo', t) + 1)
      BY <2>1, <1>0, <1>3, <1>4, UptoGrows
    <2> QED BY <2>2, <1>4 DEF QueueOK, QueueOf
  <1>7. PickOK(pick', todo', owner', branch', mixed', head')
    <2> SUFFICES ASSUME pick' # None, head' \in Ids \ mixed'
                 PROVE  StoppedAt(pick', todo', owner', head', branch'[head'].own)
      BY DEF PickOK
    <2>1. head' = c /\ k < Len(q) /\ pick' = q[k + 1] /\ j = k + 1
      BY <1>1
    <2> DEFINE n == Before(q, t) + k + 1
    <2>2. Before(q, t) = Len(t) - Len(q)
      BY DEF Before
    <2>3. n \in 1..Len(t) /\ k + 1 \in 1..Len(q) /\ n - 1 = Before(q, t) + k
          /\ n = Before(q, t) + (k + 1)
      BY <2>1, <2>2, <1>0, <1>4
    <2>4. q[k + 1] = t[Before(q, t) + (k + 1)]
      BY <2>3 DEF EndOf
    <2>5. n = Before(todo', t) + 1
      BY <2>1, <1>4, <1>0
    <2> HIDE DEF n
    <2>6. pick' = t[n] /\ Upto(branch'[c].own, t, n - 1)
      BY <2>1, <2>3, <2>4, <1>3
    <2> QED BY <2>1, <2>3, <2>5, <2>6 DEF StoppedAt
  <1> QED BY <1>5, <1>6, <1>7 DEF Fits

\* Another chunk's queue goes on on a branch that is mixed from now on.
LEMMA OtherQueueGoesOn ==
  ASSUME NEW c \in Ids, Known(c), branch \in [Ids -> Branches \union {None}],
         OwnOK(branch, mixed), QueueOK(todo, owner, branch, mixed),
         todo # <<>>, owner # c, owner' = owner, mixed' = mixed \union {c},
         Commits(owner) \in Seq(OnMain), todo \in Seq(OnMain),
         NEW b \in Branches, Picks(c, b, Tail(todo), TRUE, <<>>), pick' # None => head' = c
  PROVE  Fits(branch', pick', todo', head', owner', mixed')
  <1> DEFINE t == Commits(owner)
             q == Tail(todo)
  <1>0. Len(todo) \in Nat /\ Len(t) \in Nat /\ Len(todo) # 0
    BY LenProperties, EmptySeq
  <1>1. q = SubSeq(todo, 2, Len(todo)) /\ q \in Seq(OnMain) /\ Len(q) \in Nat
    BY TailIsSubSeq, HeadTailProperties, LenProperties
  <1>2. /\ owner \in Ids \ mixed /\ Known(owner) /\ Len(t) > 1 /\ EndOf(todo, t)
        /\ branch[owner] # None => Upto(branch[owner].own, t, Before(todo, t) + 1)
    BY DEF QueueOK, QueueOf
  <1>3. EndOf(q, t) /\ Before(q, t) = Before(todo, t) + 2 - 1 /\ Before(todo, t) \in Nat
    <2>1. 2 \in 1..(Len(todo) + 1)
      BY <1>0
    <2>2. /\ SubSeq(todo, 2, Len(todo)) \in Seq(OnMain)
          /\ EndOf(SubSeq(todo, 2, Len(todo)), t)
          /\ Before(SubSeq(todo, 2, Len(todo)), t) = Before(todo, t) + 2 - 1
          /\ Before(todo, t) \in Nat
      BY <1>2, <2>1, EndOfEnd
    <2> QED BY <1>1, <2>2
  <1> HIDE DEF q
  <1>4. PICK k \in 0..Len(q), j \in 1..(Len(q) + 1) :
        /\ branch' = [branch EXCEPT ![c] = Grown(b, q, k)]
        /\ todo' = SubSeq(q, j, Len(q))
    BY DEF Picks, q
  <1>5. \A d \in Ids \ {c} : branch'[d] = branch[d]
    BY <1>4
  <1>6. EndOf(todo', t) /\ Before(todo', t) = Before(q, t) + j - 1
    BY <1>1, <1>3, <1>4, EndOfEnd
  <1>7. OwnOK(branch', mixed')
    BY <1>5 DEF OwnOK
  <1>8. QueueOK(todo', owner', branch', mixed')
    <2>1. /\ Before(todo, t) + 1 \in Int /\ Before(todo', t) + 1 \in Int
          /\ Before(todo, t) + 1 <= Before(todo', t) + 1
      BY <1>1, <1>3, <1>6
    <2>2. branch[owner] # None => Upto(branch[owner].own, t, Before(todo', t) + 1)
      BY <2>1, <1>2, UptoGrows
    <2>3. branch'[owner] = branch[owner] /\ owner \in Ids \ mixed'
      BY <1>2, <1>5
    <2> QED BY <2>2, <2>3, <1>2, <1>6 DEF QueueOK, QueueOf
  <1>9. PickOK(pick', todo', owner', branch', mixed', head')
    BY DEF PickOK
  <1> QED BY <1>7, <1>8, <1>9 DEF Fits

\* Nothing is queued.
LEMMA NoQueueGoesOn ==
  ASSUME NEW c \in Ids, Known(c), branch \in [Ids -> Branches \union {None}],
         OwnOK(branch, mixed), mixed' = mixed,
         NEW b \in Branches, Picks(c, b, <<>>, TRUE, <<>>),
         c \notin mixed => Upto(b.own, Commits(c), Len(Commits(c)))
  PROVE  Fits(branch', pick', todo', head', owner', mixed')
  <1> DEFINE q == <<>>
  <1>0. q \in Seq(OnMain) /\ Len(q) = 0
    BY EmptySeq
  <1> HIDE DEF q
  <1>1. PICK k \in 0..Len(q), j \in 1..(Len(q) + 1) :
        /\ branch' = [branch EXCEPT ![c] = Grown(b, q, k)]
        /\ todo' = SubSeq(q, j, Len(q))
        /\ pick' # None => k < Len(q)
    BY DEF Picks, q
  <1>2. k = 0 /\ j = 1 /\ pick' = None
    BY <1>0, <1>1
  <1>3. todo' = <<>>
    BY <1>0, <1>1, <1>2, SubSeqEmpty
  <1>4. Grown(b, q, k).own = b.own \o SubSeq(q, 1, k) /\ b.own \in Seq(OnMain)
    BY <1>0, GrownIs
  <1>5. Grown(b, q, 0).own = b.own
    <2>1. SubSeq(q, 1, 0) = <<>>
      BY SubSeqEmpty
    <2>2. b.own \o <<>> = b.own
      BY <1>4, ConcatEmptySeq
    <2> QED BY <1>2, <1>4, <2>1, <2>2
  <1>6. branch'[c].own = b.own /\ \A d \in Ids \ {c} : branch'[d] = branch[d]
    BY <1>1, <1>2, <1>5
  <1> QED BY <1>2, <1>3, <1>6 DEF Fits, OwnOK, QueueOK, PickOK

-----------------------------------------------------------------------------
(* How a command ends *)

Ends(c, marked) ==
    /\ \/ head' = c
       \/ head' = marked /\ marked # None /\ (marked \in Ids => branch'[marked] # None)
    /\ \/ Marks(c, None) /\ Returns(c)
       \/ Marks(c, None) /\ Strays(c)
       \/ Marks(c, marked) /\ UnderWay(c)
       \/ Marks(c, marked) /\ Strays(c)
    /\ said'.chunk = c
    /\ said' \in [chunk : {c}, result : {"stopped", "killed", "error", "done", "warned"}]
    /\ said'.result = "done" => Len(branch'[c].own) = Len(Commits(c))
    /\ said'.result \in Well => head' = IF marked = None THEN c ELSE marked
    /\ \/ kills' = kills
       \/ kills < MaxKills /\ kills' = kills + 1

\* What a command says.
LEMMA SaysIs ==
  ASSUME NEW c, NEW r \in {"stopped", "killed", "error", "done", "warned"}, Says(c, r)
  PROVE  /\ said'.chunk = c /\ said'.result = r
         /\ said' \in [chunk : {c}, result : {"stopped", "killed", "error", "done", "warned"}]
  BY DEF Says

\* A command that is killed, or that stops.
LEMMA StopEnds ==
  ASSUME NEW c, NEW marked, head' = c, Marks(c, marked), UnderWay(c) \/ Strays(c),
         Killed(c) \/ Lives(c, "stopped")
  PROVE  Ends(c, marked)
  <1>0. Marks(c, marked)
    OBVIOUS
  <1>1. CASE Killed(c)
    <2>1. /\ said'.chunk = c /\ said'.result = "killed"
          /\ said' \in [chunk : {c}, result : {"stopped", "killed", "error", "done", "warned"}]
      BY <1>1, SaysIs DEF Killed
    <2> QED BY <1>0, <1>1, <2>1 DEF Killed, Ends, Well
  <1>2. CASE Lives(c, "stopped")
    <2>1. /\ said'.chunk = c /\ said'.result = "stopped"
          /\ said' \in [chunk : {c}, result : {"stopped", "killed", "error", "done", "warned"}]
      BY <1>2, SaysIs DEF Lives
    <2> QED BY <1>0, <1>2, <2>1 DEF Lives, Ends, Well
  <1> QED BY <1>1, <1>2

\* _finish.
LEMMA FinishEnds ==
  ASSUME NEW c \in Ids, NEW marked, Finish(c, marked), branch'[c] # None
  PROVE  Ends(c, marked)
  <1> DEFINE back == IF marked = None THEN c ELSE marked
  <1>0. Marks(c, None)
    BY DEF Finish
  <1>1. CASE Exists(back) /\ head' = back /\ Lives(c, Count(c)) /\ Returns(c)
    <2>1. /\ said'.chunk = c /\ said'.result = Count(c)
          /\ said' \in [chunk : {c}, result : {"stopped", "killed", "error", "done", "warned"}]
      BY <1>1, SaysIs DEF Lives, Count
    <2>2. said'.result = "done" => Len(branch'[c].own) = Len(Commits(c))
      BY <2>1 DEF Commits, Count
    <2>3. \/ head' = c
          \/ head' = marked /\ marked # None /\ (marked \in Ids => branch'[marked] # None)
      BY <1>1 DEF Exists
    <2> QED BY <1>0, <1>1, <2>1, <2>2, <2>3 DEF Lives, Ends
  <1>2. CASE head' = c /\ Lives(c, "error") /\ Strays(c)
    <2>1. /\ said'.chunk = c /\ said'.result = "error"
          /\ said' \in [chunk : {c}, result : {"stopped", "killed", "error", "done", "warned"}]
      BY <1>2, SaysIs DEF Lives
    <2> QED BY <1>0, <1>2, <2>1 DEF Lives, Ends, Well
  <1>3. CASE (head' = c \/ (Exists(back) /\ head' = back)) /\ Killed(c) /\ Strays(c)
    <2>1. /\ said'.chunk = c /\ said'.result = "killed"
          /\ said' \in [chunk : {c}, result : {"stopped", "killed", "error", "done", "warned"}]
      BY <1>3, SaysIs DEF Killed
    <2>2. \/ head' = c
          \/ head' = marked /\ marked # None /\ (marked \in Ids => branch'[marked] # None)
      BY <1>3 DEF Exists
    <2> QED BY <1>0, <1>3, <2>1, <2>2 DEF Killed, Ends, Well
  <1> QED BY <1>1, <1>2, <1>3 DEF Finish

\* Picks, and then _finish unless they stopped.
LEMMA PickAndFinishDoes ==
  ASSUME NEW c \in Ids, NEW b \in Branches, NEW q \in Seq(OnMain), NEW kept \in BOOLEAN,
         NEW other \in Seq(OnMain), NEW marked,
         branch \in [Ids -> Branches \union {None}],
         PickAndFinish(c, b, q, kept, other, marked)
  PROVE  /\ Picks(c, b, q, kept, other)
         /\ pick' # None => head' = c
         /\ Ends(c, marked)
  <1>1. Picks(c, b, q, kept, other)
    BY PicksGo DEF PickAndFinish
  <1>2. /\ branch' \in [Ids -> Branches \union {None}]
        /\ branch'[c] # None /\ \A d \in Ids \ {c} : branch'[d] = branch[d]
        /\ branch'[c].base = b.base
        /\ \E k \in 0..Len(q) : branch'[c].own = b.own \o SubSeq(q, 1, k)
        /\ pick' \in OnMain \union {None} /\ todo' \in Seq(OnMain)
        /\ tree' \in {"clean", "conflict"} /\ (tree' = "conflict" => pick' # None)
    BY <1>1, PicksTyped, Zenon
  <1>3. CASE OneStops(c, b, q, kept, other) /\ head' = c /\ Marks(c, marked) /\ UnderWay(c)
             /\ Lives(c, "stopped")
    BY <1>1, <1>3, StopEnds
  <1>4. CASE KilledPicking(c, b, q, kept, other) /\ head' = c /\ Marks(c, marked)
             /\ UnderWay(c) /\ Killed(c)
    BY <1>1, <1>4, StopEnds
  <1>5. CASE AllApply(c, b, q, kept, other) /\ Finish(c, marked)
    <2>1. pick' = None
      BY <1>5 DEF AllApply
    <2> QED BY <1>1, <1>2, <1>5, <2>1, FinishEnds
  <1> QED BY <1>3, <1>4, <1>5 DEF PickAndFinish

-----------------------------------------------------------------------------
(* Types *)

Typed == TypeOK /\ LoadedOK

\* The values a command leaves behind are sane if those of the branch it
\* worked on are.
LEMMA EndIsTyped ==
  ASSUME TypeOK, Stays, NEW c \in Ids, NEW marked \in Ids \union {Main, Detached, None},
         Ends(c, marked), UNCHANGED published, moves' = moves,
         branch' \in [Ids -> Branches \union {None}], branch'[c] # None,
         pick' \in OnMain \union {None}, todo' \in Seq(OnMain),
         tree' \in {"clean", "conflict", "dirty"}, tree' = "conflict" => pick' # None,
         pick' # None => head' = c
  PROVE  TypeOK'
  <1>1. file' \in Files /\ remote' \subseteq origin' /\ origin' \subseteq Ids
        /\ moves' \in 0..MaxMoves
    BY DEF TypeOK, Stays, published
  <1>2. head' \in {Main, Detached} \union {d \in Ids : branch'[d] # None}
    BY DEF Ends
  <1>3. marker' \in [Ids -> Ids \union {Main, Detached, None}]
    BY DEF TypeOK, Ends, Marks
  <1>4. said' \in [chunk : Ids \union {None},
                  result : Well \union {"nothing", "error", "stopped", "killed"}]
    <2>1. said' \in [chunk : {c},
                    result : {"stopped", "killed", "error", "done", "warned"}]
      BY DEF Ends
    <2> QED BY <2>1 DEF Well
  <1>5. kills' \in 0..MaxKills
    BY BoundsAssumption DEF TypeOK, Ends
  <1>6. pick' # None => head' \in Ids
    OBVIOUS
  <1> QED BY <1>1, <1>2, <1>3, <1>4, <1>5, <1>6 DEF TypeOK

\* Nothing but the kills and what is said changes.
LEMMA FailsTyped ==
  ASSUME TypeOK, Stays, NEW c \in Ids, NEW r \in {"error", "stopped"}, Lives(c, r),
         UNCHANGED <<git, marker>>, UNCHANGED published, moves' = moves
  PROVE  TypeOK'
  <1>1. said' \in [chunk : Ids \union {None},
                  result : Well \union {"nothing", "error", "stopped", "killed"}]
    BY DEF Lives, Says
  <1>2. kills' \in 0..MaxKills
    BY DEF Lives, TypeOK
  <1> QED BY <1>1, <1>2 DEF TypeOK, git, published, Stays

\* The commits of a branch and of what it stands on.
LEMMA BaseTyped ==
  ASSUME Typed, NEW c \in Ids, Known(c), HasBase(c)
  PROVE  Base(c) \in Seq(OnMain)
  <1>1. ParentOf(Chunk(c)) \in Ids \union {Root}
    BY KnownChunk DEF Typed, TypeOK
  <1>2. CASE ParentOf(Chunk(c)) = Root
    BY <1>2, EmptySeq DEF Base
  <1>3. CASE ParentOf(Chunk(c)) # Root
    <2> DEFINE b == branch[ParentOf(Chunk(c))]
    <2>1. b \in Branches
      BY <1>1, <1>3 DEF HasBase, Typed, TypeOK
    <2>2. b.base \in Seq(OnMain) /\ b.own \in Seq(OnMain)
      BY <2>1 DEF Branches
    <2>3. b.base \o b.own \in Seq(OnMain)
      BY <2>2, ConcatProperties
    <2> QED BY <1>3, <2>3 DEF Base, Content
  <1> QED BY <1>2, <1>3

New(c) == [base |-> Base(c), own |-> <<>>]

LEMMA NewTyped ==
  ASSUME Typed, NEW c \in Ids, Known(c), HasBase(c)
  PROVE  New(c) \in Branches /\ New(c).own = <<>> /\ New(c) # None
  <1>1. New(c) \in Branches
    BY BaseTyped, EmptySeq DEF New, Branches
  <1> QED BY <1>1, NamesAssumption DEF New

LEMMA LeftTyped ==
  TypeOK => Left \in Seq(OnMain) /\ (Left = <<>> \/ Left = todo)
  BY EmptySeq DEF TypeOK, Left

LEMMA RestTyped ==
  TypeOK => Rest \in Seq(OnMain) /\ (todo = <<>> => Rest = <<>>)
                                 /\ (todo # <<>> => Rest = Tail(todo))
  BY EmptySeq, HeadTailProperties DEF TypeOK, Rest

-----------------------------------------------------------------------------
(* The two commands *)

\* A chunk whose branch is checked out has one.
LEMMA HeadHasBranch ==
  ASSUME TypeOK, NEW c \in Ids, head = c
  PROVE  branch[c] # None /\ branch[c] \in Branches
  <1>1. c \notin {Main, Detached}
    BY NamesAssumption
  <1> QED BY <1>1 DEF TypeOK

\* Seeding a chunk makes its branch, and then either ends there or picks.
Made(c) ==
    /\ branch' = [branch EXCEPT ![c] = New(c)] /\ owner' = owner
    /\ pick' = None /\ todo' = Left /\ tree' = "clean" /\ head' = c
    /\ \E marked \in {marker[c], None, head} :
          Ends(c, marked) /\ (marked = head \/ Strays(c))
    /\ said'.result \notin Well

PicksFirst(c) ==
    /\ owner' = IF Len(Commits(c)) > 1 THEN c ELSE owner
    /\ Len(Commits(c)) > 1 => Left = <<>>
    /\ Picks(c, New(c), Commits(c), Len(Commits(c)) > 1, Left)
    /\ pick' # None => head' = c
    /\ Ends(c, head)

LEMMA StartsDoes ==
  ASSUME Typed, NEW c \in Ids, MayStart(c), Starts(c)
  PROVE  Made(c) \/ PicksFirst(c)
  <1> DEFINE q    == Chunk(c).commits
             new  == [base |-> Base(c), own |-> <<>>]
             kept == Len(q) > 1
  <1>0. Known(c) /\ HasBase(c) /\ new = New(c) /\ q = Commits(c)
    BY DEF MayStart, New, Commits
  <1>1. CASE Makes(c) /\ Killed(c) /\ owner' = owner
             /\ \/ Marks(c, head) /\ UnderWay(c)
                \/ (\E place \in {marker[c], None} : Marks(c, place)) /\ Strays(c)
    <2>1. PICK marked \in {marker[c], None, head} :
             Marks(c, marked) /\ ((marked = head /\ UnderWay(c)) \/ Strays(c))
      BY <1>1
    <2>2. Ends(c, marked)
      BY <1>1, <2>1, StopEnds DEF Makes
    <2>3. said'.result \notin Well
      BY <1>1 DEF Killed, Says, Well
    <2> QED BY <1>0, <1>1, <2>1, <2>2, <2>3 DEF Made, Makes
  <1>2. CASE /\ Makes(c) /\ owner' = owner
             /\ Marks(c, head) /\ UnderWay(c) /\ Lives(c, "stopped")
    <2>1. Ends(c, head)
      BY <1>2, StopEnds DEF Makes
    <2>2. said'.result \notin Well
      BY <1>2 DEF Lives, Says, Well
    <2> QED BY <1>0, <1>2, <2>1, <2>2 DEF Made, Makes
  <1>3. CASE /\ ~kept \/ Left = <<>>
             /\ owner' = IF kept THEN c ELSE owner
             /\ PickAndFinish(c, new, q, kept, Left, head)
    <2>1. New(c) \in Branches /\ Left \in Seq(OnMain) /\ kept \in BOOLEAN
          /\ branch \in [Ids -> Branches \union {None}]
      BY <1>0, NewTyped, LeftTyped DEF Typed, TypeOK
    <2>2. Commits(c) \in Seq(OnMain)
      BY <1>0, KnownChunk DEF Typed, TypeOK
    <2>3. PickAndFinish(c, New(c), Commits(c), kept, Left, head)
      BY <1>0, <1>3
    <2> HIDE DEF kept
    <2>4. /\ Picks(c, New(c), Commits(c), kept, Left)
          /\ pick' # None => head' = c
          /\ Ends(c, head)
      BY <2>1, <2>2, <2>3, PickAndFinishDoes, Zenon
    <2>5. kept = (Len(Commits(c)) > 1)
      BY <1>0 DEF kept
    <2> QED BY <1>3, <2>4, <2>5 DEF PicksFirst
  <1> QED BY <1>1, <1>2, <1>3 DEF Starts

\* --continue commits what git stopped at and goes on with the queue; with
\* nothing to go on with it ends, and over a conflict it stops again.
First(c) == Grown(branch[c], <<pick>>, IF pick = None THEN 0 ELSE 1)

GoesOn(c) ==
    /\ Picks(c, First(c), Rest, TRUE, <<>>)
    /\ pick' # None => head' = c
    /\ Mixes(c) /\ owner' = owner
    /\ Ends(c, marker[c])

LEMMA FirstTyped ==
  ASSUME TypeOK, NEW c \in Ids, branch[c] \in Branches
  PROVE  /\ First(c) \in Branches /\ First(c).base = branch[c].base
         /\ pick = None => First(c) = branch[c]
         /\ pick # None => First(c).own = branch[c].own \o <<pick>>
  <1>1. CASE pick = None
    BY <1>1, FirstIs DEF First
  <1>2. CASE pick # None
    <2>1. pick \in OnMain
      BY <1>2 DEF TypeOK
    <2>2. First(c) = Grown(branch[c], <<pick>>, 1)
      BY <1>2 DEF First
    <2>3. /\ Grown(branch[c], <<pick>>, 1) \in Branches
          /\ Grown(branch[c], <<pick>>, 1).base = branch[c].base
          /\ Grown(branch[c], <<pick>>, 1).own = branch[c].own \o <<pick>>
      BY <2>1, FirstIs
    <2> QED BY <1>2, <2>2, <2>3
  <1> QED BY <1>1, <1>2

LEMMA ContinueDoes ==
  ASSUME TypeOK, NEW c \in Ids, head = c, Known(c), HasBase(c), Continue(c)
  PROVE  \/ /\ ~InProgress /\ UNCHANGED <<branch, pick, todo, tree, owner, mixed>>
            /\ Ends(c, marker[c])
         \/ /\ UNCHANGED <<git, marker, observed>>
            /\ Lives(c, "stopped")
         \/ GoesOn(c)
  <1>0. branch[c] # None /\ branch[c] \in Branches
    BY HeadHasBranch
  <1>1. CASE ~InProgress /\ UNCHANGED <<branch, pick, todo, tree, owner, mixed>>
             /\ Finish(c, marker[c])
    BY <1>0, <1>1, FinishEnds
  <1>2. CASE InProgress /\ Refuses /\ UNCHANGED <<git, marker, observed>>
             /\ Lives(c, "stopped")
    BY <1>2
  <1>3. CASE /\ PickAndFinish(c, First(c), Rest, TRUE, <<>>, marker[c])
             /\ Mixes(c) /\ UNCHANGED owner
    <2>1. First(c) \in Branches /\ Rest \in Seq(OnMain) /\ <<>> \in Seq(OnMain)
          /\ TRUE \in BOOLEAN
          /\ branch \in [Ids -> Branches \union {None}]
      BY <1>0, FirstTyped, RestTyped, EmptySeq DEF TypeOK
    <2>2. /\ Picks(c, First(c), Rest, TRUE, <<>>)
          /\ pick' # None => head' = c
          /\ Ends(c, marker[c])
      BY <1>3, <2>1, PickAndFinishDoes, Zenon
    <2> QED BY <1>3, <2>2 DEF GoesOn
  <1> QED BY <1>1, <1>2, <1>3 DEF Continue, First

\* Seeding leaves sane values behind.
LEMMA SeedTyped ==
  ASSUME Typed, Stays, NEW c \in Ids, Seed(c), UNCHANGED published, moves' = moves
  PROVE  TypeOK'
  <1>0. TypeOK /\ branch \in [Ids -> Branches \union {None}]
    BY DEF Typed, TypeOK
  <1>1. CASE ~MayStart(c)
    <2>1. Lives(c, "error") /\ UNCHANGED <<git, marker>>
      BY <1>1 DEF Seed, Fails
    <2> QED BY <1>0, <2>1, FailsTyped
  <1>2. CASE MayStart(c)
    <2>0. Known(c) /\ HasBase(c) /\ Starts(c)
      BY <1>2 DEF MayStart, Seed
    <2>1. New(c) \in Branches /\ New(c) # None
      BY <2>0, NewTyped
    <2>2. Left \in Seq(OnMain) /\ head \in Ids \union {Main, Detached, None}
          /\ marker[c] \in Ids \union {Main, Detached, None}
      BY <1>0, LeftTyped DEF TypeOK
    <2>3. CASE Made(c)
      <3>1. branch' \in [Ids -> Branches \union {None}] /\ branch'[c] # None
        BY <1>0, <2>1, <2>3 DEF Made
      <3>2. /\ pick' \in OnMain \union {None} /\ todo' \in Seq(OnMain)
            /\ tree' \in {"clean", "conflict", "dirty"}
            /\ tree' = "conflict" => pick' # None
            /\ pick' # None => head' = c
        BY <2>2, <2>3 DEF Made
      <3>3. PICK marked \in {marker[c], None, head} : Ends(c, marked)
        BY <2>3 DEF Made
      <3>4. marked \in Ids \union {Main, Detached, None}
        BY <2>2
      <3> QED BY <1>0, <3>1, <3>2, <3>3, <3>4, EndIsTyped
    <2>4. CASE PicksFirst(c)
      <3>1. Commits(c) \in Seq(OnMain)
        BY <1>0, <2>0, KnownChunk DEF TypeOK, Typed
      <3> DEFINE kept == Len(Commits(c)) > 1
      <3>2. kept \in BOOLEAN /\ Picks(c, New(c), Commits(c), kept, Left)
        BY <2>4 DEF PicksFirst
      <3> HIDE DEF kept
      <3>3. /\ branch' \in [Ids -> Branches \union {None}]
            /\ branch'[c] # None /\ \A d \in Ids \ {c} : branch'[d] = branch[d]
            /\ branch'[c].base = New(c).base
            /\ \E k \in 0..Len(Commits(c)) :
                  branch'[c].own = New(c).own \o SubSeq(Commits(c), 1, k)
            /\ pick' \in OnMain \union {None} /\ todo' \in Seq(OnMain)
            /\ tree' \in {"clean", "conflict"} /\ (tree' = "conflict" => pick' # None)
        BY <1>0, <2>1, <2>2, <3>1, <3>2, PicksTyped, Zenon
      <3>4. (pick' # None => head' = c) /\ Ends(c, head)
        BY <2>4 DEF PicksFirst
      <3>5. tree' \in {"clean", "conflict", "dirty"}
        BY <3>3
      <3> QED BY <1>0, <2>2, <3>3, <3>4, <3>5, EndIsTyped
    <2> QED BY <1>2, <2>0, <2>3, <2>4, StartsDoes
  <1> QED BY <1>1, <1>2

\* So does continuing.
LEMMA ContinueTyped ==
  ASSUME Typed, Stays, NEW c \in Ids, Continue(c), UNCHANGED published, moves' = moves
  PROVE  TypeOK'
  <1>0. TypeOK /\ branch \in [Ids -> Branches \union {None}]
        /\ marker[c] \in Ids \union {Main, Detached, None}
    BY DEF Typed, TypeOK
  <1>1. CASE ~(Known(c) /\ HasBase(c) /\ head = c)
    <2>1. Lives(c, "error") /\ UNCHANGED <<git, marker>>
      BY <1>1 DEF Continue, Fails
    <2> QED BY <1>0, <2>1, FailsTyped
  <1>2. CASE Known(c) /\ HasBase(c) /\ head = c
    <2>0. branch[c] # None /\ branch[c] \in Branches
      BY <1>0, <1>2, HeadHasBranch
    <2>1. CASE /\ ~InProgress /\ UNCHANGED <<branch, pick, todo, tree, owner, mixed>>
               /\ Ends(c, marker[c])
      <3>1. /\ branch' \in [Ids -> Branches \union {None}] /\ branch'[c] # None
            /\ pick' \in OnMain \union {None} /\ todo' \in Seq(OnMain)
            /\ tree' \in {"clean", "conflict", "dirty"}
            /\ tree' = "conflict" => pick' # None
            /\ pick' # None => head' = c
        BY <1>0, <2>0, <2>1 DEF TypeOK, InProgress
      <3> QED BY <1>0, <2>1, <3>1, EndIsTyped
    <2>2. CASE UNCHANGED <<git, marker, observed>> /\ Lives(c, "stopped")
      BY <1>0, <2>2, FailsTyped
    <2>3. CASE GoesOn(c)
      <3>1. First(c) \in Branches /\ Rest \in Seq(OnMain) /\ <<>> \in Seq(OnMain)
            /\ TRUE \in BOOLEAN
        BY <1>0, <2>0, FirstTyped, RestTyped, EmptySeq
      <3>2. Picks(c, First(c), Rest, TRUE, <<>>)
        BY <2>3 DEF GoesOn
      <3>3. /\ branch' \in [Ids -> Branches \union {None}]
            /\ branch'[c] # None /\ \A d \in Ids \ {c} : branch'[d] = branch[d]
            /\ branch'[c].base = First(c).base
            /\ \E k \in 0..Len(Rest) : branch'[c].own = First(c).own \o SubSeq(Rest, 1, k)
            /\ pick' \in OnMain \union {None} /\ todo' \in Seq(OnMain)
            /\ tree' \in {"clean", "conflict"} /\ (tree' = "conflict" => pick' # None)
        BY <1>0, <3>1, <3>2, PicksTyped, Zenon
      <3>4. (pick' # None => head' = c) /\ Ends(c, marker[c])
        BY <2>3 DEF GoesOn
      <3>5. tree' \in {"clean", "conflict", "dirty"}
        BY <3>3
      <3> QED BY <1>0, <3>3, <3>4, <3>5, EndIsTyped
    <2> QED BY <1>0, <1>2, <2>1, <2>2, <2>3, ContinueDoes
  <1> QED BY <1>1, <1>2

\* And so does what the human does.
LEMMA HandTyped ==
  ASSUME TypeOK, Hand,
         branch' \in [Ids -> Branches \union {None}],
         remote' \subseteq origin', origin' \subseteq Ids,
         head' \in {Main, Detached} \union {d \in Ids : branch'[d] # None},
         pick' \in OnMain \union {None}, todo' \in Seq(OnMain),
         tree' \in {"clean", "conflict", "dirty"},
         tree' = "conflict" => pick' # None, pick' # None => head' \in Ids,
         moves' \in 0..MaxMoves
  PROVE  TypeOK'
  <1>1. said' \in [chunk : Ids \union {None},
                  result : Well \union {"nothing", "error", "stopped", "killed"}]
    BY DEF Hand, Silent
  <1> QED BY <1>1 DEF TypeOK, Hand

\* git cherry-pick --skip goes on with the queue, without what git stopped at.
Skips(c) ==
    /\ pick # None /\ head = c /\ head' = c
    /\ Picks(c, branch[c], Rest, TRUE, <<>>)
    /\ Mixes(c) /\ owner' = owner

LEMMA SkipDoes ==
  ASSUME TypeOK, Skip
  PROVE  head \in Ids /\ Skips(head)
  <1>1. Rest \in Seq(OnMain) /\ TRUE \in BOOLEAN /\ head \in Ids /\ pick # None
    BY RestTyped DEF Skip
  <1>2. Picks(head, branch[head], Rest, TRUE, <<>>)
    BY <1>1, PicksGo DEF Skip
  <1> QED BY <1>1, <1>2 DEF Skip, Skips, Hand

LEMMA HumanTyped ==
  ASSUME TypeOK, Resolve \/ Skip \/ Tidy \/ Move
  PROVE  TypeOK'
  <1>0. /\ branch \in [Ids -> Branches \union {None}]
        /\ remote \subseteq origin /\ origin \subseteq Ids
        /\ head \in {Main, Detached} \union {d \in Ids : branch[d] # None}
        /\ pick \in OnMain \union {None} /\ todo \in Seq(OnMain)
        /\ tree \in {"clean", "conflict", "dirty"}
        /\ (tree = "conflict" => pick # None) /\ (pick # None => head \in Ids)
        /\ moves \in 0..MaxMoves
    BY DEF TypeOK
  <1>1. CASE Resolve
    BY <1>0, <1>1, HandTyped DEF Resolve, published
  <1>2. CASE Skip
    <2>1. head \in Ids /\ Skips(head) /\ Hand /\ UNCHANGED published /\ moves' = moves
      BY <1>2, SkipDoes DEF Skip
    <2>2. branch[head] \in Branches /\ Rest \in Seq(OnMain) /\ <<>> \in Seq(OnMain)
          /\ TRUE \in BOOLEAN
      BY <2>1, HeadHasBranch, RestTyped, EmptySeq
    <2>3. Picks(head, branch[head], Rest, TRUE, <<>>) /\ head' = head
      BY <2>1 DEF Skips
    <2>4. /\ branch' \in [Ids -> Branches \union {None}]
          /\ branch'[head] # None /\ \A d \in Ids \ {head} : branch'[d] = branch[d]
          /\ branch'[head].base = branch[head].base
          /\ \E k \in 0..Len(Rest) :
                branch'[head].own = branch[head].own \o SubSeq(Rest, 1, k)
          /\ pick' \in OnMain \union {None} /\ todo' \in Seq(OnMain)
          /\ tree' \in {"clean", "conflict"} /\ (tree' = "conflict" => pick' # None)
      BY <1>0, <2>1, <2>2, <2>3, PicksTyped, Zenon
    <2>5. head' \in {Main, Detached} \union {d \in Ids : branch'[d] # None}
          /\ head' \in Ids /\ tree' \in {"clean", "conflict", "dirty"}
          /\ remote' \subseteq origin' /\ origin' \subseteq Ids /\ moves' \in 0..MaxMoves
      BY <1>0, <2>1, <2>3, <2>4 DEF published
    <2> QED BY <2>1, <2>4, <2>5, HandTyped
  <1>3. CASE Tidy
    BY <1>0, <1>3, HandTyped DEF Tidy, published
  <1>4. CASE Move
    <2>0. Hand /\ moves' \in 0..MaxMoves
      BY <1>0, <1>4, BoundsAssumption DEF Move
    <2>1. CASE Commit
      <3>1. head \in Ids /\ pick # None /\ pick \in OnMain
        BY <1>0, <2>1 DEF Commit
      <3>2. branch[head] \in Branches
        BY <3>1, HeadHasBranch
      <3> DEFINE b == Grown(branch[head], <<pick>>, 1)
      <3>3. b \in Branches
        BY <3>1, <3>2, FirstIs
      <3>4. b # None
        BY <3>3, NamesAssumption
      <3>5. branch' = [branch EXCEPT ![head] = b]
        BY <2>1 DEF Commit
      <3> HIDE DEF b
      <3>6. branch' \in [Ids -> Branches \union {None}]
            /\ \A d \in Ids : branch[d] # None => branch'[d] # None
        BY <1>0, <3>1, <3>3, <3>4, <3>5
      <3>7. Left \in Seq(OnMain)
        BY LeftTyped
      <3> QED BY <1>0, <2>0, <2>1, <3>6, <3>7, HandTyped DEF Commit, published
    <2>2. CASE Abort
      <3>1. branch' \in [Ids -> Branches \union {None}]
            /\ \A d \in Ids : branch[d] # None => branch'[d] # None
        <4>1. CASE branch' = branch
          BY <1>0, <4>1
        <4>2. CASE head \in Ids /\ branch' = [branch EXCEPT ![head].own = <<>>]
          <5>1. branch[head] \in Branches
            BY <4>2, HeadHasBranch
          <5> DEFINE b == [branch[head] EXCEPT !.own = <<>>]
          <5>2. b \in Branches
            BY <5>1, EmptySeq DEF Branches
          <5>3. b # None
            BY <5>2, NamesAssumption
          <5>4. branch' = [branch EXCEPT ![head] = b]
            BY <4>2
          <5> HIDE DEF b
          <5> QED BY <1>0, <4>2, <5>2, <5>3, <5>4
        <4> QED BY <2>2, <4>1, <4>2 DEF Abort
      <3>2. todo' \in Seq(OnMain)
        BY <2>2, EmptySeq DEF Abort
      <3> QED BY <1>0, <2>0, <2>2, <3>1, <3>2, HandTyped DEF Abort, published
    <2>3. CASE Checkout
      <3>1. Left \in Seq(OnMain)
        BY LeftTyped
      <3> QED BY <1>0, <2>0, <2>3, <3>1, HandTyped DEF Checkout, published
    <2>4. CASE Delete
      <3>1. PICK c \in Ids \ {head} : branch' = [branch EXCEPT ![c] = None]
        BY <2>4 DEF Delete
      <3>2. branch' \in [Ids -> Branches \union {None}]
            /\ \A d \in Ids \ {c} : branch'[d] = branch[d]
        BY <1>0, <3>1
      <3>3. UNCHANGED <<published, head, pick, todo, tree>>
        BY <2>4 DEF Delete
      <3>4. head' \in {Main, Detached} \union {d \in Ids : branch'[d] # None}
        BY <1>0, <3>1, <3>2, <3>3
      <3> QED BY <1>0, <2>0, <3>2, <3>3, <3>4, HandTyped DEF published
    <2>5. CASE Publish \/ Fetch
      <3>1. remote' \subseteq origin' /\ origin' \subseteq Ids /\ UNCHANGED git
        BY <1>0, <2>5 DEF Publish, Fetch
      <3> QED BY <1>0, <2>0, <3>1, HandTyped DEF git
    <2>6. CASE Edit
      BY <1>0, <2>0, <2>6, HandTyped DEF Edit, published
    <2> QED BY <1>4, <2>1, <2>2, <2>3, <2>4, <2>5, <2>6 DEF Move
  <1> QED BY <1>1, <1>2, <1>3, <1>4

LEMMA InitTyped == Init => Typed
  <1> SUFFICES ASSUME Init PROVE Typed
    OBVIOUS
  <1>1. branch \in [Ids -> Branches \union {None}] /\ todo \in Seq(OnMain)
        /\ marker \in [Ids -> Ids \union {Main, Detached, None}]
    BY EmptySeq DEF Init
  <1>2. said \in [chunk : Ids \union {None},
                 result : Well \union {"nothing", "error", "stopped", "killed"}]
    BY DEF Init, Silent
  <1>3. moves \in 0..MaxMoves /\ kills \in 0..MaxKills
    BY BoundsAssumption DEF Init
  <1> QED BY <1>1, <1>2, <1>3 DEF Init, Typed, TypeOK, LoadedOK

LEMMA NextTyped == Typed /\ [Next]_vars => Typed'
  <1> SUFFICES ASSUME Typed, [Next]_vars PROVE Typed'
    OBVIOUS
  <1>1. CASE UNCHANGED vars
    BY <1>1 DEF vars, Typed, TypeOK, LoadedOK
  <1>2. CASE Next
    <2>0. Stays /\ LoadedOK' /\ TypeOK
      BY <1>2, NextStays, SameChunks DEF Typed
    <2>1. CASE Command
      BY <2>0, <2>1, SeedTyped, ContinueTyped DEF Command, Typed
    <2>2. CASE Resolve \/ Skip \/ Tidy \/ Move
      BY <2>0, <2>2, HumanTyped DEF Typed
    <2> QED BY <1>2, <2>1, <2>2 DEF Next
  <1> QED BY <1>1, <1>2

\* Every variable has its type; what is checked out exists; a conflict is one
\* of a pick, which stands on a chunk's branch.
THEOREM TypeCorrect == Spec => []TypeOK
  <1>1. Spec => []Typed
    BY InitTyped, NextTyped, PTL DEF Spec
  <1>2. Typed => TypeOK
    BY DEF Typed
  <1> QED BY <1>1, <1>2, PTL

LEMMA TypedLoads == Typed => LoadIsRight /\ ChildrenAreBelow
  <1> SUFFICES ASSUME Typed PROVE LoadIsRight /\ ChildrenAreBelow
    OBVIOUS
  <1>1. Shaped(file) /\ loaded = Load(file)
    BY FilesAssumption DEF Typed, TypeOK, LoadedOK
  <1>2. LoadIsRight
    BY <1>1, LoadedIsSound, SoundIsLoaded, LoadedInOrder DEF LoadIsRight
  <1>3. ChildrenAreBelow
    BY <1>1, ChildrenAre DEF ChildrenAreBelow
  <1> QED BY <1>2, <1>3

\* For every manifest, of any number of chunks: load() refuses exactly those
\* that are not sound, and orders the others so that a chunk comes after all
\* that it stands on.
THEOREM LoadsWhatIsSound == Spec => []LoadIsRight
  BY InitTyped, NextTyped, TypedLoads, PTL DEF Spec

\* For every manifest, children() of a chunk are exactly the chunks that stand
\* on it, through any number of others, in their order.
THEOREM ChildrenAreExact == Spec => []ChildrenAreBelow
  BY InitTyped, NextTyped, TypedLoads, PTL DEF Spec

-----------------------------------------------------------------------------
(* Every branch holds its chunk's commits in order: the two commands *)

\* The manifest's list is its own end.
LEMMA AllIsEnd ==
  ASSUME NEW t \in Seq(OnMain)
  PROVE  EndOf(t, t) /\ Before(t, t) = 0
  <1>1. Len(t) \in Nat
    BY LenProperties
  <1> QED BY <1>1 DEF EndOf, Before

\* A branch that was made holds nothing yet.
LEMMA MadeFits ==
  ASSUME Typed, PicksOK, NEW c \in Ids, MayStart(c), Made(c), mixed' = mixed \ {c}
  PROVE  Fits(branch', pick', todo', head', owner', mixed')
  <1>0. Known(c) /\ branch \in [Ids -> Branches \union {None}]
    BY DEF MayStart, Typed, TypeOK
  <1>1. New(c).own = <<>> /\ pick' = None
    BY DEF New, Made
  <1>2. branch'[c].own = <<>> /\ \A d \in Ids \ {c} : branch'[d] = branch[d]
    BY <1>0, <1>1 DEF Made
  <1>3. OwnOK(branch', mixed')
    <2>1. OwnOK(branch, mixed)
      BY DEF PicksOK, Fits
    <2>2. Upto(branch'[c].own, Commits(c), Len(Commits(c)))
      BY <1>2, UptoOfNothing
    <2> QED BY <1>0, <1>2, <2>1, <2>2 DEF OwnOK
  <1>4. QueueOK(todo', owner', branch', mixed')
    <2> SUFFICES ASSUME todo' # <<>> PROVE QueueOf(todo', owner', branch', mixed')
      BY DEF QueueOK
    <2>1. todo' = todo /\ todo # <<>> /\ owner' = owner
      BY LeftTyped DEF Made, Typed
    <2>2. QueueOf(todo, owner, branch, mixed)
      BY <2>1 DEF PicksOK, Fits, QueueOK
    <2>3. owner \in Ids \ mixed'
      BY <2>2 DEF QueueOf
    <2>4. CASE owner = c
      <3>1. Upto(branch'[owner].own, Commits(owner), Before(todo, Commits(owner)) + 1)
        BY <1>2, <2>4, UptoOfNothing
      <3> QED BY <2>1, <2>2, <2>3, <3>1 DEF QueueOf
    <2>5. CASE owner # c
      <3>1. branch'[owner] = branch[owner]
        BY <1>2, <2>3, <2>5
      <3> QED BY <2>1, <2>2, <2>3, <3>1 DEF QueueOf
    <2> QED BY <2>4, <2>5
  <1>5. PickOK(pick', todo', owner', branch', mixed', head')
    BY <1>1 DEF PickOK
  <1> QED BY <1>3, <1>4, <1>5 DEF Fits

\* The first picks of several commits become the queue; those of a single one
\* leave another chunk's alone.
LEMMA PicksFirstFits ==
  ASSUME Typed, PicksOK, NEW c \in Ids, MayStart(c), PicksFirst(c), mixed' = mixed \ {c}
  PROVE  Fits(branch', pick', todo', head', owner', mixed')
  <1> DEFINE t == Commits(c)
  <1>0. /\ Known(c) /\ HasBase(c) /\ branch \in [Ids -> Branches \union {None}]
        /\ OwnOK(branch, mixed) /\ QueueOK(todo, owner, branch, mixed)
    BY DEF MayStart, Typed, TypeOK, PicksOK, Fits
  <1>1. t \in Seq(OnMain) /\ Len(t) \in Nat
    BY <1>0, KnownChunk, LenProperties DEF Typed, TypeOK
  <1>2. New(c) \in Branches /\ New(c).own = <<>> /\ Left \in Seq(OnMain)
    BY <1>0, NewTyped, LeftTyped DEF Typed
  <1>3. EndOf(t, t) /\ Before(t, t) = 0 /\ Upto(New(c).own, t, Before(t, t))
    BY <1>1, <1>2, AllIsEnd, UptoOfNothing
  <1>4. CASE Len(t) > 1
    <2>1. /\ Picks(c, New(c), t, TRUE, Left) /\ owner' = c /\ (pick' # None => head' = c)
          /\ c \notin mixed' /\ mixed \ {c} \subseteq mixed'
      <3>1. (Len(t) > 1) = TRUE
        BY <1>4
      <3> QED BY <1>4, <3>1 DEF PicksFirst
    <2> QED BY <1>0, <1>1, <1>2, <1>3, <1>4, <2>1, OwnQueueGoesOn
  <1>5. CASE ~(Len(t) > 1)
    <2>1. Picks(c, New(c), t, FALSE, Left) /\ owner' = owner /\ (pick' # None => head' = c)
      <3>1. (Len(t) > 1) = FALSE
        BY <1>5
      <3> QED BY <1>5, <3>1 DEF PicksFirst
    <2>2. PICK k \in 0..Len(t), j \in 1..(Len(t) + 1) :
          /\ branch' = [branch EXCEPT ![c] = Grown(New(c), t, k)]
          /\ todo' = Left
          /\ pick' # None => k < Len(t) /\ pick' = t[k + 1]
      BY <2>1 DEF Picks
    <2>3. branch'[c] = Grown(New(c), t, k) /\ \A d \in Ids \ {c} : branch'[d] = branch[d]
      BY <1>0, <2>2
    <2>4. /\ Upto(Grown(New(c), t, k).own, t, Before(t, t) + k)
          /\ Upto(Grown(New(c), t, k).own, t, Len(t))
      BY <1>1, <1>2, <1>3, PickedFromEnd
    <2>5. Upto(branch'[c].own, t, k) /\ Upto(branch'[c].own, t, Len(t))
      BY <1>3, <2>3, <2>4
    <2>6. todo' # <<>> => todo' = todo /\ todo # <<>> /\ QueueOf(todo, owner, branch, mixed)
      BY <1>0, <2>2, LeftTyped DEF Typed, QueueOK
    <2>7. todo' # <<>> => owner # c /\ owner \in Ids \ mixed'
      BY <1>5, <2>6 DEF QueueOf
    <2>8. OwnOK(branch', mixed')
      BY <1>0, <2>3, <2>5 DEF OwnOK
    <2>9. QueueOK(todo', owner', branch', mixed')
      <3> SUFFICES ASSUME todo' # <<>> PROVE QueueOf(todo', owner', branch', mixed')
        BY DEF QueueOK
      <3>1. branch'[owner] = branch[owner]
        BY <2>3, <2>7
      <3> QED BY <2>1, <2>6, <2>7, <3>1 DEF QueueOf
    <2>10. PickOK(pick', todo', owner', branch', mixed', head')
      <3> SUFFICES ASSUME pick' # None, head' \in Ids \ mixed'
                   PROVE  StoppedAt(pick', todo', owner', head', branch'[head'].own)
        BY DEF PickOK
      <3>1. head' = c /\ k < Len(t) /\ pick' = t[k + 1]
        BY <2>1, <2>2
      <3>2. k + 1 \in 1..Len(t) /\ (k + 1) - 1 = k
        BY <1>1, <3>1
      <3>3. pick' = t[k + 1] /\ Upto(branch'[c].own, t, (k + 1) - 1)
        BY <2>5, <3>1, <3>2
      <3>4. ~(todo' # <<>> /\ owner' = c)
        BY <2>1, <2>7
      <3> QED BY <3>1, <3>2, <3>3, <3>4 DEF StoppedAt
    <2> QED BY <2>8, <2>9, <2>10 DEF Fits
  <1> QED BY <1>4, <1>5

\* The queue goes on with the commits after those that branch b of c, which
\* is checked out, holds.
LEMMA QueueGoesOn ==
  ASSUME Typed, PicksOK, NEW c \in Ids, head = c, Known(c), NEW b \in Branches,
         c \notin mixed /\ todo = <<>> => Upto(b.own, Commits(c), Len(Commits(c))),
         todo # <<>> /\ owner = c
            => Upto(b.own, Commits(c), Before(todo, Commits(c)) + 1),
         Picks(c, b, Rest, TRUE, <<>>), Mixes(c), owner' = owner, pick' # None => head' = c
  PROVE  Fits(branch', pick', todo', head', owner', mixed')
  <1> DEFINE t == Commits(c)
  <1>0. /\ branch \in [Ids -> Branches \union {None}] /\ todo \in Seq(OnMain)
        /\ OwnOK(branch, mixed) /\ QueueOK(todo, owner, branch, mixed)
    BY DEF Typed, TypeOK, PicksOK, Fits
  <1>1. t \in Seq(OnMain) /\ Len(t) \in Nat
    BY KnownChunk, LenProperties DEF Typed, TypeOK
  <1>2. CASE todo = <<>>
    <2>1. Picks(c, b, <<>>, TRUE, <<>>) /\ mixed' = mixed
      BY <1>2, RestTyped DEF Typed, Mixes
    <2>2. c \notin mixed => Upto(b.own, Commits(c), Len(Commits(c)))
      BY <1>2
    <2> QED BY <1>0, <2>1, <2>2, NoQueueGoesOn
  <1>3. CASE todo # <<>> /\ owner # c
    <2>1. Picks(c, b, Tail(todo), TRUE, <<>>) /\ mixed' = mixed \union {c}
      BY <1>3, RestTyped DEF Typed, Mixes
    <2>2. Known(owner)
      BY <1>0, <1>3 DEF QueueOK, QueueOf
    <2>3. Commits(owner) \in Seq(OnMain)
      BY <2>2, KnownChunk DEF Typed, TypeOK
    <2> QED BY <1>0, <1>3, <2>1, <2>3, OtherQueueGoesOn
  <1>4. CASE todo # <<>> /\ owner = c
    <2>1. Picks(c, b, Tail(todo), TRUE, <<>>) /\ mixed' = mixed
      BY <1>4, RestTyped DEF Typed, Mixes
    <2>2. c \in Ids \ mixed /\ Len(t) > 1 /\ EndOf(todo, t)
      BY <1>0, <1>4 DEF QueueOK, QueueOf
    <2> DEFINE q == Tail(todo)
    <2>3. q = SubSeq(todo, 2, Len(todo)) /\ q \in Seq(OnMain)
      BY <1>0, <1>4, TailIsSubSeq, HeadTailProperties
    <2>4. 2 \in 1..(Len(todo) + 1)
      BY <1>0, <1>4, EmptySeq
    <2>5. /\ SubSeq(todo, 2, Len(todo)) \in Seq(OnMain)
          /\ EndOf(SubSeq(todo, 2, Len(todo)), t)
          /\ Before(SubSeq(todo, 2, Len(todo)), t) = Before(todo, t) + 2 - 1
          /\ Before(todo, t) \in Nat
      BY <1>0, <1>1, <2>2, <2>4, EndOfEnd
    <2> HIDE DEF q
    <2>6. EndOf(q, t) /\ Before(q, t) = Before(todo, t) + 1
      BY <2>3, <2>5
    <2>7. Upto(b.own, t, Before(q, t))
      BY <1>4, <2>6
    <2>8. /\ Picks(c, b, q, TRUE, <<>>) /\ c \notin mixed' /\ mixed \ {c} \subseteq mixed'
          /\ owner' = c /\ <<>> \in Seq(OnMain)
      BY <1>4, <2>1, <2>2, EmptySeq DEF q
    <2> QED BY <1>0, <1>1, <2>2, <2>3, <2>6, <2>7, <2>8, OwnQueueGoesOn
  <1> QED BY <1>2, <1>3, <1>4

\* What git stopped at follows what the branch holds.
LEMMA FirstHolds ==
  ASSUME Typed, PicksOK, NEW c \in Ids, head = c, Known(c)
  PROVE  /\ c \notin mixed => Upto(First(c).own, Commits(c), Len(Commits(c)))
         /\ todo # <<>> /\ owner = c
               => Upto(First(c).own, Commits(c), Before(todo, Commits(c)) + 1)
         /\ c \notin mixed => Upto(branch[c].own, Commits(c), Len(Commits(c)))
         /\ todo # <<>> /\ owner = c
               => Upto(branch[c].own, Commits(c), Before(todo, Commits(c)) + 1)
  <1> DEFINE t == Commits(c)
  <1>0. t \in Seq(OnMain) /\ branch[c] # None /\ branch[c] \in Branches
    BY KnownChunk, HeadHasBranch DEF Typed, TypeOK
  <1>1. c \notin mixed => Upto(branch[c].own, t, Len(t))
    BY <1>0 DEF PicksOK, Fits, OwnOK
  <1>2. todo # <<>> /\ owner = c =>
           c \notin mixed /\ Upto(branch[c].own, t, Before(todo, t) + 1)
    BY <1>0 DEF PicksOK, Fits, QueueOK, QueueOf
  <1>3. CASE pick = None
    <2>1. First(c) = branch[c]
      BY <1>0, <1>3, FirstTyped DEF Typed
    <2> QED BY <1>1, <1>2, <2>1
  <1>4. CASE pick # None
    <2>1. CASE c \in mixed
      BY <1>1, <1>2, <2>1
    <2>2. CASE c \notin mixed
      <3>1. PICK n \in 1..Len(t) :
               /\ pick = t[n] /\ Upto(branch[c].own, t, n - 1)
               /\ todo # <<>> /\ owner = c => n = Before(todo, t) + 1
        BY <1>4, <2>2 DEF PicksOK, Fits, PickOK, StoppedAt
      <3>2. First(c).own = branch[c].own \o <<pick>>
        BY <1>0, <1>4, FirstTyped DEF Typed
      <3>3. branch[c].own \in Seq(OnMain)
        BY <1>0 DEF Branches
      <3>4. Upto(branch[c].own \o <<t[n]>>, t, n) /\ Upto(branch[c].own \o <<t[n]>>, t, Len(t))
        BY <1>0, <3>1, <3>3, StoppedOn
      <3>5. Upto(First(c).own, t, n) /\ Upto(First(c).own, t, Len(t))
        BY <3>1, <3>2, <3>4
      <3> QED BY <1>1, <1>2, <3>1, <3>5
    <2> QED BY <2>1, <2>2
  <1> QED BY <1>3, <1>4

\* A step that leaves git and what is observed of it alone.
LEMMA SameFits ==
  ASSUME PicksOK, Stays, UNCHANGED <<git, owner, mixed>>
  PROVE  PicksOK'
  <1>1. Fits(branch', pick', todo', head', owner', mixed')
    BY DEF git, PicksOK
  <1> QED BY <1>1, FitsAfter

LEMMA SeedFits ==
  ASSUME Typed, PicksOK, Stays, NEW c \in Ids, Seed(c)
  PROVE  PicksOK'
  <1>1. CASE ~MayStart(c)
    BY <1>1, SameFits DEF Seed, Fails, observed
  <1>2. CASE MayStart(c)
    <2>1. Starts(c) /\ mixed' = mixed \ {c}
      BY <1>2 DEF Seed
    <2>2. Made(c) \/ PicksFirst(c)
      BY <1>2, <2>1, StartsDoes
    <2>3. Fits(branch', pick', todo', head', owner', mixed')
      BY <1>2, <2>1, <2>2, MadeFits, PicksFirstFits
    <2> QED BY <2>3, FitsAfter
  <1> QED BY <1>1, <1>2

LEMMA ContinueFits ==
  ASSUME Typed, PicksOK, Stays, NEW c \in Ids, Continue(c)
  PROVE  PicksOK'
  <1>1. CASE ~(Known(c) /\ HasBase(c) /\ head = c)
    BY <1>1, SameFits DEF Continue, Fails, observed
  <1>2. CASE Known(c) /\ HasBase(c) /\ head = c
    <2>0. TypeOK /\ branch[c] \in Branches
      BY <1>2, HeadHasBranch DEF Typed
    <2>1. CASE ~InProgress /\ UNCHANGED <<branch, pick, todo, tree, owner, mixed>>
      <3>1. pick' = None /\ Fits(branch, pick, todo, head, owner, mixed)
        BY <2>1 DEF InProgress, PicksOK
      <3>2. Fits(branch', pick', todo', head', owner', mixed')
        BY <2>1, <3>1 DEF Fits, PickOK
      <3> QED BY <3>2, FitsAfter
    <2>2. CASE UNCHANGED <<git, marker, observed>>
      BY <2>2, SameFits DEF observed
    <2>3. CASE GoesOn(c)
      <3>1. First(c) \in Branches
        BY <2>0, FirstTyped
      <3>2. /\ c \notin mixed /\ todo = <<>>
                 => Upto(First(c).own, Commits(c), Len(Commits(c)))
            /\ todo # <<>> /\ owner = c
                 => Upto(First(c).own, Commits(c), Before(todo, Commits(c)) + 1)
        BY <1>2, FirstHolds
      <3>3. /\ Picks(c, First(c), Rest, TRUE, <<>>) /\ Mixes(c) /\ owner' = owner
            /\ pick' # None => head' = c
        BY <2>3 DEF GoesOn
      <3>4. Fits(branch', pick', todo', head', owner', mixed')
        BY <1>2, <3>1, <3>2, <3>3, QueueGoesOn
      <3> QED BY <3>4, FitsAfter
    <2> QED BY <1>2, <2>0, <2>1, <2>2, <2>3, ContinueDoes
  <1> QED BY <1>1, <1>2

-----------------------------------------------------------------------------
(* ... and the human *)

LEMMA SkipFits ==
  ASSUME Typed, PicksOK, Stays, Skip
  PROVE  PicksOK'
  <1>1. head \in Ids /\ Skips(head)
    BY SkipDoes DEF Typed
  <1>2. branch[head] # None /\ branch[head] \in Branches /\ Known(head)
    <2>1. branch[head] # None /\ branch[head] \in Branches
      BY <1>1, HeadHasBranch DEF Typed
    <2> QED BY <1>1, <2>1 DEF PicksOK, Fits, OwnOK
  <1>3. /\ head \notin mixed /\ todo = <<>>
             => Upto(branch[head].own, Commits(head), Len(Commits(head)))
        /\ todo # <<>> /\ owner = head
             => Upto(branch[head].own, Commits(head), Before(todo, Commits(head)) + 1)
    BY <1>1, <1>2, FirstHolds
  <1>4. /\ Picks(head, branch[head], Rest, TRUE, <<>>) /\ Mixes(head) /\ owner' = owner
        /\ pick' # None => head' = head
    BY <1>1 DEF Skips
  <1>5. Fits(branch', pick', todo', head', owner', mixed')
    BY <1>1, <1>2, <1>3, <1>4, QueueGoesOn
  <1> QED BY <1>5, FitsAfter

\* A commit in place of --continue.
LEMMA CommitFits ==
  ASSUME Typed, PicksOK, Commit, owner' = owner, mixed' = mixed
  PROVE  Fits(branch', pick', todo', head', owner', mixed')
  <1>0. /\ head \in Ids /\ pick # None /\ pick' = None
        /\ branch \in [Ids -> Branches \union {None}]
        /\ branch' = [branch EXCEPT ![head] = First(head)]
    BY DEF Commit, First, Typed, TypeOK
  <1>1. Known(head)
    <2>1. branch[head] # None
      BY <1>0, HeadHasBranch DEF Typed
    <2> QED BY <1>0, <2>1 DEF PicksOK, Fits, OwnOK
  <1>2. /\ head \notin mixed => Upto(First(head).own, Commits(head), Len(Commits(head)))
        /\ todo # <<>> /\ owner = head
             => Upto(First(head).own, Commits(head), Before(todo, Commits(head)) + 1)
    BY <1>0, <1>1, FirstHolds
  <1>3. branch'[head] = First(head) /\ \A d \in Ids \ {head} : branch'[d] = branch[d]
    BY <1>0
  <1>4. OwnOK(branch', mixed')
    <2>1. OwnOK(branch, mixed)
      BY DEF PicksOK, Fits
    <2> QED BY <1>1, <1>2, <1>3, <2>1 DEF OwnOK
  <1>5. QueueOK(todo', owner', branch', mixed')
    <2> SUFFICES ASSUME todo' # <<>> PROVE QueueOf(todo', owner', branch', mixed')
      BY DEF QueueOK
    <2>1. todo' = todo /\ todo # <<>>
      BY LeftTyped DEF Commit, Typed
    <2>2. QueueOf(todo, owner, branch, mixed)
      BY <2>1 DEF PicksOK, Fits, QueueOK
    <2>3. CASE owner = head
      BY <1>2, <1>3, <2>1, <2>2, <2>3 DEF QueueOf
    <2>4. CASE owner # head
      <3>1. branch'[owner] = branch[owner]
        BY <1>3, <2>2, <2>4 DEF QueueOf
      <3> QED BY <2>1, <2>2, <3>1 DEF QueueOf
    <2> QED BY <2>3, <2>4
  <1> QED BY <1>0, <1>4, <1>5 DEF Fits, PickOK

\* Branches go, or lose what was picked; what git stopped at is dropped or
\* was on a branch that is still what it was; the queue stays or goes.
LEMMA LessFits ==
  ASSUME PicksOK, branch \in [Ids -> Branches \union {None}],
         owner' = owner, mixed' = mixed, todo' \in {<<>>, todo},
         \A d \in Ids : branch'[d] # None =>
             branch[d] # None /\ (branch'[d].own = <<>> \/ branch'[d] = branch[d]),
         \/ pick' = None
         \/ pick' = pick /\ todo' = todo /\ head' = head /\ branch'[head] = branch[head]
  PROVE  Fits(branch', pick', todo', head', owner', mixed')
  <1>1. OwnOK(branch', mixed')
    <2> SUFFICES ASSUME NEW d \in Ids, branch'[d] # None
                 PROVE  /\ Known(d)
                        /\ d \notin mixed => Upto(branch'[d].own, Commits(d), Len(Commits(d)))
      BY DEF OwnOK
    <2>1. /\ Known(d)
          /\ d \notin mixed => Upto(branch[d].own, Commits(d), Len(Commits(d)))
      BY DEF PicksOK, Fits, OwnOK
    <2>2. branch'[d].own = <<>> \/ branch'[d] = branch[d]
      OBVIOUS
    <2> QED BY <2>1, <2>2, UptoOfNothing
  <1>2. QueueOK(todo', owner', branch', mixed')
    <2> SUFFICES ASSUME todo' # <<>> PROVE QueueOf(todo', owner', branch', mixed')
      BY DEF QueueOK
    <2>1. todo' = todo /\ QueueOf(todo, owner, branch, mixed)
      BY DEF PicksOK, Fits, QueueOK
    <2>2. branch'[owner] # None =>
             Upto(branch'[owner].own, Commits(owner), Before(todo, Commits(owner)) + 1)
      <3>1. owner \in Ids
        BY <2>1 DEF QueueOf
      <3>2. branch'[owner] # None =>
               /\ branch[owner] # None
               /\ branch'[owner].own = <<>> \/ branch'[owner] = branch[owner]
        BY <3>1
      <3> QED BY <2>1, <3>2, UptoOfNothing DEF QueueOf
    <2> QED BY <2>1, <2>2 DEF QueueOf
  <1>3. PickOK(pick', todo', owner', branch', mixed', head')
    BY DEF PicksOK, Fits, PickOK
  <1> QED BY <1>1, <1>2, <1>3 DEF Fits

LEMMA MoveFits ==
  ASSUME Typed, PicksOK, Stays, Move
  PROVE  PicksOK'
  <1>0. /\ branch \in [Ids -> Branches \union {None}]
        /\ owner' = owner /\ mixed' = mixed
        /\ pick # None => head \in Ids
    BY DEF Typed, TypeOK, Move, Hand
  <1>1. CASE Commit
    BY <1>0, <1>1, CommitFits, FitsAfter
  <1>2. CASE Abort
    <2>1. \A d \in Ids : branch'[d] # None =>
             branch[d] # None /\ (branch'[d].own = <<>> \/ branch'[d] = branch[d])
      <3>1. CASE branch' = branch
        BY <3>1
      <3>2. CASE head \in Ids /\ branch' = [branch EXCEPT ![head].own = <<>>]
        <4>1. branch[head] # None /\ branch[head] \in Branches
          BY <3>2, HeadHasBranch DEF Typed
        <4> DEFINE b == [branch[head] EXCEPT !.own = <<>>]
        <4>2. b.own = <<>>
          BY <4>1 DEF Branches
        <4>3. branch' = [branch EXCEPT ![head] = b]
          BY <3>2
        <4> HIDE DEF b
        <4> QED BY <1>0, <3>2, <4>1, <4>2, <4>3
      <3> QED BY <1>2, <3>1, <3>2 DEF Abort
    <2>2. pick' = None /\ todo' \in {<<>>, todo}
      BY <1>2 DEF Abort
    <2>3. Fits(branch', pick', todo', head', owner', mixed')
      BY <1>0, <2>1, <2>2, LessFits
    <2> QED BY <2>3, FitsAfter
  <1>3. CASE Checkout
    <2>1. branch' = branch /\ pick' = None /\ todo' \in {<<>>, todo}
      BY <1>3, LeftTyped DEF Checkout, Typed
    <2>2. Fits(branch', pick', todo', head', owner', mixed')
      BY <1>0, <2>1, LessFits
    <2> QED BY <2>2, FitsAfter
  <1>4. CASE Delete
    <2>1. PICK c \in Ids \ {head} : branch' = [branch EXCEPT ![c] = None]
      BY <1>4 DEF Delete
    <2>2. \A d \in Ids : branch'[d] # None =>
             branch[d] # None /\ (branch'[d].own = <<>> \/ branch'[d] = branch[d])
      BY <1>0, <2>1
    <2>3. pick' = pick /\ todo' = todo /\ head' = head
      BY <1>4 DEF Delete
    <2>4. pick' = None \/ branch'[head] = branch[head]
      BY <1>0, <2>1, <2>3
    <2>5. Fits(branch', pick', todo', head', owner', mixed')
      BY <1>0, <2>2, <2>3, <2>4, LessFits
    <2> QED BY <2>5, FitsAfter
  <1>5. CASE Publish \/ Fetch \/ Edit
    <2>1. branch' = branch /\ pick' = pick /\ todo' = todo /\ head' = head
      BY <1>5 DEF Publish, Fetch, Edit, git
    <2>2. Fits(branch', pick', todo', head', owner', mixed')
      BY <1>0, <2>1, LessFits
    <2> QED BY <2>2, FitsAfter
  <1> QED BY <1>1, <1>2, <1>3, <1>4, <1>5 DEF Move

\* What an ended command said of the branch it worked on.
LEMMA DoneAfter ==
  ASSUME Stays, NEW c \in Ids, branch'[c] # None, NEW marked, Ends(c, marked)
  PROVE  DoneOK'
  <1>1. said'.result = "done" =>
           said'.chunk = c /\ Len(branch'[c].own) = Len(Commits(c))
    BY DEF Ends
  <1>2. Commits(c)' = Commits(c)
    BY SameChunks
  <1> QED BY <1>1, <1>2 DEF DoneOK

\* The marker is written with where the human was, kept, or taken away once
\* they are back.
LEMMA HomeAfter ==
  ASSUME HomeOK, NEW c \in Ids, NEW marked, Ends(c, marked),
         \/ branch[c] = None /\ marked = head
         \/ branch[c] # None /\ marked = marker[c]
         \/ Strays(c),
         marker \in [Ids -> Ids \union {Main, Detached, None}],
         head \in Ids \union {Main, Detached, None}
  PROVE  HomeOK'
  <1>0. home \in [Ids -> Ids \union {Main, Detached, None}]
        /\ \A d \in Ids \ astray : marker[d] = home[d]
    BY DEF HomeOK
  <1>1. /\ Since(c) \in [Ids -> Ids \union {Main, Detached, None}]
        /\ \A d \in Ids \ {c} : Since(c)[d] = home[d]
        /\ Since(c)[c] = IF branch[c] = None THEN head ELSE home[c]
    BY <1>0 DEF Since
  <1>2. CASE Marks(c, None) /\ Returns(c)
    BY <1>0, <1>2 DEF HomeOK, Marks, Returns
  <1>3. CASE (Marks(c, None) \/ Marks(c, marked)) /\ Strays(c)
    <2>1. home' = Since(c) /\ astray' = astray \union {c}
      BY <1>3 DEF Strays
    <2>2. \A d \in Ids \ {c} : marker'[d] = marker[d]
      BY <1>3 DEF Marks
    <2> QED BY <1>0, <1>1, <2>1, <2>2 DEF HomeOK
  <1>4. CASE Marks(c, marked) /\ UnderWay(c) /\ ~Strays(c)
    <2>1. home' = Since(c) /\ astray' = IF branch[c] = None THEN astray \ {c} ELSE astray
      BY <1>4 DEF UnderWay
    <2>2. marker'[c] = marked /\ \A d \in Ids \ {c} : marker'[d] = marker[d]
      BY <1>4 DEF Marks
    <2> QED BY <1>0, <1>1, <1>4, <2>1, <2>2 DEF HomeOK
  <1> QED BY <1>2, <1>3, <1>4 DEF Ends

\* A command that fails, or stops where it was, says no more than that.
LEMMA QuietAfter ==
  ASSUME HomeOK, UNCHANGED <<marker, observed>>, NEW c, NEW r \in {"error", "stopped"},
         Lives(c, r)
  PROVE  DoneOK' /\ HomeOK'
  <1>1. said'.result # "done" /\ astray' = astray /\ home' = home
    BY DEF Lives, Says, observed
  <1> QED BY <1>1 DEF DoneOK, HomeOK

LEMMA SeedEnds ==
  ASSUME Typed, HomeOK, Stays, NEW c \in Ids, Seed(c)
  PROVE  DoneOK' /\ HomeOK'
  <1>0. /\ branch \in [Ids -> Branches \union {None}]
        /\ head \in Ids \union {Main, Detached, None}
        /\ marker \in [Ids -> Ids \union {Main, Detached, None}]
    BY DEF Typed, TypeOK
  <1>1. CASE ~MayStart(c)
    BY <1>1, QuietAfter DEF Seed, Fails
  <1>3. MayStart(c) => branch[c] = None
    BY DEF MayStart
  <1>2. CASE MayStart(c)
    <2>0. Known(c) /\ HasBase(c) /\ Starts(c)
      BY <1>2 DEF MayStart, Seed
    <2>1. New(c) \in Branches /\ New(c) # None /\ Left \in Seq(OnMain)
      BY <2>0, NewTyped, LeftTyped DEF Typed
    <2>2. CASE Made(c)
      <3>1. branch'[c] # None
        BY <1>0, <2>1, <2>2 DEF Made
      <3>2. PICK marked \in {marker[c], None, head} :
               Ends(c, marked) /\ (marked = head \/ Strays(c))
        BY <2>2 DEF Made
      <3>3. DoneOK'
        BY <3>1, <3>2, DoneAfter
      <3>4. HomeOK'
        BY <1>0, <1>2, <1>3, <3>2, HomeAfter
      <3> QED BY <3>3, <3>4
    <2>3. CASE PicksFirst(c)
      <3>1. branch'[c] # None
        <4>1. Commits(c) \in Seq(OnMain)
          BY <2>0, KnownChunk DEF TypeOK, Typed
        <4>2. PICK k \in 0..Len(Commits(c)) :
                 branch' = [branch EXCEPT ![c] = Grown(New(c), Commits(c), k)]
          BY <2>3 DEF PicksFirst, Picks
        <4>3. Grown(New(c), Commits(c), k) \in Branches
          BY <2>1, <4>1, GrownIs
        <4>4. Grown(New(c), Commits(c), k) # None
          BY <4>3, NamesAssumption
        <4> QED BY <1>0, <4>2, <4>4
      <3>2. Ends(c, head)
        BY <2>3 DEF PicksFirst
      <3>3. DoneOK'
        BY <3>1, <3>2, DoneAfter
      <3>4. HomeOK'
        BY <1>0, <1>2, <1>3, <3>2, HomeAfter
      <3> QED BY <3>3, <3>4
    <2> QED BY <1>2, <2>0, <2>2, <2>3, StartsDoes
  <1> QED BY <1>1, <1>2

LEMMA ContinueEnds ==
  ASSUME Typed, HomeOK, Stays, NEW c \in Ids, Continue(c)
  PROVE  DoneOK' /\ HomeOK'
  <1>0. /\ branch \in [Ids -> Branches \union {None}] /\ TypeOK
        /\ marker \in [Ids -> Ids \union {Main, Detached, None}]
        /\ head \in Ids \union {Main, Detached, None}
    BY DEF Typed, TypeOK
  <1>1. CASE ~(Known(c) /\ HasBase(c) /\ head = c)
    BY <1>1, QuietAfter DEF Continue, Fails
  <1>2. CASE Known(c) /\ HasBase(c) /\ head = c
    <2>0. branch[c] # None /\ branch[c] \in Branches
      BY <1>0, <1>2, HeadHasBranch
    <2>1. CASE UNCHANGED <<git, marker, observed>> /\ Lives(c, "stopped")
      BY <2>1, QuietAfter
    <2>2. CASE Ends(c, marker[c]) /\ (GoesOn(c) \/ branch' = branch)
      <3>1. branch'[c] # None
        <4>1. CASE branch' = branch
          BY <2>0, <4>1
        <4>2. CASE GoesOn(c)
          <5>1. First(c) \in Branches /\ Rest \in Seq(OnMain)
            BY <1>0, <2>0, FirstTyped, RestTyped
          <5>2. PICK k \in 0..Len(Rest) :
                   branch' = [branch EXCEPT ![c] = Grown(First(c), Rest, k)]
            BY <4>2 DEF GoesOn, Picks
          <5>3. Grown(First(c), Rest, k) \in Branches
            BY <5>1, GrownIs
          <5>4. Grown(First(c), Rest, k) # None
            BY <5>3, NamesAssumption
          <5> QED BY <1>0, <5>2, <5>4
        <4> QED BY <2>2, <4>1, <4>2
      <3>2. DoneOK'
        BY <2>2, <3>1, DoneAfter
      <3>3. HomeOK'
        BY <1>0, <2>0, <2>2, HomeAfter
      <3> QED BY <3>2, <3>3
    <2> QED BY <1>0, <1>2, <2>1, <2>2, ContinueDoes DEF GoesOn
  <1> QED BY <1>1, <1>2

-----------------------------------------------------------------------------
(* The invariant *)

LEMMA InitInv == Init => Inv
  <1> SUFFICES ASSUME Init PROVE Inv
    OBVIOUS
  <1>1. Typed
    BY InitTyped
  <1>2. PicksOK
    <2>1. \A c \in Ids : branch[c] = None
      BY DEF Init
    <2>2. todo = <<>> /\ pick = None
      BY DEF Init
    <2> QED BY <2>1, <2>2 DEF PicksOK, Fits, OwnOK, QueueOK, PickOK
  <1>3. DoneOK
    BY DEF Init, Silent, DoneOK
  <1>4. HomeOK
    BY DEF Init, HomeOK
  <1> QED BY <1>1, <1>2, <1>3, <1>4 DEF Inv, Typed

LEMMA NextInv == Inv /\ [Next]_vars => Inv'
  <1> SUFFICES ASSUME Inv, [Next]_vars PROVE Inv'
    OBVIOUS
  <1>0. Typed /\ PicksOK /\ DoneOK /\ HomeOK /\ Typed'
    BY NextTyped DEF Inv, Typed
  <1>1. CASE UNCHANGED vars
    <2>1. Stays /\ UNCHANGED <<git, owner, mixed>>
      BY <1>1 DEF vars, git, Stays
    <2>2. PicksOK'
      BY <1>0, <2>1, SameFits
    <2>3. DoneOK'
      <3>1. said' = said /\ branch' = branch /\ file' = file
        BY <1>1 DEF vars
      <3> QED BY <1>0, <3>1 DEF DoneOK, Commits, Chunk
    <2>4. HomeOK'
      BY <1>0, <1>1 DEF vars, HomeOK
    <2> QED BY <1>0, <2>2, <2>3, <2>4 DEF Inv, Typed
  <1>2. CASE Next
    <2>0. Stays
      BY <1>2, NextStays
    <2>1. CASE Command
      <3>1. PICK c \in Ids : Seed(c) \/ Continue(c)
        BY <2>1 DEF Command
      <3>2. PicksOK' /\ DoneOK' /\ HomeOK'
        BY <1>0, <2>0, <3>1, SeedFits, ContinueFits, SeedEnds, ContinueEnds
      <3> QED BY <1>0, <3>2 DEF Inv, Typed
    <2>2. CASE Resolve \/ Skip \/ Tidy \/ Move
      <3>1. Hand
        BY <2>2 DEF Resolve, Skip, Tidy, Move
      <3>2. DoneOK'
        BY <3>1 DEF Hand, Silent, DoneOK
      <3>3. HomeOK'
        BY <1>0, <3>1 DEF Hand, HomeOK
      <3>4. PicksOK'
        <4>1. CASE Skip
          BY <1>0, <2>0, <4>1, SkipFits
        <4>2. CASE Move
          BY <1>0, <2>0, <4>2, MoveFits
        <4>3. CASE Resolve \/ Tidy
          <5>1. /\ branch' = branch /\ pick' = pick /\ todo' = todo /\ head' = head
                /\ owner' = owner /\ mixed' = mixed
            BY <3>1, <4>3 DEF Resolve, Tidy, Hand
          <5>2. Fits(branch', pick', todo', head', owner', mixed')
            BY <1>0, <5>1 DEF PicksOK
          <5> QED BY <2>0, <5>2, FitsAfter
        <4> QED BY <2>2, <4>1, <4>2, <4>3
      <3> QED BY <1>0, <3>2, <3>3, <3>4 DEF Inv, Typed
    <2> QED BY <1>2, <2>1, <2>2 DEF Next
  <1> QED BY <1>1, <1>2

LEMMA AlwaysInv == Spec => []Inv
  BY InitInv, NextInv, PTL DEF Spec

-----------------------------------------------------------------------------
(* The theorems *)

LEMMA InvInOrder == Inv => OwnInOrder
  <1> SUFFICES ASSUME Inv, NEW c \in Ids \ mixed, branch[c] # None
               PROVE  Subsequence(branch[c].own, Chunk(c).commits)
    BY DEF OwnInOrder
  <1>1. Known(c) /\ Upto(branch[c].own, Commits(c), Len(Commits(c)))
    BY DEF Inv, PicksOK, Fits, OwnOK
  <1>2. Commits(c) \in Seq(OnMain)
    BY <1>1, KnownChunk DEF Inv, TypeOK
  <1>3. Subsequence(branch[c].own, Commits(c))
    BY <1>1, <1>2, UptoIsSubsequence
  <1> QED BY <1>3 DEF Commits

\* A review branch holds commits of its chunk, each once and in the manifest's
\* order, unless it was continued while another chunk's commits were queued:
\* whatever the human resolved, committed, skipped or gave up between two
\* commands, and wherever a command was killed.
THEOREM CommitsInOrder == Spec => []OwnInOrder
  BY AlwaysInv, InvInOrder, PTL

LEMMA InvAll == Inv => QuietMeansAll
  <1> SUFFICES ASSUME Inv, said.result = "done", said.chunk \notin mixed
               PROVE  branch[said.chunk].own = Chunk(said.chunk).commits
    BY DEF QuietMeansAll
  <1> DEFINE c == said.chunk
  <1>1. c \in Ids /\ branch[c] # None /\ Len(branch[c].own) = Len(Commits(c))
    BY DEF Inv, DoneOK
  <1>2. Known(c) /\ Upto(branch[c].own, Commits(c), Len(Commits(c)))
    BY <1>1 DEF Inv, PicksOK, Fits, OwnOK
  <1>3. Commits(c) \in Seq(OnMain)
    BY <1>2, KnownChunk DEF Inv, TypeOK
  <1>4. branch[c] \in Branches
    BY <1>1 DEF Inv, TypeOK
  <1>5. branch[c].own \in Seq(OnMain)
    BY <1>4 DEF Branches
  <1> HIDE DEF c
  <1>6. branch[c].own = Commits(c)
    BY <1>1, <1>2, <1>3, <1>5, UptoOfAllIsAll
  <1> QED BY <1>6 DEF Commits, c

\* A command that ends without a warning has picked all commits of the chunk,
\* although _finish only counts them: as many, in order and each once, are all.
THEOREM NoWarningMeansAll == Spec => []QuietMeansAll
  BY AlwaysInv, InvAll, PTL

LEMMA StepReturns ==
  ASSUME Inv, Next, said'.result \in Well,
         branch[said'.chunk] = None \/ said'.chunk \notin astray
  PROVE  head' = IF branch[said'.chunk] = None \/ home[said'.chunk] = None
                 THEN head ELSE home[said'.chunk]
  <1>0. Typed /\ TypeOK /\ HomeOK
    BY DEF Inv, Typed
  <1>1. CASE Resolve \/ Skip \/ Tidy \/ Move
    <2>1. said' = Silent
      BY <1>1 DEF Resolve, Skip, Tidy, Move, Hand
    <2>2. said'.result = "nothing"
      BY <2>1 DEF Silent
    <2> QED BY <2>2 DEF Well
  <1>2. CASE Command
    <2>1. PICK c \in Ids : Seed(c) \/ Continue(c)
      BY <1>2 DEF Command
    <2>2. ASSUME NEW r \in {"error", "stopped"} PROVE ~Lives(c, r)
      BY DEF Lives, Says, Well
    <2>3. CASE Seed(c)
      <3>1. MayStart(c) /\ Starts(c)
        BY <2>2, <2>3 DEF Seed, Fails
      <3>2. branch[c] = None
        BY <3>1 DEF MayStart
      <3>3. Ends(c, head)
        BY <1>0, <3>1, StartsDoes DEF Made, PicksFirst
      <3>4. said'.chunk = c
        BY <3>3 DEF Ends
      <3>5. head # None
        BY <1>0, NamesAssumption DEF TypeOK
      <3>6. head' = head
        BY <3>3, <3>5 DEF Ends
      <3> QED BY <3>2, <3>4, <3>6
    <2>4. CASE Continue(c)
      <3>1. Known(c) /\ HasBase(c) /\ head = c
        BY <2>2, <2>4 DEF Continue, Fails
      <3>2. branch[c] # None
        BY <1>0, <3>1, HeadHasBranch
      <3>3. Ends(c, marker[c])
        BY <1>0, <2>2, <2>4, <3>1, ContinueDoes DEF GoesOn
      <3>4. said'.chunk = c
        BY <3>3 DEF Ends
      <3>5. marker[c] = home[c]
        BY <1>0, <3>2, <3>4 DEF HomeOK
      <3>6. head' = IF marker[c] = None THEN c ELSE marker[c]
        BY <3>3 DEF Ends
      <3> QED BY <3>1, <3>2, <3>4, <3>5, <3>6
    <2> QED BY <2>1, <2>3, <2>4
  <1> QED BY <1>1, <1>2 DEF Next

\* Seeding and continuing end with the human where seeding started, through any
\* number of stops, moves, and kills in the picks.  Not so after a start killed
\* before it wrote the marker, nor once a way back was killed or refused: the
\* marker is gone by then, and the next command ends well where it is.
THEOREM EndsWhereItStarted == Spec => ReturnsHome
  <1>1. Inv /\ [Next]_vars =>
           [LET c == said'.chunk
            IN  said'.result \in Well /\ (branch[c] = None \/ c \notin astray) =>
                   head' = IF branch[c] = None \/ home[c] = None THEN head ELSE home[c]]_vars
    BY StepReturns
  <1> QED BY <1>1, AlwaysInv, PTL DEF Spec, ReturnsHome

\* What a command may do to branches: only that of its chunk changes, which
\* is not begun anew and only grows, or is made where none was seen on origin.
Keeps(c) ==
    /\ \A d \in Ids \ {c} : branch'[d] = branch[d]
    /\ branch[c] # None => /\ branch'[c] # None /\ branch'[c].base = branch[c].base
                           /\ IsPrefix(branch[c].own, branch'[c].own)
    /\ branch[c] = None /\ branch'[c] # None => c \notin remote

LEMMA PrefixOfItself ==
  ASSUME NEW s \in Seq(OnMain)
  PROVE  IsPrefix(s, s)
  <1>1. Len(s) \in Nat
    BY LenProperties
  <1> QED BY <1>1 DEF IsPrefix

\* s is a prefix of what begins with its elements.
LEMMA PrefixByPlace ==
  ASSUME NEW s \in Seq(OnMain), NEW t \in Seq(OnMain), Len(s) <= Len(t),
         \A i \in 1..Len(s) : t[i] = s[i]
  PROVE  IsPrefix(s, t)
  <1>1. Len(s) \in Nat /\ Len(t) \in Nat
    BY LenProperties
  <1>2. \A i \in 1..Len(s) : t[i] \in OnMain
    BY <1>1, LenProperties
  <1>3. /\ SubSeq(t, 1, Len(s)) \in Seq(OnMain)
        /\ Len(SubSeq(t, 1, Len(s))) = Len(s)
        /\ \A i \in 1..Len(s) : SubSeq(t, 1, Len(s))[i] = t[i]
    BY <1>1, <1>2, SubSeqProperties
  <1>4. SubSeq(t, 1, Len(s)) = s
    BY <1>3, SeqEqual
  <1>5. SubSeq(s, 1, Len(s)) = s
    BY SubSeqFull
  <1> QED BY <1>1, <1>4, <1>5 DEF IsPrefix

\* A prefix has the same elements at its places.
LEMMA PrefixPlaces ==
  ASSUME NEW s \in Seq(OnMain), NEW t \in Seq(OnMain), IsPrefix(s, t)
  PROVE  Len(s) <= Len(t) /\ \A i \in 1..Len(s) : t[i] = s[i]
  <1>1. Len(s) \in Nat /\ Len(t) \in Nat
    BY LenProperties
  <1>2. Len(s) <= Len(t) /\ SubSeq(s, 1, Len(s)) = SubSeq(t, 1, Len(s))
    BY <1>1 DEF IsPrefix
  <1>3. SubSeq(s, 1, Len(s)) = s
    BY SubSeqFull
  <1>4. \A i \in 1..Len(s) : t[i] \in OnMain
    BY <1>1, <1>2, LenProperties
  <1>5. \A i \in 1..Len(s) : SubSeq(t, 1, Len(s))[i] = t[i]
    BY <1>1, <1>4, SubSeqProperties
  <1>6. SubSeq(t, 1, Len(s)) = s
    BY <1>2, <1>3
  <1> HIDE DEF IsPrefix
  <1> QED BY <1>2, <1>5, <1>6, Zenon

LEMMA PrefixOfMore ==
  ASSUME NEW s \in Seq(OnMain), NEW r \in Seq(OnMain)
  PROVE  IsPrefix(s, s \o r)
  <1> DEFINE t == s \o r
  <1>1. Len(s) \in Nat /\ Len(r) \in Nat
    BY LenProperties
  <1>2. t \in Seq(OnMain) /\ Len(t) = Len(s) + Len(r)
        /\ \A i \in 1..Len(s) : t[i] = s[i]
    BY <1>1, ConcatProperties
  <1> HIDE DEF t
  <1>3. Len(s) <= Len(t)
    BY <1>1, <1>2
  <1>4. IsPrefix(s, t)
    BY <1>2, <1>3, PrefixByPlace
  <1> QED BY <1>4 DEF t

\* A prefix of a prefix is one.
LEMMA PrefixByOne ==
  ASSUME NEW s \in Seq(OnMain), NEW m \in Seq(OnMain), NEW t \in Seq(OnMain),
         IsPrefix(s, m), IsPrefix(m, t)
  PROVE  IsPrefix(s, t)
  <1>1. Len(s) \in Nat /\ Len(m) \in Nat /\ Len(t) \in Nat
    BY LenProperties
  <1>2. Len(s) <= Len(m) /\ \A i \in 1..Len(s) : m[i] = s[i]
    BY PrefixPlaces
  <1>3. Len(m) <= Len(t) /\ \A i \in 1..Len(m) : t[i] = m[i]
    BY PrefixPlaces
  <1>4. Len(s) <= Len(t) /\ \A i \in 1..Len(s) : i \in 1..Len(m)
    BY <1>1, <1>2, <1>3
  <1>5. \A i \in 1..Len(s) : t[i] = s[i]
    BY <1>2, <1>3, <1>4, Zenon
  <1> QED BY <1>4, <1>5, PrefixByPlace

LEMMA PrefixOfMuchMore ==
  ASSUME NEW s \in Seq(OnMain), NEW p \in Seq(OnMain), NEW r \in Seq(OnMain)
  PROVE  IsPrefix(s, (s \o p) \o r)
  <1> DEFINE sp == s \o p
             t == sp \o r
  <1>1. sp \in Seq(OnMain) /\ IsPrefix(s, sp)
    BY ConcatProperties, PrefixOfMore
  <1> HIDE DEF sp
  <1>2. t \in Seq(OnMain) /\ IsPrefix(sp, t)
    BY <1>1, ConcatProperties, PrefixOfMore
  <1> HIDE DEF t
  <1>3. IsPrefix(s, t)
    BY <1>1, <1>2, PrefixByOne
  <1> QED BY <1>3 DEF t, sp

\* Nothing is picked.
LEMMA SameKeeps ==
  ASSUME TypeOK, NEW c \in Ids, branch' = branch
  PROVE  Keeps(c)
  <1>1. branch[c] # None => branch[c].own \in Seq(OnMain)
    BY DEF TypeOK, Branches
  <1> QED BY <1>1, PrefixOfItself DEF Keeps

LEMMA SeedKeeps ==
  ASSUME Typed, NEW c \in Ids, Seed(c)
  PROVE  Keeps(c)
  <1>0. TypeOK /\ branch \in [Ids -> Branches \union {None}]
    BY DEF Typed, TypeOK
  <1>1. CASE ~MayStart(c)
    <2>1. branch' = branch
      BY <1>1 DEF Seed, Fails, git
    <2> QED BY <1>0, <2>1, SameKeeps
  <1>2. CASE MayStart(c)
    <2>1. Made(c) \/ PicksFirst(c)
      BY <1>2, StartsDoes DEF Seed
    <2>2. \E b : branch' = [branch EXCEPT ![c] = b]
      BY <2>1 DEF Made, PicksFirst, Picks
    <2>3. \A d \in Ids \ {c} : branch'[d] = branch[d]
      BY <1>0, <2>2
    <2>4. branch[c] = None /\ c \notin remote
      BY <1>2 DEF MayStart
    <2> QED BY <2>3, <2>4 DEF Keeps
  <1> QED BY <1>1, <1>2

LEMMA ContinueKeeps ==
  ASSUME TypeOK, NEW c \in Ids, Continue(c)
  PROVE  Keeps(c)
  <1>0. branch \in [Ids -> Branches \union {None}]
    BY DEF TypeOK
  <1>1. CASE ~(Known(c) /\ HasBase(c) /\ head = c)
    <2>1. branch' = branch
      BY <1>1 DEF Continue, Fails, git
    <2> QED BY <2>1, SameKeeps
  <1>2. CASE Known(c) /\ HasBase(c) /\ head = c
    <2>1. CASE branch' = branch
      BY <2>1, SameKeeps
    <2>2. CASE GoesOn(c)
      <3>1. branch[c] # None /\ branch[c] \in Branches
        BY <1>2, HeadHasBranch
      <3>2. First(c) \in Branches /\ First(c).base = branch[c].base /\ Rest \in Seq(OnMain)
        BY <3>1, FirstTyped, RestTyped
      <3>3. PICK k \in 0..Len(Rest) :
               branch' = [branch EXCEPT ![c] = Grown(First(c), Rest, k)]
        BY <2>2 DEF GoesOn, Picks
      <3>4. /\ SubSeq(Rest, 1, k) \in Seq(OnMain)
            /\ Grown(First(c), Rest, k) \in Branches
            /\ Grown(First(c), Rest, k).base = First(c).base
            /\ Grown(First(c), Rest, k).own = First(c).own \o SubSeq(Rest, 1, k)
        BY <3>2, GrownIs
      <3>5. /\ branch'[c] = Grown(First(c), Rest, k)
            /\ \A d \in Ids \ {c} : branch'[d] = branch[d]
        BY <1>0, <3>3
      <3>6. branch'[c] # None
        BY <3>4, <3>5, NamesAssumption
      <3>7. branch[c].own \in Seq(OnMain)
        BY <3>1 DEF Branches
      <3>8. IsPrefix(branch[c].own, branch'[c].own)
        <4> DEFINE s == branch[c].own
                   r == SubSeq(Rest, 1, k)
        <4>1. CASE pick = None
          <5>1. branch'[c].own = s \o r
            BY <3>1, <3>4, <3>5, <4>1, FirstTyped
          <5> QED BY <3>4, <3>7, <5>1, PrefixOfMore
        <4>2. CASE pick # None
          <5> DEFINE p == <<pick>>
          <5>1. p \in Seq(OnMain)
            BY <4>2 DEF TypeOK
          <5>2. branch'[c].own = (s \o p) \o r
            BY <3>1, <3>4, <3>5, <4>2, FirstTyped
          <5>3. s \in Seq(OnMain) /\ r \in Seq(OnMain)
            BY <3>4, <3>7
          <5> HIDE DEF s, r, p
          <5>4. IsPrefix(s, (s \o p) \o r)
            BY <5>1, <5>3, PrefixOfMuchMore
          <5> QED BY <5>2, <5>4 DEF s
        <4> QED BY <4>1, <4>2
      <3> QED BY <3>1, <3>2, <3>4, <3>5, <3>6, <3>8 DEF Keeps
    <2> QED BY <1>2, <2>1, <2>2, ContinueDoes DEF git
  <1> QED BY <1>1, <1>2

\* Whose command it is, is what it says.
LEMMA SaysWho ==
  ASSUME Typed, NEW c \in Ids, Seed(c) \/ Continue(c)
  PROVE  said'.chunk = c
  <1>1. ASSUME NEW r \in {"error", "stopped"}, Lives(c, r) PROVE said'.chunk = c
    BY <1>1 DEF Lives, Says
  <1>2. ASSUME NEW marked, Ends(c, marked) PROVE said'.chunk = c
    BY <1>2 DEF Ends
  <1>3. CASE Seed(c)
    <2>1. CASE ~MayStart(c)
      BY <1>1, <1>3, <2>1 DEF Seed, Fails
    <2>2. CASE MayStart(c)
      BY <1>2, <1>3, <2>2, StartsDoes DEF Seed, Made, PicksFirst
    <2> QED BY <2>1, <2>2
  <1>4. CASE Continue(c)
    <2>1. CASE ~(Known(c) /\ HasBase(c) /\ head = c)
      BY <1>1, <1>4, <2>1 DEF Continue, Fails
    <2>2. CASE Known(c) /\ HasBase(c) /\ head = c
      BY <1>1, <1>2, <1>4, <2>2, ContinueDoes DEF Typed, GoesOn
    <2> QED BY <2>1, <2>2
  <1> QED BY <1>3, <1>4

LEMMA StepKeeps ==
  ASSUME Inv, Next, said' # Silent, NEW c \in Ids
  PROVE  /\ branch[c] # None => /\ branch'[c] # None /\ branch'[c].base = branch[c].base
                                /\ IsPrefix(branch[c].own, branch'[c].own)
         /\ branch'[c] # branch[c] => said'.chunk = c
         /\ branch[c] = None /\ branch'[c] # None => c \notin remote
  <1>0. Typed /\ TypeOK
    BY DEF Inv, Typed
  <1>1. CASE Resolve \/ Skip \/ Tidy \/ Move
    BY <1>1 DEF Resolve, Skip, Tidy, Move, Hand
  <1>2. CASE Command
    <2>1. PICK d \in Ids : Seed(d) \/ Continue(d)
      BY <1>2 DEF Command
    <2>2. Keeps(d) /\ said'.chunk = d
      BY <1>0, <2>1, SeedKeeps, ContinueKeeps, SaysWho
    <2>3. branch[c] # None => branch[c].own \in Seq(OnMain)
      BY <1>0 DEF TypeOK, Branches
    <2> QED BY <2>2, <2>3, PrefixOfItself DEF Keeps
  <1> QED BY <1>1, <1>2 DEF Next

\* No command takes a commit from a branch, touches another chunk's branch, or
\* starts one that this clone saw on origin when it last fetched or pushed.
THEOREM CommandsOnlyAdd == Spec => NeverOverwrites
  <1>1. Inv /\ [Next]_vars =>
           [said' # Silent => \A c \in Ids :
              /\ branch[c] # None => /\ branch'[c] # None /\ branch'[c].base = branch[c].base
                                     /\ IsPrefix(branch[c].own, branch'[c].own)
              /\ branch'[c] # branch[c] => said'.chunk = c
              /\ branch[c] = None /\ branch'[c] # None => c \notin remote]_vars
    BY StepKeeps
  <1> QED BY <1>1, AlwaysInv, PTL DEF Spec, NeverOverwrites
=============================================================================
