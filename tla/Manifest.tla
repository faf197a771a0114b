------------------------------- MODULE Manifest -------------------------------
(***************************************************************************)
(* tools/handover/manifest.py: what is accepted as chunks.yml, in which    *)
(* order its chunks come, and which chunks are below another.              *)
(*                                                                         *)
(* A file lists chunks and the commits that stay in the fork.  A chunk of  *)
(* the file is a record of its id, the list of what it requires, the list  *)
(* of its commits, and whether its texts and test goals are well formed.   *)
(***************************************************************************)
EXTENDS Naturals, SequencesExt

CONSTANTS
    Root,       \* stands for the parent of a chunk that requires nothing
    OnMain,     \* the commits on the fork's main branch
    Refused     \* load() raises ManifestError, in place of a list of chunks

Listed(file) == ToSet(file.chunks)
FileIds(file) == {c.id : c \in Listed(file)}

\* What is read from YAML, before it is checked: a list of chunks with a list
\* of commits and of names each.
Shaped(file) ==
    /\ file.chunks \in Seq(Listed(file)) /\ file.fork \in Seq(ToSet(file.fork))
    /\ \A c \in Listed(file) :
          /\ c.requires \in Seq(ToSet(c.requires)) /\ c.commits \in Seq(ToSet(c.commits))
          /\ Root \notin {c.id} \union ToSet(c.requires)
    /\ Refused \notin Seq(Listed(file))

ParentOf(c) == IF c.requires = <<>> THEN Root ELSE c.requires[1]

\* _parse_chunk: at most one parent, every commit on main, every field and
\* goal allowed.
Parses(c) ==
    /\ Len(c.requires) <= 1
    /\ ToSet(c.commits) \subseteq OnMain
    /\ c.formed

\* Every commit of the file, as often as it is listed.
Claims(file) == FlattenSeq([i \in DOMAIN file.chunks |-> file.chunks[i].commits]) \o file.fork

ClaimedOnce(file) == IsInjective(Claims(file))

-----------------------------------------------------------------------------
(* _order *)

ById(file, id) == CHOOSE c \in Listed(file) : c.id = id

\* visit() of the parent of the last of path: there is none, it was visited
\* before, it closes a ring, or the path goes on with it.
ClimbOn(file, done, path) ==
    LET up == ParentOf(Last(path))
    IN  IF path = Refused \/ up = Root \/ up \in done THEN path
        ELSE IF up \in {d.id : d \in ToSet(path)} THEN Refused
        ELSE Append(path, ById(file, up))

\* visit(): the chunks from c up to the first whose parent is in done, or
\* Refused where they close a ring.
Visit(file, done, c) ==
    LET climb[n \in 0..Len(file.chunks)] ==
            IF n = 0 THEN <<c>> ELSE ClimbOn(file, done, climb[n - 1])
    IN  climb[Len(file.chunks)]

VisitEach(file, ordered, c) ==
    LET done == IF ordered = Refused THEN {} ELSE {d.id : d \in ToSet(ordered)}
        more == Visit(file, done, c)
    IN  IF ordered = Refused \/ c.id \in done THEN ordered
        ELSE IF more = Refused THEN Refused ELSE ordered \o Reverse(more)

\* Broken: trusts the order of the file.
OrderAsListed(file) ==
    IF \A c \in Listed(file) : ParentOf(c) \in FileIds(file) \union {Root}
    THEN file.chunks ELSE Refused

\* ordered[n] is what the first n chunks of the file bring, parents first.
Order(file) ==
    LET ordered[n \in 0..Len(file.chunks)] ==
            IF n = 0 THEN <<>> ELSE VisitEach(file, ordered[n - 1], file.chunks[n])
    IN  IF \/ \E i, j \in DOMAIN file.chunks : i # j /\ file.chunks[i].id = file.chunks[j].id
           \/ \E c \in Listed(file) : ParentOf(c) \notin FileIds(file) \union {Root}
        THEN Refused ELSE ordered[Len(file.chunks)]

Load(file) ==
    IF /\ \A c \in Listed(file) : Parses(c)
       /\ ToSet(file.fork) \subseteq OnMain
       /\ ClaimedOnce(file)
    THEN Order(file) ELSE Refused

\* Broken: takes only direct children.
DirectChildren(chunks, id) == SelectSeq(chunks, LAMBDA c : ParentOf(c) = id)

\* Manifest.children: one pass over the ordered chunks.
Children(chunks, id) ==
    LET found[n \in 0..Len(chunks)] ==
            LET below == found[n - 1]
            IN  IF n = 0 THEN <<>>
                ELSE IF ParentOf(chunks[n]) \in {id} \union {d.id : d \in ToSet(below)}
                     THEN Append(below, chunks[n]) ELSE below
    IN  found[Len(chunks)]

-----------------------------------------------------------------------------
(* What load() promises, said without an algorithm *)

\* <<a, b>> is in Above(file) where a is reached from b by going up, in one
\* step or more.
Above(file) ==
    LET ids == FileIds(file)
        Up(a, b) == \E c \in Listed(file) : c.id = b /\ a \in ToSet(c.requires)
        Ways(n) == {way \in [0..n -> ids] : \A i \in 1..n : Up(way[i], way[i - 1])}
    IN  UNION {{<<way[n], way[0]>> : way \in Ways(n)} : n \in 1..Cardinality(ids)}

\* Every id is listed once and every chunk stands on one listed chunk at most
\* and never, through others, on itself; all that is named exists, and no
\* commit is claimed twice.
Sound(file) ==
    /\ Cardinality(FileIds(file)) = Len(file.chunks)
    /\ \A c \in Listed(file) :
          c.formed /\ Len(c.requires) <= 1 /\ ToSet(c.requires) \subseteq FileIds(file)
    /\ \A id \in FileIds(file) : <<id, id>> \notin Above(file)
    /\ ToSet(Claims(file)) \subseteq OnMain
    /\ Cardinality(ToSet(Claims(file))) = Len(Claims(file))

\* The chunks of the file, each after all that it stands on.
InOrder(file, chunks) ==
    /\ ToSet(chunks) = Listed(file) /\ Len(chunks) = Len(file.chunks)
    /\ LET above == Above(file)
       IN  \A i, j \in DOMAIN chunks : <<chunks[i].id, chunks[j].id>> \in above => i < j

\* s is what is left of t when some of its elements are dropped.
Subsequence(s, t) ==
    \E at \in [DOMAIN s -> DOMAIN t] :
        /\ \A i \in DOMAIN s : s[i] = t[at[i]]
        /\ \A i, j \in DOMAIN s : i < j => at[i] < at[j]

\* below is exactly those of the chunks that stand on id, in their order.
AllBelow(file, chunks, id, below) ==
    /\ Subsequence(below, chunks)
    /\ ToSet(below) = LET above == Above(file)
                      IN  {c \in ToSet(chunks) : <<id, c.id>> \in above}
=============================================================================
