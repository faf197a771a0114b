---------------------------- MODULE ManifestProofs ----------------------------
(***************************************************************************)
(* Lemmas about Manifest, for files of any number of chunks: load()        *)
(* refuses exactly the files that are not sound and puts the chunks of the *)
(* others in order, and children() are exactly the chunks that stand on    *)
(* one.  SeedProofs states them of every state.                            *)
(*                                                                         *)
(* A definition by recursion says what a function must satisfy; that there *)
(* is such a function is proved for each (StepsExist), and what it returns *)
(* by counting up to the end of the file.                                  *)
(***************************************************************************)
EXTENDS Manifest, TLAPS, FiniteSetTheorems, SequenceTheorems, WellFoundedInduction

\* What holds of 0, and of n + 1 where it holds of n, holds of every number.
LEMMA Counting ==
  ASSUME NEW P, 0 \in P, \A n \in Nat : n \in P => n + 1 \in P
  PROVE  Nat \subseteq P
  <1> DEFINE Out == Nat \ P
  <1>1. SUFFICES ASSUME Out # {} PROVE FALSE
    OBVIOUS
  <1>0. Out # {} /\ Out \subseteq Nat
    BY <1>1
  <1>2. PICK n \in Out : \A m \in Out : ~(<<m, n>> \in OpToRel(<, Nat))
    BY <1>0, NatLessThanWellFounded, WFMin
  <1>3. n \in Nat /\ n # 0 /\ n - 1 \in Nat /\ n = (n - 1) + 1
    OBVIOUS
  <1>4. n - 1 \in Out
    BY <1>3
  <1>5. \A m \in Out : ~(m < n)
    BY <1>0, <1>2 DEF OpToRel
  <1> QED BY <1>3, <1>4, <1>5

\* g[n] is what the first n steps make of base.
Iterates(g, S, base, N, step) ==
    /\ g \in [0..N -> S] /\ g[0] = base
    /\ \A i \in 1..N : g[i] = step[<<i, g[i - 1]>>]

\* A function defined by recursion over the steps exists.
LEMMA StepsExist ==
  ASSUME NEW S, NEW base \in S, NEW N \in Nat, NEW step \in [(1..N) \X S -> S]
  PROVE  \E g : Iterates(g, S, base, N, step)
  <1> DEFINE P == {n \in Nat : n <= N => \E g \in [0..n -> S] :
                       g[0] = base /\ \A i \in 1..n : g[i] = step[<<i, g[i - 1]>>]}
  <1>1. 0 \in P
    <2> DEFINE g == [i \in 0..0 |-> base]
    <2>1. g \in [0..0 -> S] /\ g[0] = base /\ \A i \in 1..0 : g[i] = step[<<i, g[i - 1]>>]
      OBVIOUS
    <2> QED BY <2>1
  <1>2. ASSUME NEW n \in Nat, n \in P
        PROVE  n + 1 \in P
    <2>1. SUFFICES ASSUME n + 1 <= N
                   PROVE  \E h \in [0..(n + 1) -> S] :
                              h[0] = base /\ \A i \in 1..(n + 1) : h[i] = step[<<i, h[i - 1]>>]
      OBVIOUS
    <2>2. PICK g \in [0..n -> S] : g[0] = base /\ \A i \in 1..n : g[i] = step[<<i, g[i - 1]>>]
      BY <1>2, <2>1
    <2> DEFINE h == [i \in 0..(n + 1) |-> IF i = n + 1 THEN step[<<n + 1, g[n]>>] ELSE g[i]]
    <2>3. g[n] \in S /\ step[<<n + 1, g[n]>>] \in S
      BY <2>1, <2>2
    <2>4. h \in [0..(n + 1) -> S]
      BY <2>2, <2>3
    <2>5. h[0] = base
      BY <2>2
    <2>6. ASSUME NEW i \in 1..(n + 1)
          PROVE  h[i] = step[<<i, h[i - 1]>>]
      <3>1. h[i - 1] = g[i - 1]
        OBVIOUS
      <3>2. CASE i = n + 1
        <4>1. h[i] = step[<<n + 1, g[n]>>] /\ i - 1 = n
          BY <3>2
        <4> HIDE DEF h
        <4> QED BY <3>1, <3>2, <4>1
      <3>3. CASE i \in 1..n
        BY <3>1, <3>3, <2>2
      <3> QED BY <3>2, <3>3
    <2> HIDE DEF h
    <2> QED BY <2>4, <2>5, <2>6
  <1> HIDE DEF P
  <1>3. Nat \subseteq P
    BY <1>1, <1>2, Counting
  <1> QED BY <1>3 DEF P, Iterates


\* A file that _order does not refuse for an unknown parent.
Good(file) ==
    /\ file.chunks \in Seq(Listed(file))
    /\ Refused \notin Seq(Listed(file))
    /\ \A d \in Listed(file) : ParentOf(d) \in FileIds(file) \union {Root}

\* by_id[id] is a chunk of the file with that id.
LEMMA ByIdIs ==
  ASSUME NEW file, NEW id \in FileIds(file)
  PROVE  ById(file, id) \in Listed(file) /\ ById(file, id).id = id
  BY DEF FileIds, ById

\* A step of visit() keeps the path a sequence of chunks, never empty.
LEMMA ClimbOnTyped ==
  ASSUME NEW file, NEW done, Good(file), NEW path \in Seq(Listed(file)), path # <<>>
  PROVE  /\ ClimbOn(file, done, path) \in Seq(Listed(file)) \union {Refused}
         /\ ClimbOn(file, done, path) # <<>>
  <1>1. Last(path) \in Listed(file)
    BY DEF Last
  <1>2. ParentOf(Last(path)) # Root => ById(file, ParentOf(Last(path))) \in Listed(file)
    BY <1>1, ByIdIs DEF Good
  <1> DEFINE next == ById(file, ParentOf(Last(path)))
  <1>3. ASSUME next \in Listed(file)
        PROVE  Append(path, next) \in Seq(Listed(file)) /\ Append(path, next) # <<>>
    <2> HIDE DEF next
    <2> QED BY <1>3
  <1>4. path # Refused
    BY DEF Good
  <1>5. CASE ParentOf(Last(path)) = Root \/ ParentOf(Last(path)) \in done
    BY <1>4, <1>5 DEF ClimbOn
  <1>6. CASE /\ ~(ParentOf(Last(path)) = Root \/ ParentOf(Last(path)) \in done)
             /\ ParentOf(Last(path)) \in {d.id : d \in ToSet(path)}
    <2>1. ClimbOn(file, done, path) = Refused
      BY <1>4, <1>6 DEF ClimbOn
    <2> QED BY <2>1, EmptySeq DEF Good
  <1>7. CASE /\ ~(ParentOf(Last(path)) = Root \/ ParentOf(Last(path)) \in done)
             /\ ParentOf(Last(path)) \notin {d.id : d \in ToSet(path)}
    <2>1. ClimbOn(file, done, path) = Append(path, next)
      BY <1>4, <1>7 DEF ClimbOn
    <2> QED BY <1>2, <1>3, <1>7, <2>1
  <1> QED BY <1>5, <1>6, <1>7

Climbs(file) == (Seq(Listed(file)) \ {<<>>}) \union {Refused}

\* The function that Visit chooses is the one its definition describes.
LEMMA ClimbIsRecursive ==
  ASSUME NEW file, NEW done, NEW c \in Listed(file), Good(file)
  PROVE  \E climb \in [0..Len(file.chunks) -> Climbs(file)] :
            /\ climb[0] = <<c>>
            /\ \A n \in 1..Len(file.chunks) : climb[n] = ClimbOn(file, done, climb[n - 1])
            /\ Visit(file, done, c) = climb[Len(file.chunks)]
  <1> DEFINE N == Len(file.chunks)
             S == Climbs(file)
             on == [path \in S |-> ClimbOn(file, done, path)]
             climb[n \in 0..N] == IF n = 0 THEN <<c>> ELSE ClimbOn(file, done, climb[n - 1])
  <1>1. N \in Nat /\ <<c>> \in S
    BY DEF Good, Climbs
  <1>2. on \in [S -> S]
    <2>1. ClimbOn(file, done, Refused) = Refused
      BY DEF ClimbOn
    <2>2. \A path \in Seq(Listed(file)) \ {<<>>} : ClimbOn(file, done, path) \in S
      BY ClimbOnTyped DEF Climbs
    <2> QED BY <2>1, <2>2 DEF Climbs
  <1> HIDE DEF S
  <1> DEFINE steps == [p \in (1..N) \X S |-> on[p[2]]]
  <1>3. steps \in [(1..N) \X S -> S]
    BY <1>2
  <1>4. PICK g : Iterates(g, S, <<c>>, N, steps)
    <2> HIDE DEF steps, N, on
    <2> QED BY <1>1, <1>3, StepsExist
  <1>5. ASSUME NEW i \in 1..N
        PROVE  g[i] = ClimbOn(file, done, g[i - 1])
    <2>1. i - 1 \in 0..N
      BY <1>1
    <2>2. g[i - 1] \in S
      BY <1>4, <2>1 DEF Iterates
    <2>3. steps[<<i, g[i - 1]>>] = on[g[i - 1]]
      BY <2>2
    <2> QED BY <1>4, <2>2, <2>3 DEF Iterates
  <1>6. g = [n \in 0..N |-> IF n = 0 THEN <<c>> ELSE ClimbOn(file, done, g[n - 1])]
    BY <1>1, <1>4, <1>5 DEF Iterates
  <1>7. climb = [n \in 0..N |-> IF n = 0 THEN <<c>> ELSE ClimbOn(file, done, climb[n - 1])]
    <2> HIDE DEF N
    <2>1. SUFFICES \E h : h = [n \in 0..N |-> IF n = 0 THEN <<c>>
                                              ELSE ClimbOn(file, done, h[n - 1])]
      OBVIOUS
    <2> QED BY <1>6
  <1>8. Visit(file, done, c) = climb[N]
    BY DEF Visit
  <1> HIDE DEF climb
  <1>9. climb[0] = <<c>> /\ \A n \in 1..N : climb[n] = ClimbOn(file, done, climb[n - 1])
    <2>1. \A n \in 0..N : climb[n] = IF n = 0 THEN <<c>> ELSE ClimbOn(file, done, climb[n - 1])
      BY <1>7, Zenon
    <2> HIDE DEF N
    <2> QED BY <1>1, <2>1
  <1>10. \A n \in 0..N : climb[n] \in S
    <2> DEFINE P == {n \in Nat : n <= N => climb[n] \in S}
    <2>1. 0 \in P
      BY <1>1, <1>9
    <2>2. ASSUME NEW n \in Nat, n \in P
          PROVE  n + 1 \in P
      <3>1. SUFFICES ASSUME n + 1 <= N PROVE climb[n + 1] \in S
        OBVIOUS
      <3>2. climb[n] \in S /\ climb[n + 1] = ClimbOn(file, done, climb[n])
        BY <1>1, <1>9, <2>2, <3>1
      <3> QED BY <1>2, <3>2
    <2> HIDE DEF P
    <2>3. Nat \subseteq P
      BY <2>1, <2>2, Counting
    <2> QED BY <1>1, <2>3 DEF P
  <1> QED BY <1>1, <1>7, <1>8, <1>9, <1>10 DEF S

-----------------------------------------------------------------------------
(* What a visit finds *)

Distinct(s) == \A i, j \in 1..Len(s) : i # j => s[i].id # s[j].id

IdsOf(s) == {d.id : d \in ToSet(s)}

\* A path goes up from c, one chunk after the other, and none was visited.
PathOK(file, done, c, path) ==
    /\ path \in Seq(Listed(file)) /\ Len(path) > 0 /\ path[1] = c
    /\ Distinct(path)
    /\ \A i \in 1..Len(path) : path[i].id \notin done
    /\ \A i \in 1..(Len(path) - 1) : path[i + 1].id = ParentOf(path[i])

Stops(done, path) ==
    ParentOf(path[Len(path)]) = Root \/ ParentOf(path[Len(path)]) \in done

\* The last of path stands on one of the path.
IsRing(path) == \E j \in 1..Len(path) : ParentOf(path[Len(path)]) = path[j].id

\* One step of visit() stops, finds a ring, or makes the path longer by one.
LEMMA ClimbOnIs ==
  ASSUME NEW file, NEW done, Good(file), NEW c, NEW path, PathOK(file, done, c, path)
  PROVE  \/ Stops(done, path) /\ ClimbOn(file, done, path) = path
         \/ IsRing(path) /\ ClimbOn(file, done, path) = Refused
         \/ /\ PathOK(file, done, c, ClimbOn(file, done, path))
            /\ Len(ClimbOn(file, done, path)) = Len(path) + 1
  <1> DEFINE up == ParentOf(path[Len(path)])
             next == ById(file, up)
  <1>0. path \in Seq(Listed(file)) /\ Len(path) \in Nat \ {0} /\ path # Refused
    BY DEF PathOK, Good
  <1>1. path[Len(path)] \in Listed(file)
    BY <1>0
  <1>2. Last(path) = path[Len(path)]
    BY DEF Last
  <1>3. CASE up = Root \/ up \in done
    <2>1. ClimbOn(file, done, path) = path
      BY <1>2, <1>3 DEF ClimbOn
    <2> QED BY <1>3, <2>1 DEF Stops
  <1>4. CASE ~(up = Root \/ up \in done) /\ up \in IdsOf(path)
    <2>1. ClimbOn(file, done, path) = Refused
      BY <1>0, <1>2, <1>4 DEF ClimbOn, IdsOf
    <2>2. IsRing(path)
      BY <1>0, <1>4 DEF IsRing, IdsOf, ToSet
    <2> QED BY <2>1, <2>2
  <1>5. CASE ~(up = Root \/ up \in done) /\ up \notin IdsOf(path)
    <2>1. ClimbOn(file, done, path) = Append(path, next)
      BY <1>0, <1>2, <1>5 DEF ClimbOn, IdsOf
    <2>2. next \in Listed(file) /\ next.id = up
      BY <1>1, <1>5, ByIdIs DEF Good
    <2> DEFINE more == Append(path, next)
    <2>3. more \in Seq(Listed(file)) /\ Len(more) = Len(path) + 1
      <3> HIDE DEF next
      <3> QED BY <1>0, <2>2
    <2>4. more[Len(path) + 1] = next /\ \A i \in 1..Len(path) : more[i] = path[i]
      <3> HIDE DEF next
      <3> QED BY <1>0, <2>2
    <2>5. \A i \in 1..Len(path) : path[i].id # up
      BY <1>0, <1>5 DEF IdsOf, ToSet
    <2> HIDE DEF next, more, up
    <2>6. Distinct(more)
      BY <1>0, <2>2, <2>3, <2>4, <2>5 DEF Distinct, PathOK
    <2>7. \A i \in 1..Len(more) : more[i].id \notin done
      BY <1>0, <1>5, <2>2, <2>3, <2>4 DEF PathOK
    <2>8. ASSUME NEW i \in 1..(Len(more) - 1) PROVE more[i + 1].id = ParentOf(more[i])
      <3>1. CASE i = Len(path)
        BY <1>0, <2>2, <2>4, <3>1 DEF up
      <3>2. CASE i \in 1..(Len(path) - 1)
        BY <1>0, <2>4, <3>2 DEF PathOK
      <3> QED BY <1>0, <2>3, <3>1, <3>2
    <2>9. PathOK(file, done, c, more)
      BY <1>0, <2>3, <2>4, <2>6, <2>7, <2>8 DEF PathOK
    <2> QED BY <2>1, <2>3, <2>9 DEF more
  <1> QED BY <1>3, <1>4, <1>5

\* A file lists finitely many chunks, at most as many as it has entries.
LEMMA ListedFinite ==
  ASSUME NEW file, file.chunks \in Seq(Listed(file))
  PROVE  IsFiniteSet(Listed(file)) /\ Cardinality(Listed(file)) <= Len(file.chunks)
         /\ Cardinality(Listed(file)) \in Nat
  <1> DEFINE N == Len(file.chunks)
  <1>1. N \in Nat /\ IsFiniteSet(1..N) /\ Cardinality(1..N) = N
    BY FS_Interval
  <1>2. file.chunks \in Surjection(1..N, Listed(file))
    BY DEF Surjection, Listed, ToSet
  <1>3. IsFiniteSet(Listed(file)) /\ Cardinality(Listed(file)) <= N
    BY <1>1, <1>2, FS_Surjection
  <1> QED BY <1>3, FS_CardinalityType

\* No more chunks than the file has can stand on a path.
LEMMA DistinctIsShort ==
  ASSUME NEW file, file.chunks \in Seq(Listed(file)), NEW s \in Seq(Listed(file)), Distinct(s)
  PROVE  Len(s) <= Len(file.chunks)
  <1>1. s \in Injection(1..Len(s), Listed(file))
    BY DEF Injection, IsInjective, Distinct
  <1>2. Cardinality(1..Len(s)) = Len(s)
    BY FS_Interval
  <1>3. Cardinality(1..Len(s)) <= Cardinality(Listed(file))
    BY <1>1, ListedFinite, FS_Injection
  <1> QED BY <1>2, <1>3, ListedFinite

\* visit() ends: it finds a ring, or a path up to a chunk visited before or to
\* the top.
LEMMA VisitIs ==
  ASSUME NEW file, NEW done, Good(file), NEW c \in Listed(file), c.id \notin done
  PROVE  \/ /\ Visit(file, done, c) = Refused
            /\ \E path : PathOK(file, done, c, path) /\ IsRing(path)
         \/ /\ PathOK(file, done, c, Visit(file, done, c))
            /\ Stops(done, Visit(file, done, c))
  <1> DEFINE N == Len(file.chunks)
             Ring == \E path : PathOK(file, done, c, path) /\ IsRing(path)
  <1>0. N \in Nat
    BY DEF Good
  <1>1. PICK climb \in [0..Len(file.chunks) -> Climbs(file)] :
            /\ climb[0] = <<c>>
            /\ \A n \in 1..Len(file.chunks) : climb[n] = ClimbOn(file, done, climb[n - 1])
            /\ Visit(file, done, c) = climb[Len(file.chunks)]
    BY ClimbIsRecursive
  <1> DEFINE Ok(n, path) == \/ path = Refused /\ Ring
                            \/ /\ PathOK(file, done, c, path)
                               /\ Stops(done, path) \/ Len(path) = n + 1
             P == {n \in Nat : n <= N => Ok(n, climb[n])}
  <1>2. 0 \in P
    <2> DEFINE one == <<c>>
    <2>1. one \in Seq(Listed(file)) /\ Len(one) = 1 /\ one[1] = c
      OBVIOUS
    <2> HIDE DEF one
    <2>2. PathOK(file, done, c, one)
      BY <2>1 DEF PathOK, Distinct
    <2> QED BY <1>1, <2>1, <2>2 DEF one
  <1>3. ASSUME NEW n \in Nat, n \in P PROVE n + 1 \in P
    <2>1. SUFFICES ASSUME n + 1 <= N PROVE Ok(n + 1, climb[n + 1])
      OBVIOUS
    <2>2. Ok(n, climb[n])
      BY <1>0, <1>3, <2>1
    <2>3. climb[n + 1] = ClimbOn(file, done, climb[n])
      BY <1>0, <1>1, <2>1
    <2>4. CASE climb[n] = Refused /\ Ring
      <3>1. climb[n + 1] = Refused
        BY <2>3, <2>4 DEF ClimbOn
      <3> QED BY <2>4, <3>1
    <2>5. CASE /\ PathOK(file, done, c, climb[n])
               /\ Stops(done, climb[n]) \/ Len(climb[n]) = n + 1
      <3> DEFINE path == climb[n]
                 then == climb[n + 1]
      <3>1. \/ Stops(done, path) /\ then = path
            \/ IsRing(path) /\ then = Refused
            \/ PathOK(file, done, c, then) /\ Len(then) = Len(path) + 1
        <4> HIDE DEF path, then
        <4>1. then = ClimbOn(file, done, path) /\ PathOK(file, done, c, path)
          BY <2>3, <2>5 DEF path, then
        <4> QED BY <4>1, ClimbOnIs
      <3>2. CASE Stops(done, path) /\ then = path
        BY <2>5, <3>2
      <3>3. CASE IsRing(path) /\ then = Refused
        BY <2>5, <3>3
      <3>4. CASE PathOK(file, done, c, then) /\ Len(then) = Len(path) + 1 /\ Len(path) = n + 1
        BY <3>4
      <3>5. CASE PathOK(file, done, c, then) /\ Len(then) = Len(path) + 1 /\ Stops(done, path)
        <4>1. ClimbOn(file, done, path) = path
          BY <2>5, <3>5 DEF ClimbOn, Stops, Last, PathOK, Good
        <4> QED BY <2>3, <2>5, <3>5, <4>1 DEF PathOK
      <3> QED BY <2>5, <3>1, <3>2, <3>3, <3>4, <3>5
    <2> QED BY <2>2, <2>4, <2>5
  <1> HIDE DEF P
  <1>4. Nat \subseteq P
    BY <1>2, <1>3, Counting
  <1>5. Ok(N, climb[N])
    BY <1>0, <1>4 DEF P
  <1>6. CASE PathOK(file, done, c, climb[N]) /\ Len(climb[N]) = N + 1
    BY <1>0, <1>6, DistinctIsShort DEF PathOK, Good
  <1> QED BY <1>1, <1>5, <1>6

-----------------------------------------------------------------------------
(* What the loop over the file makes *)

\* Chunks of the file, none twice, each after the one it stands on.
OrderedOK(file, s) ==
    /\ s \in Seq(Listed(file)) /\ Distinct(s)
    /\ \A i \in 1..Len(s) : \/ ParentOf(s[i]) = Root
                            \/ \E j \in 1..(i - 1) : s[j].id = ParentOf(s[i])

\* The chunks s, and after them those of a path in the opposite order.
Joined(s, path) == s \o Reverse(path)

\* What is in ordered once a visit's path is put behind it, parents first.
LEMMA JoinedIs ==
  ASSUME NEW X, NEW s, NEW path, s \in Seq(X), path \in Seq(X)
  PROVE  /\ Joined(s, path) \in Seq(X)
         /\ Len(Joined(s, path)) = Len(s) + Len(path)
         /\ \A i \in 1..Len(s) : Joined(s, path)[i] = s[i]
         /\ \A i \in 1..Len(path) :
               Joined(s, path)[Len(s) + i] = path[Len(path) - i + 1]
  <1>1. Reverse(path) \in Seq(X) /\ Len(Reverse(path)) = Len(path)
    BY DEF Reverse
  <1>2. \A i \in 1..Len(path) : Reverse(path)[i] = path[Len(path) - i + 1]
    BY DEF Reverse
  <1> DEFINE r == Reverse(path)
  <1> HIDE DEF r
  <1>3. r \in Seq(X) /\ Len(r) = Len(path)
    BY <1>1 DEF r
  <1>4. /\ Len(s \o r) = Len(s) + Len(r) /\ s \o r \in Seq(X)
        /\ \A i \in 1..(Len(s) + Len(r)) :
              (s \o r)[i] = IF i <= Len(s) THEN s[i] ELSE r[i - Len(s)]
    BY <1>3, ConcatProperties
  <1>5. Joined(s, path) = s \o r
    BY DEF Joined, r
  <1>6. ASSUME NEW i \in 1..Len(path)
        PROVE  (s \o r)[Len(s) + i] = path[Len(path) - i + 1]
    <2>1. (s \o r)[Len(s) + i] = r[i]
      BY <1>3, <1>4
    <2> QED BY <1>2, <2>1 DEF r
  <1> QED BY <1>3, <1>4, <1>5, <1>6

\* The ids of a sequence of chunks, by place.
LEMMA IdsAre ==
  ASSUME NEW X, NEW s \in Seq(X)
  PROVE  /\ \A i \in 1..Len(s) : s[i].id \in IdsOf(s)
         /\ \A id \in IdsOf(s) : \E i \in 1..Len(s) : s[i].id = id
  BY DEF IdsOf, ToSet

\* The chunks of a visit may follow those visited before.
LEMMA JoinedOrdered ==
  ASSUME NEW file, NEW s, OrderedOK(file, s), NEW c, NEW path,
         PathOK(file, IdsOf(s), c, path), Stops(IdsOf(s), path)
  PROVE  /\ OrderedOK(file, Joined(s, path))
         /\ IdsOf(s) \union {c.id} \subseteq IdsOf(Joined(s, path))
  <1> DEFINE t == Joined(s, path)
             m == Len(s)
             k == Len(path)
  <1>0. m \in Nat /\ k \in Nat \ {0} /\ s \in Seq(Listed(file)) /\ path \in Seq(Listed(file))
    BY DEF OrderedOK, PathOK
  <1>1. /\ t \in Seq(Listed(file)) /\ Len(t) = m + k
        /\ \A i \in 1..m : t[i] = s[i]
        /\ \A i \in 1..k : t[m + i] = path[k - i + 1]
    <2>1. /\ Joined(s, path) \in Seq(Listed(file))
          /\ Len(Joined(s, path)) = Len(s) + Len(path)
          /\ \A i \in 1..Len(s) : Joined(s, path)[i] = s[i]
          /\ \A i \in 1..Len(path) : Joined(s, path)[Len(s) + i] = path[Len(path) - i + 1]
      <3> HIDE DEF t, m, k
      <3>1. s \in Seq(Listed(file)) /\ path \in Seq(Listed(file))
        BY <1>0
      <3> DEFINE X == Listed(file)
      <3>2. s \in Seq(X) /\ path \in Seq(X)
        BY <3>1
      <3> HIDE DEF X
      <3>3. /\ Joined(s, path) \in Seq(X)
            /\ Len(Joined(s, path)) = Len(s) + Len(path)
            /\ \A i \in 1..Len(s) : Joined(s, path)[i] = s[i]
            /\ \A i \in 1..Len(path) :
                  Joined(s, path)[Len(s) + i] = path[Len(path) - i + 1]
        BY <3>2, JoinedIs
      <3> QED BY <3>3 DEF X
    <2> QED BY <2>1
  <1> HIDE DEF t, m, k
  <1>2. ASSUME NEW i \in 1..Len(t)
        PROVE  i \in 1..m \/ \E a \in 1..k : i = m + a
    <2>1. CASE i > m
      <3>1. i - m \in 1..k /\ i = m + (i - m)
        BY <1>0, <1>1, <2>1
      <3> QED BY <3>1
    <2> QED BY <1>0, <1>1, <2>1
  <1>3. \A i \in 1..m, a \in 1..k : s[i].id # path[a].id
    <2>1. \A i \in 1..m : s[i].id \in IdsOf(s)
      BY <1>0, IdsAre DEF m
    <2>2. \A a \in 1..k : path[a].id \notin IdsOf(s)
      BY DEF PathOK, k
    <2> QED BY <2>1, <2>2
  <1>4. \A a, b \in 1..k : a # b => path[a].id # path[b].id
    BY <1>0 DEF PathOK, Distinct, k
  <1>5. \A i, j \in 1..m : i # j => s[i].id # s[j].id
    BY <1>0 DEF OrderedOK, Distinct, m
  <1>6. \A a \in 1..k : k - a + 1 \in 1..k
    BY <1>0
  <1>7. ASSUME NEW i \in 1..Len(t), NEW j \in 1..Len(t), i # j
        PROVE  t[i].id # t[j].id
    <2>1. CASE i \in 1..m /\ j \in 1..m
      BY <1>1, <1>5, <1>7, <2>1
    <2>2. ASSUME NEW a \in 1..k, i = m + a, j \in 1..m PROVE t[i].id # t[j].id
      BY <1>1, <1>3, <1>6, <2>2
    <2>3. ASSUME NEW a \in 1..k, j = m + a, i \in 1..m PROVE t[i].id # t[j].id
      BY <1>1, <1>3, <1>6, <2>3
    <2>4. ASSUME NEW a \in 1..k, NEW b \in 1..k, i = m + a, j = m + b
          PROVE  t[i].id # t[j].id
      <3>1. t[i] = path[k - a + 1] /\ t[j] = path[k - b + 1]
        BY <1>1, <2>4
      <3>2. k - a + 1 # k - b + 1
        BY <1>0, <1>7, <2>4
      <3> QED BY <1>4, <1>6, <3>1, <3>2
    <2> QED BY <1>2, <2>1, <2>2, <2>3, <2>4
  <1>8. ASSUME NEW i \in 1..m
        PROVE  ParentOf(t[i]) = Root \/ \E j \in 1..(i - 1) : t[j].id = ParentOf(t[i])
    <2>1. t[i] = s[i] /\ \A j \in 1..(i - 1) : j \in 1..m /\ t[j] = s[j]
      BY <1>0, <1>1
    <2>2. ParentOf(s[i]) = Root \/ \E j \in 1..(i - 1) : s[j].id = ParentOf(s[i])
      BY DEF OrderedOK, m
    <2> QED BY <2>1, <2>2
  <1>9. ASSUME NEW a \in 1..k
        PROVE  \/ ParentOf(t[m + a]) = Root
               \/ \E j \in 1..((m + a) - 1) : t[j].id = ParentOf(t[m + a])
    <2>1. t[m + a] = path[k - a + 1]
      BY <1>1
    <2>2. CASE a = 1
      <3>1. t[m + a] = path[k]
        BY <1>0, <2>1, <2>2
      <3>2. ParentOf(path[k]) = Root \/ ParentOf(path[k]) \in IdsOf(s)
        BY DEF Stops, k
      <3>3. CASE ParentOf(path[k]) \in IdsOf(s)
        <4>1. PICK j \in 1..m : s[j].id = ParentOf(path[k])
          BY <1>0, <3>3 DEF IdsOf, ToSet, m
        <4>2. j \in 1..((m + a) - 1) /\ t[j] = s[j]
          BY <1>0, <1>1, <2>2
        <4> QED BY <3>1, <4>1, <4>2
      <3> QED BY <3>1, <3>2, <3>3
    <2>3. CASE a # 1
      <3> DEFINE b == k - a + 1
      <3>1. b \in 1..(k - 1) /\ b + 1 = k - (a - 1) + 1
            /\ a - 1 \in 1..k /\ m + (a - 1) \in 1..((m + a) - 1)
        BY <1>0, <2>3
      <3>2. path[b + 1].id = ParentOf(path[b])
        BY <3>1 DEF PathOK, k
      <3>3. t[m + (a - 1)] = path[b + 1]
        BY <1>1, <3>1
      <3> QED BY <2>1, <3>1, <3>2, <3>3
    <2> QED BY <2>2, <2>3
  <1>10. OrderedOK(file, t)
    <2>1. Distinct(t)
      BY <1>7 DEF Distinct
    <2>2. ASSUME NEW i \in 1..Len(t)
          PROVE  ParentOf(t[i]) = Root \/ \E j \in 1..(i - 1) : t[j].id = ParentOf(t[i])
      BY <1>2, <1>8, <1>9
    <2> QED BY <1>1, <2>1, <2>2 DEF OrderedOK
  <1>11. \A i \in 1..m : i \in 1..Len(t)
    BY <1>0, <1>1
  <1>12. IdsOf(s) \subseteq IdsOf(t)
    <2>1. \A id \in IdsOf(s) : \E i \in 1..m : s[i].id = id
      BY <1>0, IdsAre DEF m
    <2>2. \A i \in 1..Len(t) : t[i].id \in IdsOf(t)
      BY <1>1, IdsAre
    <2>3. ASSUME NEW id \in IdsOf(s) PROVE id \in IdsOf(t)
      <3>1. PICK i \in 1..m : s[i].id = id
        BY <2>1
      <3>2. i \in 1..Len(t) /\ t[i].id = id
        BY <1>1, <1>11, <3>1
      <3> QED BY <2>2, <3>2
    <2> QED BY <2>3
  <1>13. m + k \in 1..Len(t) /\ t[m + k] = path[1]
    <2>1. k \in 1..k /\ k - k + 1 = 1 /\ m + k \in 1..(m + k)
      BY <1>0
    <2>2. t[m + k] = path[k - k + 1]
      BY <1>1, <2>1
    <2> QED BY <1>1, <2>1, <2>2
  <1>14. c.id \in IdsOf(t)
    <2>1. \A i \in 1..Len(t) : t[i].id \in IdsOf(t)
      BY <1>1, IdsAre
    <2> QED BY <1>13, <2>1 DEF PathOK
  <1> QED BY <1>10, <1>12, <1>14 DEF t

HasRing(file) == \E done, c, path : PathOK(file, done, c, path) /\ IsRing(path)

\* Refused because of a ring, or in order.
OrderState(file, ordered) ==
    \/ ordered = Refused /\ HasRing(file)
    \/ OrderedOK(file, ordered)

\* The loop of _order keeps what it made sane, and visits every chunk.
LEMMA VisitEachIs ==
  ASSUME NEW file, Good(file), NEW c \in Listed(file), NEW ordered, OrderState(file, ordered)
  PROVE  LET then == VisitEach(file, ordered, c)
         IN  /\ OrderState(file, then)
             /\ then # Refused => /\ ordered # Refused
                                  /\ IdsOf(ordered) \union {c.id} \subseteq IdsOf(then)
  <1> DEFINE then == VisitEach(file, ordered, c)
             more == Visit(file, IdsOf(ordered), c)
  <1>0. OrderedOK(file, ordered) => ordered # Refused
    BY DEF OrderedOK, Good
  <1>1. CASE ordered = Refused
    <2>1. then = Refused
      BY <1>1 DEF VisitEach
    <2> QED BY <1>1, <2>1
  <1>2. CASE OrderedOK(file, ordered) /\ c.id \in IdsOf(ordered)
    <2>1. then = ordered
      BY <1>0, <1>2 DEF VisitEach, IdsOf
    <2> QED BY <1>0, <1>2, <2>1
  <1>3. CASE OrderedOK(file, ordered) /\ c.id \notin IdsOf(ordered)
    <2>1. then = IF more = Refused THEN Refused ELSE Joined(ordered, more)
      BY <1>0, <1>3 DEF VisitEach, IdsOf, Joined
    <2>2. \/ more = Refused /\ \E path : PathOK(file, IdsOf(ordered), c, path) /\ IsRing(path)
          \/ PathOK(file, IdsOf(ordered), c, more) /\ Stops(IdsOf(ordered), more)
      <3> DEFINE done == IdsOf(ordered)
      <3> HIDE DEF done
      <3>1. c.id \notin done
        BY <1>3 DEF done
      <3>2. \/ /\ Visit(file, done, c) = Refused
               /\ \E path : PathOK(file, done, c, path) /\ IsRing(path)
            \/ /\ PathOK(file, done, c, Visit(file, done, c))
               /\ Stops(done, Visit(file, done, c))
        BY <3>1, VisitIs
      <3> QED BY <3>2 DEF done
    <2> HIDE DEF more, then
    <2>3. CASE more = Refused /\ \E path : PathOK(file, IdsOf(ordered), c, path) /\ IsRing(path)
      <3>1. then = Refused /\ HasRing(file)
        BY <2>1, <2>3 DEF HasRing
      <3> QED BY <3>1 DEF OrderState, then
    <2>4. CASE PathOK(file, IdsOf(ordered), c, more) /\ Stops(IdsOf(ordered), more)
      <3>1. more # Refused
        BY <2>4 DEF PathOK, Good
      <3>2. /\ OrderedOK(file, Joined(ordered, more))
            /\ IdsOf(ordered) \union {c.id} \subseteq IdsOf(Joined(ordered, more))
        BY <1>3, <2>4, JoinedOrdered
      <3> QED BY <1>0, <1>3, <2>1, <3>1, <3>2 DEF OrderState, then
    <2> QED BY <2>2, <2>3, <2>4
  <1> QED BY <1>1, <1>2, <1>3 DEF OrderState

\* What the loop may have made so far.
Orders(file) == {s \in Seq(Listed(file)) \union {Refused} : OrderState(file, s)}

\* Orders(file) is the set of the sequences in OrderState.
LEMMA OrdersAre ==
  ASSUME NEW file, NEW s
  PROVE  s \in Orders(file) <=> OrderState(file, s)
  BY DEF Orders, OrderState, OrderedOK

\* Order(file) is the last of the sequences that VisitEach makes one after the
\* other, each of them sane.
LEMMA OrderIsRecursive ==
  ASSUME NEW file, Good(file), Distinct(file.chunks)
  PROVE  \E ordered :
            /\ \A n \in 0..Len(file.chunks) : OrderState(file, ordered[n])
            /\ \A n \in 1..Len(file.chunks) :
                  ordered[n] = VisitEach(file, ordered[n - 1], file.chunks[n])
            /\ Order(file) = ordered[Len(file.chunks)]
  <1> DEFINE N == Len(file.chunks)
             S == Orders(file)
             steps == [p \in (1..N) \X S |-> VisitEach(file, p[2], file.chunks[p[1]])]
             ordered[n \in 0..N] == IF n = 0 THEN <<>>
                                    ELSE VisitEach(file, ordered[n - 1], file.chunks[n])
  <1>1. N \in Nat /\ \A n \in 1..N : file.chunks[n] \in Listed(file)
    BY DEF Good
  <1>2. <<>> \in S
    <2> DEFINE none == <<>>
    <2>1. none \in Seq(Listed(file)) /\ Len(none) = 0
      BY EmptySeq
    <2> HIDE DEF none
    <2>2. OrderedOK(file, none)
      BY <2>1 DEF OrderedOK, Distinct
    <2> QED BY <2>2, OrdersAre DEF none, OrderState
  <1>3. \A n \in 1..N, s \in S : VisitEach(file, s, file.chunks[n]) \in S
    BY <1>1, OrdersAre, VisitEachIs
  <1> HIDE DEF S
  <1>4. steps \in [(1..N) \X S -> S]
    BY <1>3
  <1>5. PICK g : Iterates(g, S, <<>>, N, steps)
    <2> HIDE DEF steps, N
    <2> QED BY <1>1, <1>2, <1>4, StepsExist
  <1>6. ASSUME NEW n \in 1..N
        PROVE  g[n] = VisitEach(file, g[n - 1], file.chunks[n])
    <2>1. n - 1 \in 0..N
      BY <1>1
    <2>2. g[n - 1] \in S
      BY <1>5, <2>1 DEF Iterates
    <2>3. steps[<<n, g[n - 1]>>] = VisitEach(file, g[n - 1], file.chunks[n])
      BY <2>2
    <2> QED BY <1>5, <2>3 DEF Iterates
  <1>7. g = [n \in 0..N |-> IF n = 0 THEN <<>> ELSE VisitEach(file, g[n - 1], file.chunks[n])]
    BY <1>1, <1>5, <1>6 DEF Iterates
  <1>8. ordered = [n \in 0..N |-> IF n = 0 THEN <<>>
                                  ELSE VisitEach(file, ordered[n - 1], file.chunks[n])]
    <2> HIDE DEF N
    <2>1. SUFFICES \E h : h = [n \in 0..N |-> IF n = 0 THEN <<>>
                                              ELSE VisitEach(file, h[n - 1], file.chunks[n])]
      OBVIOUS
    <2> QED BY <1>7
  <1>9. Order(file) = ordered[N]
    <2>1. ~\E i, j \in DOMAIN file.chunks : i # j /\ file.chunks[i].id = file.chunks[j].id
      BY DEF Distinct, Good
    <2>2. ~\E c \in Listed(file) : ParentOf(c) \notin FileIds(file) \union {Root}
      BY DEF Good
    <2> QED BY <2>1, <2>2 DEF Order
  <1> HIDE DEF ordered
  <1>10. ordered[0] = <<>> /\ \A n \in 1..N :
                                ordered[n] = VisitEach(file, ordered[n - 1], file.chunks[n])
    <2>1. \A n \in 0..N : ordered[n] = IF n = 0 THEN <<>>
                                       ELSE VisitEach(file, ordered[n - 1], file.chunks[n])
      BY <1>8, Zenon
    <2> HIDE DEF N
    <2> QED BY <1>1, <2>1
  <1>11. \A n \in 0..N : ordered[n] \in S
    <2> DEFINE P == {n \in Nat : n <= N => ordered[n] \in S}
    <2>1. 0 \in P
      BY <1>2, <1>10
    <2>2. ASSUME NEW n \in Nat, n \in P
          PROVE  n + 1 \in P
      <3>1. SUFFICES ASSUME n + 1 <= N PROVE ordered[n + 1] \in S
        OBVIOUS
      <3>2. /\ ordered[n] \in S /\ n + 1 \in 1..N
            /\ ordered[n + 1] = VisitEach(file, ordered[n], file.chunks[n + 1])
        BY <1>1, <1>10, <2>2, <3>1
      <3> QED BY <1>3, <3>2
    <2> HIDE DEF P
    <2>3. Nat \subseteq P
      BY <2>1, <2>2, Counting
    <2> QED BY <1>1, <2>3 DEF P
  <1>12. \A n \in 0..N : OrderState(file, ordered[n])
    BY <1>11, OrdersAre DEF S
  <1> QED BY <1>9, <1>10, <1>12

\* _order refuses only a ring, and otherwise returns every chunk after its
\* parent.
LEMMA OrderIs ==
  ASSUME NEW file, Good(file), Distinct(file.chunks)
  PROVE  \/ Order(file) = Refused /\ HasRing(file)
         \/ OrderedOK(file, Order(file)) /\ FileIds(file) \subseteq IdsOf(Order(file))
  <1> DEFINE N == Len(file.chunks)
  <1>0. N \in Nat /\ \A n \in 1..N : file.chunks[n] \in Listed(file)
    BY DEF Good
  <1>1. PICK ordered :
            /\ \A n \in 0..Len(file.chunks) : OrderState(file, ordered[n])
            /\ \A n \in 1..Len(file.chunks) :
                  ordered[n] = VisitEach(file, ordered[n - 1], file.chunks[n])
            /\ Order(file) = ordered[Len(file.chunks)]
    BY OrderIsRecursive
  <1> DEFINE P == {n \in Nat : n <= N /\ ordered[n] # Refused =>
                                  \A i \in 1..n : file.chunks[i].id \in IdsOf(ordered[n])}
  <1>2. 0 \in P
    OBVIOUS
  <1>3. ASSUME NEW n \in Nat, n \in P PROVE n + 1 \in P
    <2>1. SUFFICES ASSUME n + 1 <= N, ordered[n + 1] # Refused, NEW i \in 1..(n + 1)
                   PROVE  file.chunks[i].id \in IdsOf(ordered[n + 1])
      OBVIOUS
    <2> DEFINE here == ordered[n]
               c == file.chunks[n + 1]
    <2>2. n \in 0..N /\ n + 1 \in 1..N
      BY <1>0, <2>1
    <2>3. OrderState(file, here) /\ ordered[n + 1] = VisitEach(file, here, c)
      BY <1>1, <2>2
    <2>4. c \in Listed(file)
      BY <1>0, <2>2
    <2>5. here # Refused => \A j \in 1..n : file.chunks[j].id \in IdsOf(here)
      BY <1>3, <2>1
    <2> HIDE DEF here, c
    <2>6. here # Refused /\ IdsOf(here) \union {c.id} \subseteq IdsOf(ordered[n + 1])
      BY <2>1, <2>3, <2>4, VisitEachIs
    <2>7. CASE i = n + 1
      BY <2>6, <2>7 DEF c
    <2>8. CASE i \in 1..n
      BY <2>5, <2>6, <2>8
    <2> QED BY <2>7, <2>8
  <1> HIDE DEF P
  <1>4. Nat \subseteq P
    BY <1>2, <1>3, Counting
  <1>5. Order(file) # Refused => \A i \in 1..N : file.chunks[i].id \in IdsOf(Order(file))
    BY <1>0, <1>1, <1>4 DEF P
  <1>6. OrderState(file, Order(file))
    BY <1>0, <1>1
  <1>7. ASSUME Order(file) # Refused, NEW id \in FileIds(file)
        PROVE  id \in IdsOf(Order(file))
    <2>1. PICK c \in Listed(file) : c.id = id
      BY <1>7 DEF FileIds
    <2>2. PICK i \in 1..N : c = file.chunks[i]
      BY DEF Listed, ToSet, Good
    <2> QED BY <1>5, <1>7, <2>1, <2>2
  <1>8. OrderedOK(file, Order(file)) => Order(file) # Refused
    BY DEF OrderedOK, Good
  <1> QED BY <1>6, <1>7, <1>8 DEF OrderState

-----------------------------------------------------------------------------
(* Who stands on whom *)

\* A file that _order does not refuse at once: every id is listed once, every
\* parent is listed, and there is one at most.
OneParent(file) ==
    /\ Shaped(file) /\ Good(file) /\ Distinct(file.chunks)
    /\ \A c \in Listed(file) : Len(c.requires) <= 1

Up(file, a, b) == \E c \in Listed(file) : c.id = b /\ a \in ToSet(c.requires)

Way(file, way, n) ==
    way \in [0..n -> FileIds(file)] /\ \A i \in 1..n : Up(file, way[i], way[i - 1])

\* Above, with the ways it quantifies over named.
LEMMA AboveIs ==
  ASSUME NEW file, NEW a, NEW b
  PROVE  <<a, b>> \in Above(file) <=>
            \E n \in 1..Cardinality(FileIds(file)) : \E way :
                Way(file, way, n) /\ way[n] = a /\ way[0] = b
  <1> DEFINE Ways(n) == {way \in [0..n -> FileIds(file)] :
                            \A i \in 1..n : Up(file, way[i], way[i - 1])}
  <1>1. Above(file) = UNION {{<<way[n], way[0]>> : way \in Ways(n)} :
                                n \in 1..Cardinality(FileIds(file))}
    BY DEF Above, Up
  <1>2. \A n, way : way \in Ways(n) <=> Way(file, way, n)
    BY DEF Way
  <1> HIDE DEF Ways
  <1> QED BY <1>1, <1>2

\* Where no id is listed twice, an id names one chunk.
LEMMA OneOfAnId ==
  ASSUME NEW file, file.chunks \in Seq(Listed(file)), Distinct(file.chunks),
         NEW c \in Listed(file), NEW d \in Listed(file), c.id = d.id
  PROVE  c = d
  <1>1. PICK i \in 1..Len(file.chunks) : file.chunks[i] = c
    BY DEF Listed, ToSet
  <1>2. PICK j \in 1..Len(file.chunks) : file.chunks[j] = d
    BY DEF Listed, ToSet
  <1> QED BY <1>1, <1>2 DEF Distinct

\* With one parent at most, the only step up from a chunk is its parent.
LEMMA UpIsParent ==
  ASSUME NEW file, OneParent(file), NEW c \in Listed(file), NEW a
  PROVE  Up(file, a, c.id) <=> a = ParentOf(c) /\ a # Root
  <1>1. \A d \in Listed(file) : d.id = c.id => d = c
    BY OneOfAnId DEF OneParent, Good
  <1>2. Up(file, a, c.id) <=> a \in ToSet(c.requires)
    BY <1>1 DEF Up
  <1>3. c.requires \in Seq(ToSet(c.requires)) /\ Len(c.requires) <= 1
        /\ Root \notin ToSet(c.requires)
    BY DEF OneParent, Shaped
  <1>4. CASE c.requires = <<>>
    <2>1. ToSet(c.requires) = {}
      BY <1>4 DEF ToSet
    <2> QED BY <1>2, <1>4, <2>1 DEF ParentOf
  <1>5. CASE c.requires # <<>>
    <2>1. DOMAIN c.requires = {1}
      BY <1>3, <1>5, EmptySeq
    <2>2. ToSet(c.requires) = {c.requires[1]}
      BY <2>1 DEF ToSet
    <2> QED BY <1>2, <1>3, <1>5, <2>2 DEF ParentOf
  <1> QED BY <1>4, <1>5

\* A file has finitely many ids.
LEMMA IdsFinite ==
  ASSUME NEW file, file.chunks \in Seq(Listed(file))
  PROVE  IsFiniteSet(FileIds(file)) /\ Cardinality(FileIds(file)) \in Nat
  <1> DEFINE f == [c \in Listed(file) |-> c.id]
  <1>1. f \in Surjection(Listed(file), FileIds(file))
    BY DEF Surjection, FileIds
  <1>2. IsFiniteSet(FileIds(file))
    BY <1>1, ListedFinite, FS_Surjection
  <1> QED BY <1>2, FS_CardinalityType

\* A sequence without an id twice is no longer than the file has ids.
LEMMA DistinctAmongIds ==
  ASSUME NEW file, file.chunks \in Seq(Listed(file)), NEW s \in Seq(Listed(file)), Distinct(s)
  PROVE  Len(s) <= Cardinality(FileIds(file))
  <1> DEFINE f == [i \in 1..Len(s) |-> s[i].id]
  <1>1. \A i \in 1..Len(s) : s[i].id \in FileIds(file)
    BY DEF FileIds
  <1>2. f \in Injection(1..Len(s), FileIds(file))
    BY <1>1 DEF Injection, IsInjective, Distinct
  <1>3. Cardinality(1..Len(s)) = Len(s)
    BY FS_Interval
  <1>4. Cardinality(1..Len(s)) <= Cardinality(FileIds(file))
    BY <1>2, IdsFinite, FS_Injection
  <1> QED BY <1>3, <1>4

\* Where a visit found a ring, a chunk stands on itself.
LEMMA RingIsAbove ==
  ASSUME NEW file, OneParent(file), HasRing(file)
  PROVE  \E id \in FileIds(file) : <<id, id>> \in Above(file)
  <1>1. PICK done, c, path : PathOK(file, done, c, path) /\ IsRing(path)
    BY DEF HasRing
  <1> DEFINE k == Len(path)
             parent == ParentOf(path[k])
  <1>2. path \in Seq(Listed(file)) /\ Distinct(path) /\ k \in Nat \ {0}
        /\ \A i \in 1..(k - 1) : path[i + 1].id = ParentOf(path[i])
    BY <1>1 DEF PathOK
  <1>3. PICK j \in 1..k : parent = path[j].id
    BY <1>1 DEF IsRing
  <1> DEFINE n == k - j + 1
             way == [i \in 0..n |-> IF i = n THEN path[j].id ELSE path[j + i].id]
  <1>4. \A i \in 1..k : path[i] \in Listed(file) /\ path[i].id \in FileIds(file)
    BY <1>2 DEF FileIds
  <1>5. n \in 1..k /\ j + (n - 1) = k /\ \A i \in 0..(n - 1) : j + i \in 1..k
    BY <1>2
  <1> HIDE DEF n, k
  <1>6. way \in [0..n -> FileIds(file)]
    BY <1>4, <1>5
  <1>7. ASSUME NEW i \in 1..n PROVE Up(file, way[i], way[i - 1])
    <2>1. i - 1 \in 0..(n - 1)
      BY <1>5
    <2>2. j + (i - 1) \in 1..k
      BY <1>5, <2>1
    <2> DEFINE here == path[j + (i - 1)]
    <2>3. here \in Listed(file)
      BY <1>4, <2>2
    <2>4. way[i - 1] = here.id
      BY <1>5, <2>1
    <2>5. way[i] = ParentOf(here)
      <3>1. CASE i = n
        BY <1>3, <1>5, <3>1
      <3>2. CASE i # n
        <4>1. i \in 0..n /\ way[i] = path[j + i].id
          BY <1>5, <3>2
        <4>2. j + (i - 1) \in 1..(k - 1) /\ (j + (i - 1)) + 1 = j + i
          BY <1>5, <2>2, <3>2
        <4> QED BY <1>2, <4>1, <4>2
      <3> QED BY <3>1, <3>2
    <2>6. way[i] \in FileIds(file)
      BY <1>5, <1>6
    <2>7. Root \notin FileIds(file)
      BY DEF OneParent, Shaped, FileIds
    <2> HIDE DEF here, way
    <2> QED BY <2>3, <2>4, <2>5, <2>6, <2>7, UpIsParent
  <1>8. n \in 1..Cardinality(FileIds(file))
    <2>1. k <= Cardinality(FileIds(file)) /\ Cardinality(FileIds(file)) \in Nat
      BY <1>2, DistinctAmongIds, IdsFinite DEF OneParent, Good, k
    <2> QED BY <1>2, <1>5, <2>1
  <1>9. way[0] = path[j].id /\ way[n] = path[j].id
    BY <1>5
  <1>10. Way(file, way, n)
    BY <1>6, <1>7 DEF Way
  <1> HIDE DEF way
  <1>11. <<path[j].id, path[j].id>> \in Above(file)
    BY <1>8, <1>9, <1>10, AboveIs
  <1> QED BY <1>3, <1>4, <1>11

\* Each step up of a way leads to a chunk that comes before.
LEMMA WayDescends ==
  ASSUME NEW file, OneParent(file), NEW s, OrderedOK(file, s), NEW n \in Nat, NEW way,
         Way(file, way, n), NEW j \in 1..Len(s), way[0] = s[j].id
  PROVE  \A m \in 0..n : \E i \in 1..(j - m) : s[i].id = way[m]
  <1>0. s \in Seq(Listed(file)) /\ Len(s) \in Nat
    BY DEF OrderedOK
  <1> DEFINE P == {m \in Nat : m <= n => \E i \in 1..(j - m) : s[i].id = way[m]}
  <1>1. 0 \in P
    <2>1. j \in 1..(j - 0) /\ s[j].id = way[0]
      BY <1>0
    <2> QED BY <2>1
  <1>2. ASSUME NEW m \in Nat, m \in P PROVE m + 1 \in P
    <2>1. SUFFICES ASSUME m + 1 <= n
                   PROVE  \E i \in 1..(j - (m + 1)) : s[i].id = way[m + 1]
      OBVIOUS
    <2>2. PICK i \in 1..(j - m) : s[i].id = way[m]
      BY <1>2, <2>1
    <2>3. i \in 1..Len(s) /\ m + 1 \in 1..n /\ (m + 1) - 1 = m
      BY <1>0, <2>1
    <2>4. Up(file, way[m + 1], s[i].id)
      BY <2>2, <2>3 DEF Way
    <2>5. s[i] \in Listed(file)
      BY <1>0, <2>3
    <2>6. way[m + 1] = ParentOf(s[i]) /\ way[m + 1] # Root
      BY <2>4, <2>5, UpIsParent
    <2>7. PICK h \in 1..(i - 1) : s[h].id = way[m + 1]
      BY <2>3, <2>6 DEF OrderedOK
    <2>8. h \in 1..(j - (m + 1))
      BY <1>0, <2>3
    <2> QED BY <2>7, <2>8
  <1> HIDE DEF P
  <1>3. Nat \subseteq P
    BY <1>1, <1>2, Counting
  <1>4. ASSUME NEW m \in 0..n PROVE \E i \in 1..(j - m) : s[i].id = way[m]
    <2>1. m \in P /\ m <= n
      BY <1>3
    <2> QED BY <2>1 DEF P
  <1> QED BY <1>4

\* What is reached by going up comes before.
LEMMA AboveIsBefore ==
  ASSUME NEW file, OneParent(file), NEW s, OrderedOK(file, s),
         NEW a, NEW j \in 1..Len(s), <<a, s[j].id>> \in Above(file)
  PROVE  \E i \in 1..(j - 1) : s[i].id = a
  <1>1. PICK n \in 1..Cardinality(FileIds(file)) : \E way :
                Way(file, way, n) /\ way[n] = a /\ way[0] = s[j].id
    BY AboveIs
  <1>2. PICK way : Way(file, way, n) /\ way[n] = a /\ way[0] = s[j].id
    BY <1>1
  <1>3. n \in Nat \ {0} /\ Len(s) \in Nat
    BY IdsFinite DEF OneParent, Good, OrderedOK
  <1>4. PICK i \in 1..(j - n) : s[i].id = way[n]
    BY <1>2, <1>3, WayDescends
  <1>5. i \in 1..(j - 1)
    BY <1>3
  <1> QED BY <1>2, <1>4, <1>5

-----------------------------------------------------------------------------
(* What is claimed *)

\* Nothing is listed twice where there are as many elements as places.
LEMMA OnceIsCounted ==
  ASSUME NEW X, NEW s \in Seq(X)
  PROVE  IsInjective(s) <=> Cardinality(ToSet(s)) = Len(s)
  <1>1. s \in Surjection(1..Len(s), ToSet(s))
    <2>1. DOMAIN s = 1..Len(s) /\ s = [i \in 1..Len(s) |-> s[i]]
      OBVIOUS
    <2>2. ToSet(s) = {s[i] : i \in 1..Len(s)}
      BY <2>1 DEF ToSet
    <2>3. \A i \in 1..Len(s) : s[i] \in ToSet(s)
      BY <2>2
    <2>4. s \in [1..Len(s) -> ToSet(s)]
      BY <2>1, <2>3
    <2>5. \A x \in ToSet(s) : \E i \in 1..Len(s) : s[i] = x
      BY <2>2
    <2> QED BY <2>4, <2>5 DEF Surjection
  <1>2. IsFiniteSet(1..Len(s)) /\ Cardinality(1..Len(s)) = Len(s)
    <2> DEFINE n == Len(s)
    <2>1. n \in Nat
      OBVIOUS
    <2> HIDE DEF n
    <2>2. IsFiniteSet(1..n) /\ Cardinality(1..n) = n
      BY <2>1, FS_Interval
    <2> QED BY <2>2 DEF n
  <1>3. Cardinality(ToSet(s)) = Cardinality(1..Len(s)) <=> s \in Injection(1..Len(s), ToSet(s))
    BY <1>1, <1>2, FS_Surjection
  <1>4. s \in Injection(1..Len(s), ToSet(s)) <=> IsInjective(s)
    BY <1>1 DEF Injection, Surjection
  <1> QED BY <1>2, <1>3, <1>4

\* The elements of two sequences, joined.
LEMMA ElementsOfBoth ==
  ASSUME NEW X, NEW s, NEW t, s \in Seq(X), t \in Seq(X)
  PROVE  s \o t \in Seq(X) /\ ToSet(s \o t) = ToSet(s) \union ToSet(t)
  <1> DEFINE m == Len(s)
             k == Len(t)
             st == s \o t
  <1>1. m \in Nat /\ k \in Nat /\ st \in Seq(X) /\ Len(st) = m + k
        /\ \A i \in 1..(m + k) : st[i] = IF i <= m THEN s[i] ELSE t[i - m]
    BY ConcatProperties
  <1>2. /\ ToSet(s) = {s[i] : i \in 1..m} /\ ToSet(t) = {t[i] : i \in 1..k}
        /\ ToSet(st) = {st[i] : i \in 1..(m + k)}
    BY <1>1 DEF ToSet
  <1> HIDE DEF m, k, st
  <1>3. ASSUME NEW x \in ToSet(s) PROVE x \in ToSet(st)
    <2>1. PICK i \in 1..m : x = s[i]
      BY <1>2
    <2>2. i \in 1..(m + k) /\ st[i] = x
      BY <1>1, <2>1
    <2> QED BY <1>2, <2>2
  <1>4. ASSUME NEW x \in ToSet(t) PROVE x \in ToSet(st)
    <2>1. PICK i \in 1..k : x = t[i]
      BY <1>2
    <2>2. m + i \in 1..(m + k) /\ st[m + i] = x
      BY <1>1, <2>1
    <2> QED BY <1>2, <2>2
  <1>5. ASSUME NEW x \in ToSet(st) PROVE x \in ToSet(s) \union ToSet(t)
    <2>1. PICK i \in 1..(m + k) : x = st[i]
      BY <1>2
    <2>2. CASE i <= m
      BY <1>1, <1>2, <2>1, <2>2
    <2>3. CASE i > m
      <3>1. i - m \in 1..k /\ x = t[i - m]
        BY <1>1, <2>1, <2>3
      <3> QED BY <1>2, <3>1
    <2> QED BY <1>1, <2>2, <2>3
  <1>6. ToSet(st) = ToSet(s) \union ToSet(t)
    BY <1>3, <1>4, <1>5
  <1> QED BY <1>1, <1>6 DEF st

\* The elements of the sequences ss, joined.
LEMMA FlattenIs ==
  ASSUME NEW X, NEW ss \in Seq(Seq(X))
  PROVE  /\ FlattenSeq(ss) \in Seq(X)
         /\ \A x : x \in ToSet(FlattenSeq(ss)) <=> \E i \in 1..Len(ss) : x \in ToSet(ss[i])
  <1> DEFINE N == Len(ss)
             S == Seq(X)
             steps == [p \in (1..N) \X S |-> p[2] \o ss[p[1]]]
             flatten[i \in 1..N] == IF i = 1 THEN ss[i] ELSE flatten[i - 1] \o ss[i]
  <1>1. N \in Nat /\ \A n \in 1..N : ss[n] \in S
    OBVIOUS
  <1>2. <<>> \in S
    BY EmptySeq
  <1>3. \A n \in 1..N, s \in S : s \o ss[n] \in S
    BY <1>1, ElementsOfBoth
  <1> HIDE DEF S
  <1>4. steps \in [(1..N) \X S -> S]
    BY <1>3
  <1>5. PICK g : Iterates(g, S, <<>>, N, steps)
    <2> HIDE DEF steps, N
    <2> QED BY <1>1, <1>2, <1>4, StepsExist
  <1>6. ASSUME NEW n \in 1..N
        PROVE  g[n] = g[n - 1] \o ss[n] /\ g[n - 1] \in S
    <2>1. n - 1 \in 0..N
      BY <1>1
    <2>2. g[n - 1] \in S
      BY <1>5, <2>1 DEF Iterates
    <2>3. steps[<<n, g[n - 1]>>] = g[n - 1] \o ss[n]
      BY <2>2
    <2> QED BY <1>5, <2>2, <2>3 DEF Iterates
  <1>7. \A n \in 1..N : n = 1 => g[n] = ss[n]
    <2>1. SUFFICES ASSUME 1 \in 1..N PROVE g[1] = ss[1]
      OBVIOUS
    <2>2. g[1] = g[1 - 1] \o ss[1]
      BY <1>6, <2>1
    <2>3. g[0] = <<>>
      BY <1>5 DEF Iterates
    <2>4. 1 - 1 = 0
      OBVIOUS
    <2>5. <<>> \o ss[1] = ss[1]
      BY <1>1, <2>1, ConcatEmptySeq DEF S
    <2> QED BY <2>2, <2>3, <2>4, <2>5
  <1> DEFINE part == [n \in 1..N |-> g[n]]
  <1>8. part = [i \in 1..N |-> IF i = 1 THEN ss[i] ELSE part[i - 1] \o ss[i]]
    <2>1. ASSUME NEW i \in 1..N, i # 1 PROVE part[i - 1] = g[i - 1]
      BY <1>1, <2>1
    <2>2. \A i \in 1..N : part[i] = IF i = 1 THEN ss[i] ELSE part[i - 1] \o ss[i]
      BY <1>6, <1>7, <2>1
    <2> QED BY <2>2
  <1>9. flatten = [i \in 1..N |-> IF i = 1 THEN ss[i] ELSE flatten[i - 1] \o ss[i]]
    <2> HIDE DEF N, part
    <2>1. SUFFICES \E h : h = [i \in 1..N |-> IF i = 1 THEN ss[i] ELSE h[i - 1] \o ss[i]]
      OBVIOUS
    <2> QED BY <1>8
  <1>10. FlattenSeq(ss) = IF N = 0 THEN ss ELSE flatten[N]
    BY DEF FlattenSeq
  <1> HIDE DEF flatten
  <1>11. \A i \in 1..N : flatten[i] = IF i = 1 THEN ss[i] ELSE flatten[i - 1] \o ss[i]
    BY <1>9, Zenon
  <1> DEFINE All(n, s) == /\ s \in S
                          /\ \A x : x \in ToSet(s) <=> \E i \in 1..n : x \in ToSet(ss[i])
             P == {n \in Nat : n + 1 <= N => All(n + 1, flatten[n + 1])}
  <1>12. 0 \in P
    <2>1. SUFFICES ASSUME 1 <= N PROVE All(1, flatten[1])
      OBVIOUS
    <2>2. 1 \in 1..N /\ flatten[1] = ss[1]
      BY <1>1, <1>11, <2>1
    <2> QED BY <1>1, <2>2
  <1>13. ASSUME NEW n \in Nat, n \in P PROVE n + 1 \in P
    <2>1. SUFFICES ASSUME n + 1 + 1 <= N PROVE All(n + 1 + 1, flatten[n + 1 + 1])
      OBVIOUS
    <2> DEFINE s == flatten[n + 1]
               t == ss[n + 1 + 1]
    <2>2. n + 1 + 1 \in 1..N /\ n + 1 + 1 # 1 /\ (n + 1 + 1) - 1 = n + 1 /\ n + 1 <= N
      BY <1>1, <2>1
    <2>3. flatten[n + 1 + 1] = s \o t
      BY <1>11, <2>2
    <2>4. All(n + 1, s)
      BY <1>13, <2>2
    <2>5. t \in S
      BY <1>1, <2>2
    <2> HIDE DEF s, t
    <2>6. s \o t \in S /\ ToSet(s \o t) = ToSet(s) \union ToSet(t)
      BY <2>4, <2>5, ElementsOfBoth DEF S
    <2>7. ASSUME NEW x
          PROVE  x \in ToSet(s \o t) <=> \E i \in 1..(n + 1 + 1) : x \in ToSet(ss[i])
      <3>1. 1..(n + 1 + 1) = 1..(n + 1) \union {n + 1 + 1}
        OBVIOUS
      <3>2. x \in ToSet(s) <=> \E i \in 1..(n + 1) : x \in ToSet(ss[i])
        BY <2>4
      <3>3. x \in ToSet(t) <=> x \in ToSet(ss[n + 1 + 1])
        BY DEF t
      <3> QED BY <2>6, <3>1, <3>2, <3>3
    <2> QED BY <2>3, <2>6, <2>7
  <1> HIDE DEF P
  <1>14. Nat \subseteq P
    BY <1>12, <1>13, Counting
  <1>15. CASE N = 0
    <2>1. ss = <<>>
      BY <1>15, EmptySeq
    <2>2. FlattenSeq(ss) = <<>> /\ ToSet(<<>>) = {}
      BY <1>10, <1>15, <2>1 DEF ToSet
    <2> QED BY <1>2, <1>15, <2>2 DEF S
  <1>16. CASE N # 0
    <2>1. N - 1 \in P /\ (N - 1) + 1 = N
      BY <1>1, <1>14, <1>16
    <2>2. N - 1 + 1 <= N => All(N - 1 + 1, flatten[N - 1 + 1])
      BY <2>1 DEF P
    <2>3. All(N, flatten[N])
      <3> HIDE DEF All
      <3> QED BY <1>1, <2>1, <2>2
    <2> QED BY <1>10, <1>16, <2>3 DEF S
  <1> QED BY <1>15, <1>16

\* All the commits a file claims are known where those of each list are.
LEMMA ClaimsAre ==
  ASSUME NEW file, Shaped(file)
  PROVE  /\ \E X : Claims(file) \in Seq(X)
         /\ ToSet(Claims(file)) \subseteq OnMain <=>
               /\ \A c \in Listed(file) : ToSet(c.commits) \subseteq OnMain
               /\ ToSet(file.fork) \subseteq OnMain
  <1> DEFINE X == (UNION {ToSet(c.commits) : c \in Listed(file)}) \union ToSet(file.fork)
             N == Len(file.chunks)
             ss == [i \in DOMAIN file.chunks |-> file.chunks[i].commits]
  <1>1. N \in Nat /\ DOMAIN file.chunks = 1..N /\ \A i \in 1..N : file.chunks[i] \in Listed(file)
    BY DEF Shaped
  <1>2. \A c \in Listed(file) : c.commits \in Seq(X)
    <2>1. SUFFICES ASSUME NEW c \in Listed(file) PROVE c.commits \in Seq(X)
      OBVIOUS
    <2>2. c.commits \in Seq(ToSet(c.commits)) /\ ToSet(c.commits) \subseteq X
      BY DEF Shaped
    <2> HIDE DEF X
    <2> QED BY <2>2, SeqMonotonic
  <1>3. file.fork \in Seq(X)
    <2>1. ToSet(file.fork) \subseteq X
      OBVIOUS
    <2>2. file.fork \in Seq(ToSet(file.fork))
      BY DEF Shaped
    <2> HIDE DEF X
    <2> QED BY <2>1, <2>2, SeqMonotonic
  <1> HIDE DEF X
  <1>4. ss \in Seq(Seq(X)) /\ Len(ss) = N /\ \A i \in 1..N : ss[i] = file.chunks[i].commits
    BY <1>1, <1>2
  <1>5. Claims(file) = FlattenSeq(ss) \o file.fork
    BY DEF Claims
  <1> HIDE DEF ss
  <1>6. /\ FlattenSeq(ss) \in Seq(X)
        /\ \A x : x \in ToSet(FlattenSeq(ss)) <=> \E i \in 1..Len(ss) : x \in ToSet(ss[i])
    BY <1>4, FlattenIs
  <1>7. /\ Claims(file) \in Seq(X)
        /\ ToSet(Claims(file)) = ToSet(FlattenSeq(ss)) \union ToSet(file.fork)
    BY <1>3, <1>5, <1>6, ElementsOfBoth
  <1>8. \A x : x \in ToSet(FlattenSeq(ss)) <=> \E c \in Listed(file) : x \in ToSet(c.commits)
    <2>1. \A c \in Listed(file) : \E i \in 1..N : c = file.chunks[i]
      BY <1>1 DEF Listed, ToSet
    <2>2. ASSUME NEW x, NEW i \in 1..N, x \in ToSet(ss[i])
          PROVE  \E c \in Listed(file) : x \in ToSet(c.commits)
      BY <1>1, <1>4, <2>2
    <2>3. ASSUME NEW x, NEW c \in Listed(file), x \in ToSet(c.commits)
          PROVE  \E i \in 1..N : x \in ToSet(ss[i])
      <3>1. PICK i \in 1..N : c = file.chunks[i]
        BY <2>1
      <3>2. ss[i] = c.commits
        BY <1>4, <3>1
      <3> QED BY <2>3, <3>2
    <2> QED BY <1>4, <1>6, <2>2, <2>3
  <1> QED BY <1>7, <1>8

-----------------------------------------------------------------------------
(* What load() returns *)

\* No id is listed twice where there are as many ids as chunks.
LEMMA DistinctIsInjective ==
  ASSUME NEW file, file.chunks \in Seq(Listed(file))
  PROVE  Distinct(file.chunks) <=> Cardinality(FileIds(file)) = Len(file.chunks)
  <1> DEFINE N == Len(file.chunks)
             ids == [i \in 1..N |-> file.chunks[i].id]
             X == FileIds(file)
  <1>1. N \in Nat /\ DOMAIN file.chunks = 1..N /\ \A i \in 1..N : file.chunks[i] \in Listed(file)
    OBVIOUS
  <1>2. ids \in Seq(X) /\ Len(ids) = N /\ DOMAIN ids = 1..N
    <2>1. \A i \in 1..N : file.chunks[i].id \in X
      BY <1>1 DEF FileIds
    <2> HIDE DEF X, N
    <2> QED BY <1>1, <2>1
  <1>3. ToSet(ids) = X
    <2>1. \A c \in Listed(file) : \E i \in 1..N : c = file.chunks[i]
      BY <1>1 DEF Listed, ToSet
    <2>2. ASSUME NEW id \in X PROVE id \in ToSet(ids)
      <3>1. PICK c \in Listed(file) : c.id = id
        BY DEF FileIds
      <3>2. PICK i \in 1..N : c = file.chunks[i]
        BY <2>1
      <3> QED BY <1>2, <3>1, <3>2 DEF ToSet
    <2>3. ASSUME NEW id \in ToSet(ids) PROVE id \in X
      BY <1>1, <1>2, <2>3 DEF ToSet, FileIds
    <2> QED BY <2>2, <2>3
  <1>4. IsInjective(ids) <=> Distinct(file.chunks)
    BY <1>2 DEF IsInjective, Distinct
  <1> HIDE DEF ids
  <1>5. IsInjective(ids) <=> Cardinality(X) = N
    BY <1>2, <1>3, OnceIsCounted
  <1> QED BY <1>4, <1>5

\* The conditions that load() checks one after the other.
LEMMA LoadedIs ==
  ASSUME NEW file, Shaped(file), Load(file) # Refused
  PROVE  /\ OneParent(file)
         /\ \A c \in Listed(file) : Parses(c)
         /\ ToSet(file.fork) \subseteq OnMain /\ ClaimedOnce(file)
         /\ OrderedOK(file, Load(file)) /\ FileIds(file) \subseteq IdsOf(Load(file))
  <1>1. /\ \A c \in Listed(file) : Parses(c)
        /\ ToSet(file.fork) \subseteq OnMain /\ ClaimedOnce(file)
        /\ Load(file) = Order(file)
    BY DEF Load
  <1>2. /\ ~\E i, j \in DOMAIN file.chunks : i # j /\ file.chunks[i].id = file.chunks[j].id
        /\ ~\E c \in Listed(file) : ParentOf(c) \notin FileIds(file) \union {Root}
    BY <1>1 DEF Order
  <1>3. Good(file)
    BY <1>2 DEF Good, Shaped
  <1>4. Distinct(file.chunks)
    BY <1>2 DEF Distinct, Shaped
  <1>5. OneParent(file)
    BY <1>1, <1>3, <1>4 DEF OneParent, Parses
  <1>6. OrderedOK(file, Load(file)) /\ FileIds(file) \subseteq IdsOf(Load(file))
    BY <1>1, <1>3, <1>4, OrderIs
  <1> QED BY <1>1, <1>5, <1>6

\* What load() returns are the chunks of the file, each after all that it stands
\* on.
LEMMA LoadedInOrder ==
  ASSUME NEW file, Shaped(file), Load(file) # Refused
  PROVE  InOrder(file, Load(file))
  <1> DEFINE s == Load(file)
  <1>1. /\ OneParent(file) /\ OrderedOK(file, s) /\ FileIds(file) \subseteq IdsOf(s)
    BY LoadedIs
  <1> HIDE DEF s
  <1>2. s \in Seq(Listed(file)) /\ Len(s) \in Nat /\ DOMAIN s = 1..Len(s) /\ Distinct(s)
    BY <1>1 DEF OrderedOK
  <1>3. \A i, j \in DOMAIN s : <<s[i].id, s[j].id>> \in Above(file) => i < j
    <2>1. SUFFICES ASSUME NEW i \in 1..Len(s), NEW j \in 1..Len(s),
                          <<s[i].id, s[j].id>> \in Above(file)
                   PROVE  i < j
      BY <1>2
    <2>2. PICK h \in 1..(j - 1) : s[h].id = s[i].id
      BY <1>1, <2>1, AboveIsBefore
    <2>3. h = i
      BY <1>2, <2>2 DEF Distinct
    <2> QED BY <1>2, <2>3
  <1>4. ASSUME NEW c \in Listed(file) PROVE c \in ToSet(s)
    <2>1. c.id \in IdsOf(s)
      BY <1>1 DEF FileIds
    <2>2. PICK d \in ToSet(s) : d.id = c.id
      BY <2>1 DEF IdsOf
    <2>3. d \in Listed(file)
      BY <1>2 DEF ToSet
    <2>4. d = c
      BY <1>1, <2>2, <2>3, OneOfAnId DEF OneParent, Good
    <2> QED BY <2>4
  <1>5. ToSet(s) \subseteq Listed(file)
    BY <1>2 DEF ToSet
  <1>6. ToSet(s) = Listed(file)
    BY <1>4, <1>5
  <1>7. Len(s) = Len(file.chunks)
    <2>1. file.chunks \in Seq(Listed(file)) /\ Distinct(file.chunks)
      BY <1>1 DEF OneParent, Good
    <2>2. Len(s) <= Len(file.chunks)
      BY <1>2, <2>1, DistinctIsShort
    <2>3. IsInjective(s) /\ IsInjective(file.chunks)
      BY <1>2, <2>1 DEF IsInjective, Distinct
    <2>4. Cardinality(ToSet(s)) = Len(s)
      BY <1>2, <2>3, OnceIsCounted
    <2>5. Cardinality(ToSet(file.chunks)) = Len(file.chunks)
      BY <2>1, <2>3, OnceIsCounted
    <2> QED BY <1>6, <2>4, <2>5 DEF Listed
  <1> QED BY <1>3, <1>6, <1>7 DEF InOrder, s

\* load() accepts only a sound file ...
LEMMA LoadedIsSound ==
  ASSUME NEW file, Shaped(file), Load(file) # Refused
  PROVE  Sound(file)
  <1>1. /\ OneParent(file)
        /\ \A c \in Listed(file) : Parses(c)
        /\ ToSet(file.fork) \subseteq OnMain /\ ClaimedOnce(file)
        /\ OrderedOK(file, Load(file)) /\ FileIds(file) \subseteq IdsOf(Load(file))
    BY LoadedIs
  <1>2. Cardinality(FileIds(file)) = Len(file.chunks)
    BY <1>1, DistinctIsInjective DEF OneParent, Shaped
  <1>3. ASSUME NEW c \in Listed(file)
        PROVE  c.formed /\ Len(c.requires) <= 1 /\ ToSet(c.requires) \subseteq FileIds(file)
    <2>1. c.formed /\ Len(c.requires) <= 1
      BY <1>1 DEF Parses
    <2>2. ASSUME NEW a \in ToSet(c.requires) PROVE a \in FileIds(file)
      <3>1. Up(file, a, c.id)
        BY <2>2 DEF Up
      <3>2. a = ParentOf(c) /\ a # Root
        BY <1>1, <3>1, UpIsParent
      <3> QED BY <1>1, <3>2 DEF OneParent, Good
    <2> QED BY <2>1, <2>2
  <1>4. ASSUME NEW id \in FileIds(file), <<id, id>> \in Above(file) PROVE FALSE
    <2> DEFINE s == Load(file)
    <2>1. s \in Seq(Listed(file)) /\ Distinct(s)
      BY <1>1 DEF OrderedOK
    <2> HIDE DEF s
    <2>2. PICK j \in 1..Len(s) : s[j].id = id
      BY <1>1, <2>1, IdsAre DEF s
    <2>3. PICK i \in 1..(j - 1) : s[i].id = id
      BY <1>1, <1>4, <2>2, AboveIsBefore DEF s
    <2> QED BY <2>1, <2>2, <2>3 DEF Distinct
  <1>5. ToSet(Claims(file)) \subseteq OnMain
    BY <1>1, ClaimsAre DEF Parses
  <1>6. Cardinality(ToSet(Claims(file))) = Len(Claims(file))
    BY <1>1, ClaimsAre, OnceIsCounted DEF ClaimedOnce
  <1> QED BY <1>2, <1>3, <1>4, <1>5, <1>6 DEF Sound

\* ... and every sound file.
LEMMA SoundIsLoaded ==
  ASSUME NEW file, Shaped(file), Sound(file)
  PROVE  Load(file) # Refused
  <1>1. file.chunks \in Seq(Listed(file)) /\ Distinct(file.chunks)
    BY DistinctIsInjective DEF Sound, Shaped
  <1>2. ASSUME NEW c \in Listed(file) PROVE ParentOf(c) \in FileIds(file) \union {Root}
    <2>1. CASE c.requires = <<>>
      BY <2>1 DEF ParentOf
    <2>2. CASE c.requires # <<>>
      <3>1. c.requires \in Seq(ToSet(c.requires)) /\ Len(c.requires) # 0
        BY <2>2, EmptySeq DEF Shaped
      <3>2. c.requires[1] \in ToSet(c.requires)
        BY <3>1
      <3> QED BY <2>2, <3>2 DEF ParentOf, Sound
    <2> QED BY <2>1, <2>2
  <1>3. Good(file)
    BY <1>1, <1>2 DEF Good, Shaped
  <1>4. OneParent(file)
    BY <1>1, <1>3 DEF OneParent, Sound
  <1>5. ~HasRing(file)
    BY <1>4, RingIsAbove DEF Sound
  <1>6. OrderedOK(file, Order(file))
    BY <1>1, <1>3, <1>5, OrderIs
  <1>7. Order(file) # Refused
    BY <1>6 DEF OrderedOK, Shaped
  <1>8. /\ \A c \in Listed(file) : ToSet(c.commits) \subseteq OnMain
        /\ ToSet(file.fork) \subseteq OnMain
    BY ClaimsAre DEF Sound
  <1>9. \A c \in Listed(file) : Parses(c)
    BY <1>8 DEF Parses, Sound
  <1>10. ClaimedOnce(file)
    BY ClaimsAre, OnceIsCounted DEF ClaimedOnce, Sound
  <1> QED BY <1>7, <1>8, <1>9, <1>10 DEF Load

-----------------------------------------------------------------------------
(* The chunks below another *)

\* The chunks s stand in order, and no other is listed.
AllInOrder(file, s) ==
    OneParent(file) /\ OrderedOK(file, s) /\ FileIds(file) \subseteq IdsOf(s)

\* What stands on the chunk that c stands on, or on id itself.
LEMMA AboveOfParent ==
  ASSUME NEW file, NEW s, AllInOrder(file, s), NEW j \in 1..Len(s), NEW id \in FileIds(file)
  PROVE  <<id, s[j].id>> \in Above(file) <=>
            ParentOf(s[j]) = id \/ <<id, ParentOf(s[j])>> \in Above(file)
  <1> DEFINE K == Cardinality(FileIds(file))
             c == s[j]
             up == ParentOf(c)
  <1>0. s \in Seq(Listed(file)) /\ Len(s) \in Nat /\ Distinct(s)
    BY DEF AllInOrder, OrderedOK
  <1>1. c \in Listed(file) /\ c.id \in FileIds(file) /\ K \in Nat /\ Root \notin FileIds(file)
    <2>1. c \in Listed(file) /\ c.id \in FileIds(file)
      BY <1>0 DEF FileIds
    <2>2. K \in Nat
      BY IdsFinite DEF AllInOrder, OneParent, Good
    <2>3. Root \notin FileIds(file)
      BY DEF AllInOrder, OneParent, Shaped, FileIds
    <2> QED BY <2>1, <2>2, <2>3
  <1>2. Len(s) <= K
    BY <1>0, DistinctAmongIds DEF AllInOrder, OneParent, Good
  <1>3. ASSUME up = id PROVE <<id, c.id>> \in Above(file)
    <2> DEFINE way == [i \in 0..1 |-> IF i = 0 THEN c.id ELSE id]
    <2>1. way \in [0..1 -> FileIds(file)] /\ way[0] = c.id /\ way[1] = id
      BY <1>1
    <2>2. Up(file, id, c.id)
      BY <1>1, <1>3, UpIsParent DEF AllInOrder
    <2>3. Way(file, way, 1)
      <3> HIDE DEF way
      <3>1. \A i \in 1..1 : i = 1 /\ i - 1 = 0
        OBVIOUS
      <3> QED BY <2>1, <2>2, <3>1 DEF Way
    <2>4. 1 \in 1..K
      BY <1>0, <1>1, <1>2
    <2> HIDE DEF way
    <2> QED BY <2>1, <2>3, <2>4, AboveIs
  <1>4. ASSUME <<id, up>> \in Above(file) PROVE <<id, c.id>> \in Above(file)
    <2>1. PICK n \in 1..K : \E way : Way(file, way, n) /\ way[n] = id /\ way[0] = up
      BY <1>4, AboveIs
    <2>2. PICK way : Way(file, way, n) /\ way[n] = id /\ way[0] = up
      BY <2>1
    <2>3. n \in Nat \ {0} /\ way \in [0..n -> FileIds(file)]
      BY <1>1, <2>2 DEF Way
    <2>4. up \in FileIds(file)
      BY <2>2, <2>3
    <2> DEFINE more == [i \in 0..(n + 1) |-> IF i = 0 THEN c.id ELSE way[i - 1]]
    <2>5. more \in [0..(n + 1) -> FileIds(file)] /\ more[0] = c.id
          /\ \A i \in 1..(n + 1) : more[i] = way[i - 1]
      BY <1>1, <2>3
    <2> HIDE DEF more
    <2>6. ASSUME NEW i \in 1..(n + 1) PROVE Up(file, more[i], more[i - 1])
      <3>1. CASE i = 1
        <4>1. more[i] = up /\ more[i - 1] = c.id
          BY <2>2, <2>3, <2>5, <3>1
        <4> QED BY <1>1, <2>4, <4>1, UpIsParent DEF AllInOrder
      <3>2. CASE i # 1
        <4>1. i - 1 \in 1..n /\ i - 1 \in 1..(n + 1)
          BY <2>3, <3>2
        <4>2. more[i] = way[i - 1] /\ more[i - 1] = way[i - 1 - 1]
          BY <2>5, <4>1
        <4> QED BY <2>2, <4>1, <4>2 DEF Way
      <3> QED BY <3>1, <3>2
    <2>7. Way(file, more, n + 1)
      BY <2>5, <2>6 DEF Way
    <2>8. n + 1 \in Nat /\ n + 1 \in 0..(n + 1)
      BY <2>3
    <2>9. PICK i \in 1..(j - (n + 1)) : s[i].id = more[n + 1]
      <3>1. OneParent(file) /\ OrderedOK(file, s)
        BY DEF AllInOrder
      <3>2. more[0] = s[j].id
        BY <2>5
      <3> HIDE DEF K, c, up
      <3>3. \A m \in 0..(n + 1) : \E i \in 1..(j - m) : s[i].id = more[m]
        BY <2>7, <2>8, <3>1, <3>2, WayDescends
      <3> QED BY <2>8, <3>3
    <2>10. n + 1 \in 1..K
      BY <1>0, <1>1, <1>2, <2>3
    <2>11. more[n + 1] = id
      BY <2>2, <2>3, <2>5
    <2> QED BY <2>5, <2>7, <2>10, <2>11, AboveIs
  <1>5. ASSUME <<id, c.id>> \in Above(file), up # id PROVE <<id, up>> \in Above(file)
    <2>1. PICK n \in 1..K : \E way : Way(file, way, n) /\ way[n] = id /\ way[0] = c.id
      BY <1>5, AboveIs
    <2>2. PICK way : Way(file, way, n) /\ way[n] = id /\ way[0] = c.id
      BY <2>1
    <2>3. n \in Nat \ {0} /\ way \in [0..n -> FileIds(file)]
      BY <1>1, <2>2 DEF Way
    <2>4. Up(file, way[1], way[0])
      <3>1. 1 \in 1..n /\ 1 - 1 = 0
        BY <2>3
      <3>2. Up(file, way[1], way[1 - 1])
        BY <2>2, <3>1 DEF Way
      <3> QED BY <3>1, <3>2
    <2>5. way[1] = up
      BY <1>1, <2>2, <2>4, UpIsParent DEF AllInOrder
    <2>6. n # 1
      BY <1>5, <2>2, <2>5
    <2> DEFINE less == [i \in 0..(n - 1) |-> way[i + 1]]
    <2>7. less \in [0..(n - 1) -> FileIds(file)] /\ \A i \in 0..(n - 1) : less[i] = way[i + 1]
      BY <2>3
    <2> HIDE DEF less
    <2>8. ASSUME NEW i \in 1..(n - 1) PROVE Up(file, less[i], less[i - 1])
      <3>1. /\ i \in 0..(n - 1) /\ i - 1 \in 0..(n - 1) /\ i + 1 \in 1..n
            /\ (i + 1) - 1 = (i - 1) + 1
        BY <2>3
      <3>2. less[i] = way[i + 1] /\ less[i - 1] = way[(i + 1) - 1]
        BY <2>7, <3>1
      <3> QED BY <2>2, <3>1, <3>2 DEF Way
    <2>9. Way(file, less, n - 1)
      BY <2>7, <2>8 DEF Way
    <2>10. n - 1 \in 1..K
      BY <1>1, <2>3, <2>6
    <2>11. less[0] = up /\ less[n - 1] = id
      BY <2>2, <2>3, <2>5, <2>7
    <2> QED BY <2>9, <2>10, <2>11, AboveIs
  <1> QED BY <1>3, <1>4, <1>5

\* The chunks found below id are those of the first n chunks s that stand on
\* it, in their order.
Found(file, s, id, n, found) ==
    /\ found \in Seq(Listed(file))
    /\ \E at \in [1..Len(found) -> 1..n] :
          /\ \A i \in 1..Len(found) : found[i] = s[at[i]]
          /\ \A i, j \in 1..Len(found) : i < j => at[i] < at[j]
    /\ \A k \in 1..n : <<id, s[k].id>> \in Above(file) => \E i \in 1..Len(found) : found[i] = s[k]
    /\ \A i \in 1..Len(found) : <<id, found[i].id>> \in Above(file)

\* One step of the loop of children().
FindNext(s, id, n, found) ==
    IF ParentOf(s[n]) \in {id} \union IdsOf(found) THEN Append(found, s[n]) ELSE found

\* One pass is enough: when a chunk's turn comes, all that it stands on had
\* theirs.
LEMMA FoundNext ==
  ASSUME NEW file, NEW s, AllInOrder(file, s), NEW id \in FileIds(file),
         NEW n \in Nat, n + 1 <= Len(s), NEW found, Found(file, s, id, n, found)
  PROVE  Found(file, s, id, n + 1, FindNext(s, id, n + 1, found))
  <1> DEFINE c == s[n + 1]
             m == Len(found)
             then == FindNext(s, id, n + 1, found)
  <1>0. s \in Seq(Listed(file)) /\ Len(s) \in Nat /\ Distinct(s) /\ n + 1 \in 1..Len(s)
        /\ found \in Seq(Listed(file)) /\ m \in Nat
    BY DEF AllInOrder, OrderedOK, Found
  <1>1. c \in Listed(file)
    BY <1>0
  <1>2. PICK at \in [1..m -> 1..n] : /\ \A i \in 1..m : found[i] = s[at[i]]
                                     /\ \A i, j \in 1..m : i < j => at[i] < at[j]
    BY DEF Found
  <1>3. ParentOf(c) \in {id} \union IdsOf(found) <=> <<id, c.id>> \in Above(file)
    <2>1. <<id, c.id>> \in Above(file) <=>
            ParentOf(c) = id \/ <<id, ParentOf(c)>> \in Above(file)
      BY <1>0, AboveOfParent
    <2>2. ASSUME ParentOf(c) \in IdsOf(found) PROVE <<id, ParentOf(c)>> \in Above(file)
      <3>1. PICK i \in 1..m : found[i].id = ParentOf(c)
        BY <1>0, <2>2, IdsAre
      <3> QED BY <3>1 DEF Found
    <2>3. ASSUME <<id, ParentOf(c)>> \in Above(file) PROVE ParentOf(c) \in IdsOf(found)
      <3>1. ParentOf(c) \in FileIds(file)
        <4>1. PICK k \in 1..Cardinality(FileIds(file)) : \E way :
                  Way(file, way, k) /\ way[k] = id /\ way[0] = ParentOf(c)
          BY <2>3, AboveIs
        <4>2. PICK way : Way(file, way, k) /\ way[0] = ParentOf(c)
          BY <4>1
        <4>3. 0 \in 0..k
          BY IdsFinite DEF AllInOrder, OneParent, Good
        <4> QED BY <4>2, <4>3 DEF Way
      <3>2. Root \notin FileIds(file)
        BY DEF AllInOrder, OneParent, Shaped, FileIds
      <3>3. PICK k \in 1..((n + 1) - 1) : s[k].id = ParentOf(c)
        BY <1>0, <3>1, <3>2 DEF AllInOrder, OrderedOK
      <3>4. k \in 1..n
        OBVIOUS
      <3>5. PICK i \in 1..m : found[i] = s[k]
        BY <2>3, <3>3, <3>4 DEF Found
      <3>6. found[i].id = ParentOf(c)
        BY <3>3, <3>5
      <3> QED BY <1>0, <3>6, IdsAre
    <2> QED BY <2>1, <2>2, <2>3
  <1>4. \A k \in 1..(n + 1) : k \in 1..n \/ k = n + 1
    OBVIOUS
  <1>5. CASE <<id, c.id>> \notin Above(file)
    <2>1. then = found
      BY <1>3, <1>5 DEF FindNext
    <2>2. at \in [1..m -> 1..(n + 1)]
      OBVIOUS
    <2>3. \A k \in 1..(n + 1) : <<id, s[k].id>> \in Above(file) =>
                                  \E i \in 1..m : found[i] = s[k]
      BY <1>4, <1>5 DEF Found
    <2>4. \E to \in [1..Len(found) -> 1..(n + 1)] :
            /\ \A i \in 1..Len(found) : found[i] = s[to[i]]
            /\ \A i, j \in 1..Len(found) : i < j => to[i] < to[j]
      BY <1>2, <2>2
    <2>5. Found(file, s, id, n + 1, found)
      BY <2>3, <2>4 DEF Found
    <2> QED BY <2>1, <2>5
  <1>6. CASE <<id, c.id>> \in Above(file)
    <2>1. then = Append(found, c)
      BY <1>3, <1>6 DEF FindNext
    <2> HIDE DEF c, then
    <2>2. then \in Seq(Listed(file)) /\ Len(then) = m + 1 /\ then[m + 1] = c
          /\ \A i \in 1..m : then[i] = found[i]
      BY <1>0, <1>1, <2>1
    <2> DEFINE to == [i \in 1..(m + 1) |-> IF i = m + 1 THEN n + 1 ELSE at[i]]
    <2>3. to \in [1..(m + 1) -> 1..(n + 1)] /\ to[m + 1] = n + 1
          /\ \A i \in 1..m : to[i] = at[i]
      BY <1>0, <1>2
    <2> HIDE DEF to
    <2>4. \A i \in 1..(m + 1) : i \in 1..m \/ i = m + 1
      BY <1>0
    <2>5. \A i \in 1..(m + 1) : then[i] = s[to[i]]
      BY <1>2, <2>2, <2>3, <2>4 DEF c
    <2>6. ASSUME NEW i \in 1..(m + 1), NEW j \in 1..(m + 1), i < j PROVE to[i] < to[j]
      <3>1. i \in 1..m /\ at[i] \in 1..n
        BY <1>0, <1>2, <2>6
      <3>2. CASE j = m + 1
        BY <2>3, <3>1, <3>2
      <3>3. CASE j \in 1..m
        BY <1>2, <2>3, <2>6, <3>1, <3>3
      <3> QED BY <2>4, <3>2, <3>3
    <2>7. ASSUME NEW k \in 1..(n + 1), <<id, s[k].id>> \in Above(file)
          PROVE  \E i \in 1..(m + 1) : then[i] = s[k]
      <3>1. CASE k = n + 1
        BY <1>0, <2>2, <3>1 DEF c
      <3>2. CASE k \in 1..n
        <4>1. PICK i \in 1..m : found[i] = s[k]
          BY <2>7, <3>2 DEF Found
        <4>2. i \in 1..(m + 1) /\ then[i] = s[k]
          BY <1>0, <2>2, <4>1
        <4> QED BY <4>2
      <3> QED BY <1>4, <3>1, <3>2
    <2>8. \A i \in 1..(m + 1) : <<id, then[i].id>> \in Above(file)
      BY <1>6, <2>2, <2>4 DEF Found
    <2>9. \E up \in [1..Len(then) -> 1..(n + 1)] :
            /\ \A i \in 1..Len(then) : then[i] = s[up[i]]
            /\ \A i, j \in 1..Len(then) : i < j => up[i] < up[j]
      BY <2>2, <2>3, <2>5, <2>6
    <2>10. Found(file, s, id, n + 1, then)
      BY <2>2, <2>7, <2>8, <2>9 DEF Found
    <2> QED BY <2>10 DEF then
  <1> QED BY <1>5, <1>6

\* Children is the last of the sequences that FindNext makes one after the other.
LEMMA ChildrenAreRecursive ==
  ASSUME NEW file, NEW s \in Seq(Listed(file)), NEW id
  PROVE  \E found :
            /\ found[0] = <<>>
            /\ \A n \in 1..Len(s) : found[n] = FindNext(s, id, n, found[n - 1])
            /\ Children(s, id) = found[Len(s)]
  <1> DEFINE N == Len(s)
             S == Seq(Listed(file))
             steps == [p \in (1..N) \X S |-> FindNext(s, id, p[1], p[2])]
             found[n \in 0..N] == IF n = 0 THEN <<>> ELSE FindNext(s, id, n, found[n - 1])
  <1>1. N \in Nat /\ <<>> \in S
    BY EmptySeq
  <1>2. \A n \in 1..N, t \in S : FindNext(s, id, n, t) \in S
    <2>1. SUFFICES ASSUME NEW n \in 1..N, NEW t \in S PROVE FindNext(s, id, n, t) \in S
      OBVIOUS
    <2> DEFINE c == s[n]
    <2>2. c \in Listed(file)
      OBVIOUS
    <2> HIDE DEF c
    <2>3. Append(t, c) \in S
      BY <2>2
    <2> QED BY <2>3 DEF FindNext, c
  <1> HIDE DEF S
  <1>3. steps \in [(1..N) \X S -> S]
    BY <1>2
  <1>4. PICK g : Iterates(g, S, <<>>, N, steps)
    <2> HIDE DEF steps, N
    <2> QED BY <1>1, <1>3, StepsExist
  <1>5. ASSUME NEW n \in 1..N PROVE g[n] = FindNext(s, id, n, g[n - 1])
    <2>1. n - 1 \in 0..N
      BY <1>1
    <2>2. g[n - 1] \in S
      BY <1>4, <2>1 DEF Iterates
    <2>3. steps[<<n, g[n - 1]>>] = FindNext(s, id, n, g[n - 1])
      BY <2>2
    <2> QED BY <1>4, <2>3 DEF Iterates
  <1>6. g = [n \in 0..N |-> IF n = 0 THEN <<>> ELSE FindNext(s, id, n, g[n - 1])]
    BY <1>1, <1>4, <1>5 DEF Iterates
  <1>7. found = [n \in 0..N |-> IF n = 0 THEN <<>> ELSE FindNext(s, id, n, found[n - 1])]
    <2> HIDE DEF N
    <2>1. SUFFICES \E h : h = [n \in 0..N |-> IF n = 0 THEN <<>>
                                              ELSE FindNext(s, id, n, h[n - 1])]
      OBVIOUS
    <2> QED BY <1>6
  <1>8. Children(s, id) = found[N]
    BY DEF Children, FindNext, IdsOf
  <1> HIDE DEF found
  <1>9. \A n \in 0..N : found[n] = IF n = 0 THEN <<>> ELSE FindNext(s, id, n, found[n - 1])
    BY <1>7, Zenon
  <1>10. found[0] = <<>> /\ \A n \in 1..N : found[n] = FindNext(s, id, n, found[n - 1])
    <2> HIDE DEF N
    <2> QED BY <1>1, <1>9
  <1> QED BY <1>8, <1>10

\* children() of a chunk are exactly those that stand on it.
LEMMA ChildrenAre ==
  ASSUME NEW file, Shaped(file), Load(file) # Refused, NEW id \in FileIds(file)
  PROVE  AllBelow(file, Load(file), id, Children(Load(file), id))
  <1> DEFINE s == Load(file)
             N == Len(s)
  <1>0. AllInOrder(file, s) /\ s \in Seq(Listed(file)) /\ N \in Nat
    BY LoadedIs DEF AllInOrder, OrderedOK
  <1> HIDE DEF s
  <1>1. PICK found :
            /\ found[0] = <<>>
            /\ \A n \in 1..Len(s) : found[n] = FindNext(s, id, n, found[n - 1])
            /\ Children(s, id) = found[Len(s)]
    BY <1>0, ChildrenAreRecursive
  <1> DEFINE P == {n \in Nat : n <= N => Found(file, s, id, n, found[n])}
  <1>2. 0 \in P
    <2> DEFINE none == <<>>
               at == [i \in 1..0 |-> i]
    <2>1. none \in Seq(Listed(file)) /\ Len(none) = 0 /\ found[0] = none
      BY <1>1, EmptySeq
    <2> HIDE DEF none
    <2>2. at \in [1..Len(none) -> 1..0] /\ ~\E i \in 1..Len(none) : TRUE
      BY <2>1
    <2> HIDE DEF at
    <2>3. Found(file, s, id, 0, none)
      BY <2>1, <2>2 DEF Found
    <2> QED BY <2>1, <2>3
  <1>3. ASSUME NEW n \in Nat, n \in P PROVE n + 1 \in P
    <2>1. SUFFICES ASSUME n + 1 <= N PROVE Found(file, s, id, n + 1, found[n + 1])
      OBVIOUS
    <2>2. Found(file, s, id, n, found[n])
      BY <1>0, <1>3, <2>1
    <2>3. found[n + 1] = FindNext(s, id, n + 1, found[n])
      BY <1>0, <1>1, <2>1
    <2> QED BY <1>0, <2>1, <2>2, <2>3, FoundNext
  <1> HIDE DEF P
  <1>4. Nat \subseteq P
    BY <1>2, <1>3, Counting
  <1> DEFINE below == found[N]
  <1>5. Found(file, s, id, N, below) /\ Children(s, id) = below
    BY <1>0, <1>1, <1>4 DEF P
  <1> HIDE DEF below
  <1>6. DOMAIN s = 1..N /\ DOMAIN below = 1..Len(below)
    BY <1>0, <1>5 DEF Found
  <1>7. Subsequence(below, s)
    BY <1>5, <1>6 DEF Subsequence, Found
  <1>8. ASSUME NEW c \in ToSet(below) PROVE c \in ToSet(s) /\ <<id, c.id>> \in Above(file)
    <2>1. PICK i \in 1..Len(below) : c = below[i]
      BY <1>6 DEF ToSet
    <2>2. PICK at \in [1..Len(below) -> 1..N] : \A k \in 1..Len(below) : below[k] = s[at[k]]
      BY <1>5 DEF Found
    <2>3. c = s[at[i]] /\ at[i] \in 1..N
      BY <2>1, <2>2
    <2>4. c \in ToSet(s)
      BY <1>6, <2>3 DEF ToSet
    <2> QED BY <1>5, <2>1, <2>4 DEF Found
  <1>9. ASSUME NEW c \in ToSet(s), <<id, c.id>> \in Above(file) PROVE c \in ToSet(below)
    <2>1. PICK k \in 1..N : c = s[k]
      BY <1>6 DEF ToSet
    <2>2. PICK i \in 1..Len(below) : below[i] = s[k]
      BY <1>5, <1>9, <2>1 DEF Found
    <2> QED BY <1>6, <2>1, <2>2 DEF ToSet
  <1>10. ToSet(below) = {c \in ToSet(s) : <<id, c.id>> \in Above(file)}
    BY <1>8, <1>9
  <1> QED BY <1>5, <1>7, <1>10 DEF AllBelow, s
=============================================================================
