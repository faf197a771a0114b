--------------------------- MODULE HandoverProofs ---------------------------
(* Theorems about Handover, for any manifest and any bounds. *)
EXTENDS Handover, TLAPS

\* The chunks whose row of state.json this run has written.
Built(c) == phase # "idle" /\ (phase = "rebuild" => c < at)

\* What the rebuild establishes about a row, and no later step undoes.
Sound(c, row) ==
    /\ row.rebase \notin Failed =>
          /\ row.rebase \in {"ok", "unchanged"}
          /\ row.candidate \in Commit
          /\ row.candidate.up = on
    /\ row.rebase = "ok" /\ ~row.landed =>
          /\ row.published \in Commit
          /\ row.published.up <= on
          /\ row.candidate.own[c] = row.published.own[c]

RowsOK == \A c \in Chunks : Built(c) => Sound(c, st[c])

\* Nothing stands on an upstream commit that does not exist yet.
TipsOK ==
    /\ on <= upstream
    /\ \A c \in Chunks : review[c] # NoBranch => review[c].up <= upstream
    /\ phase = "rebuild" => \A c \in Chunks : seen[c] # NoBranch => seen[c].up <= on

TypeInv == TypeOK /\ RowsOK /\ TipsOK

USE DEF Never

LEMMA UpstreamAtType == \A u \in Upstreams : UpstreamAt(u) \in Commit /\ UpstreamAt(u).up = u
  BY BoundsAssumption DEF UpstreamAt, Commit, Versions, Upstreams

\* Putting one version into a commit gives a commit on the same base.
LEMMA EditType ==
    ASSUME NEW x \in Commit, NEW c \in Chunks, NEW v \in Versions
    PROVE  /\ [x EXCEPT !.own[c] = v] \in Commit
           /\ [x EXCEPT !.own[c] = v].up = x.up
           /\ [x EXCEPT !.own[c] = v].own[c] = v
  BY DEF Commit

LEMMA InitTypeInv == Init => TypeInv
  <1> SUFFICES ASSUME Init PROVE TypeInv
    OBVIOUS
  <1> USE BoundsAssumption, ChunksAssumption DEF Init, FreshRun
  <1>1. TypeOK
    BY DEF TypeOK, Merge, Upstreams, Versions, Ref, Card, Kinds, Row, Blank, Failed, Chunks
  <1>2. RowsOK /\ TipsOK
    BY DEF RowsOK, TipsOK, Built
  <1> QED
    BY <1>1, <1>2 DEF TypeInv

-----------------------------------------------------------------------------
(* Every step preserves TypeInv.  First the world outside the run. *)

\* A step that leaves the run alone, and never takes upstream back.
LEMMA WorldStep ==
    ASSUME TypeInv, TypeOK', UNCHANGED run, upstream' >= upstream,
           \A c \in Chunks : review'[c] # NoBranch => review'[c].up <= upstream'
    PROVE  TypeInv'
  <1>1. RowsOK'
    BY DEF TypeInv, RowsOK, Sound, Built, run
  <1>2. TipsOK'
    BY DEF TypeInv, TypeOK, TipsOK, run, Upstreams
  <1> QED
    BY <1>1, <1>2 DEF TypeInv

LEMMA UpstreamMovesType == TypeInv /\ UpstreamMoves => TypeInv'
  <1> SUFFICES ASSUME TypeInv, UpstreamMoves PROVE TypeInv'
    OBVIOUS
  <1>1. TypeOK'
    BY BoundsAssumption DEF TypeInv, TypeOK, UpstreamMoves, Upstreams, run
  <1>2. \A c \in Chunks : review'[c] # NoBranch => review'[c].up <= upstream'
    BY BoundsAssumption
    DEF TypeInv, TypeOK, TipsOK, UpstreamMoves, Upstreams, Ref, Commit
  <1> QED
    BY <1>1, <1>2, WorldStep DEF UpstreamMoves, TypeInv, TypeOK, Upstreams

LEMMA UpstreamTakesType ==
    ASSUME NEW c \in Chunks, TypeInv, UpstreamTakes(c) PROVE TypeInv'
  <1>1. TypeOK'
    <2>1. review[c].own[c] \in Versions
      BY DEF TypeInv, TypeOK, UpstreamTakes, Ref, Commit
    <2>2. upstream' \in Upstreams
      BY BoundsAssumption DEF TypeInv, TypeOK, UpstreamTakes, Upstreams
    <2>3. merged' \in [Chunks -> Merge]
      <3>1. PICK squash \in BOOLEAN :
               merged' = [merged EXCEPT ![c].ver = review[c].own[c],
                                        ![c].at = upstream + 1, ![c].squash = squash]
        BY DEF UpstreamTakes
      <3>2. merged[c] \in Merge /\ upstream + 1 \in Upstreams
        BY <2>2 DEF TypeInv, TypeOK, UpstreamTakes, Merge
      <3>3. [merged[c] EXCEPT !.ver = review[c].own[c], !.at = upstream + 1,
                              !.squash = squash] \in Merge
        BY <2>1, <3>2 DEF Merge
      <3> QED
        BY <3>1, <3>3, <2>1, <3>2 DEF TypeInv, TypeOK, Merge
    <2> QED
      BY <2>2, <2>3 DEF TypeInv, TypeOK, UpstreamTakes, run
  <1>2. \A d \in Chunks : review'[d] # NoBranch => review'[d].up <= upstream'
    BY DEF TypeInv, TypeOK, TipsOK, UpstreamTakes, Upstreams, Ref, Commit
  <1> QED
    BY <1>1, <1>2, WorldStep DEF UpstreamTakes, TypeInv, TypeOK, Upstreams

LEMMA UpstreamMergesPullsType ==
    ASSUME NEW c \in Chunks, TypeInv, UpstreamMergesPulls(c) PROVE TypeInv'
  <1>1. TypeOK'
    <2>1. upstream' \in Upstreams
      BY BoundsAssumption DEF TypeInv, TypeOK, UpstreamMergesPulls, Upstreams
    <2>2. merged' \in [Chunks -> Merge]
      BY DEF TypeInv, TypeOK, UpstreamMergesPulls, Merge
    <2> QED
      BY <2>1, <2>2 DEF TypeInv, TypeOK, UpstreamMergesPulls, run
  <1>2. \A d \in Chunks : review'[d] # NoBranch => review'[d].up <= upstream'
    BY DEF TypeInv, TypeOK, TipsOK, UpstreamMergesPulls, Upstreams, Ref, Commit
  <1> QED
    BY <1>1, <1>2, WorldStep DEF UpstreamMergesPulls, TypeInv, TypeOK, Upstreams

LEMMA PushType ==
    ASSUME NEW c \in Chunks, NEW new \in Commit, new.up <= upstream,
           TypeInv, Push(c, new)
    PROVE  TypeInv'
  <1>1. TypeOK'
    BY DEF TypeInv, TypeOK, Push, run, Ref, Commit
  <1>2. \A d \in Chunks : review'[d] # NoBranch => review'[d].up <= upstream'
    BY DEF TypeInv, TypeOK, TipsOK, Push
  <1> QED
    BY <1>1, <1>2, WorldStep DEF Push, TypeInv, TypeOK, Upstreams

\* A push of one version on an existing base.
LEMMA PushOnType ==
    ASSUME NEW c \in Chunks, NEW base \in Commit, base.up <= upstream,
           NEW v \in Versions, TypeInv, Push(c, [base EXCEPT !.own[c] = v])
    PROVE  TypeInv'
  <1>1. /\ [base EXCEPT !.own[c] = v] \in Commit
        /\ [base EXCEPT !.own[c] = v].up <= upstream
    BY EditType
  <1> QED
    BY <1>1, PushType

\* Whatever a maintainer builds on exists, and is no newer than upstream.
LEMMA HandBaseType ==
    ASSUME NEW c \in Chunks, TypeInv, HandBase(c) # NoBranch
    PROVE  HandBase(c) \in Commit /\ HandBase(c).up <= upstream
  <1>1. CASE Requires[c] = 0 \/ merged[Requires[c]].ver # 0
    BY <1>1, UpstreamAtType DEF HandBase, TypeInv, TypeOK, Upstreams
  <1>2. CASE ~(Requires[c] = 0 \/ merged[Requires[c]].ver # 0)
    <2>1. Requires[c] \in Chunks
      BY <1>2, OrderAssumption, ChunksAssumption DEF Chunks
    <2> QED
      BY <1>2, <2>1 DEF HandBase, TypeInv, TypeOK, TipsOK, Ref
  <1> QED
    BY <1>1, <1>2

LEMMA MaintainerType == TypeInv /\ Maintainer => TypeInv'
  <1> SUFFICES ASSUME TypeInv, NEW c \in Chunks, Seed(c) \/ Amend(c) \/ Resolve(c)
               PROVE  TypeInv'
    BY DEF Maintainer
  <1>1. CASE Seed(c)
    <2>1. 1 \in Versions
      BY BoundsAssumption DEF Versions
    <2> QED
      BY <1>1, <2>1, HandBaseType, PushOnType DEF Seed
  <1>2. CASE Amend(c)
    <2>1. work[c] + 1 \in Versions
      BY <1>2, BoundsAssumption DEF Amend, TypeInv, TypeOK, Versions
    <2>2. review[c] \in Commit /\ review[c].up <= upstream
      BY <1>2 DEF Amend, TypeInv, TypeOK, TipsOK, Ref
    <2> QED
      BY <1>2, <2>1, <2>2, PushOnType DEF Amend
  <1>3. CASE Resolve(c)
    <2>1. work[c] \in Versions
      BY DEF TypeInv, TypeOK
    <2> QED
      BY <1>3, <2>1, HandBaseType, PushOnType DEF Resolve
  <1> QED
    BY <1>1, <1>2, <1>3

LEMMA EnvironmentType == TypeInv /\ Environment => TypeInv'
  BY UpstreamMovesType, UpstreamTakesType, UpstreamMergesPullsType, MaintainerType
  DEF Environment

-----------------------------------------------------------------------------
(* The steps of the run. *)

LEMMA EndRunType ==
    ASSUME TypeInv, EndRun, faults' \in 0..MaxFaults, page' \in [Chunks -> Card],
           UNCHANGED <<upstream, merged, review, cand, by, work, green>>
    PROVE  TypeInv'
  <1>1. TypeOK'
    BY ChunksAssumption, BoundsAssumption
    DEF TypeInv, TypeOK, EndRun, Blank, Row, Ref, Failed, Upstreams, Chunks
  <1>2. RowsOK' /\ TipsOK'
    BY BoundsAssumption DEF TypeInv, TypeOK, RowsOK, TipsOK, Built, EndRun, Upstreams
  <1> QED
    BY <1>1, <1>2 DEF TypeInv

LEMMA FaultType == TypeInv /\ (Fault \/ NoFault) => faults' \in 0..MaxFaults
  BY BoundsAssumption DEF TypeInv, TypeOK, Fault, NoFault

LEMMA StartRunType == TypeInv /\ StartRun => TypeInv'
  <1> SUFFICES ASSUME TypeInv, StartRun PROVE TypeInv'
    OBVIOUS
  <1>1. TypeOK'
    BY ChunksAssumption DEF TypeInv, TypeOK, StartRun, world, Chunks
  <1>2. RowsOK'
    BY DEF RowsOK, Built, StartRun, Chunks
  <1>3. TipsOK'
    BY DEF TypeInv, TypeOK, TipsOK, StartRun, world, Upstreams
  <1> QED
    BY <1>1, <1>2, <1>3 DEF TypeInv

\* A turn of the rebuild's loop that writes a sound row.
LEMMA RebuildChunkType ==
    ASSUME NEW c \in Chunks, NEW row \in Row, Sound(c, row), TypeInv,
           RebuildTurn(c), RebuildChunk(c, row), Fault \/ NoFault
    PROVE  TypeInv'
  <1>1. at' \in 1..(N + 1)
    BY ChunksAssumption DEF TypeInv, TypeOK, RebuildTurn, RebuildChunk, Chunks
  <1>2. TypeOK'
    BY <1>1, FaultType DEF TypeInv, TypeOK, RebuildChunk, world
  <1>3. RowsOK'
    <2> SUFFICES ASSUME NEW d \in Chunks, Built(d)' PROVE Sound(d, st[d])'
      BY DEF RowsOK
    <2>1. d = c \/ Built(d)
      BY ChunksAssumption DEF Built, RebuildTurn, RebuildChunk, Chunks
    <2>2. Sound(d, st'[d])
      BY <2>1 DEF TypeInv, TypeOK, RowsOK, RebuildChunk
    <2> QED
      BY <2>2 DEF Sound, RebuildChunk
  <1>4. TipsOK'
    BY DEF TypeInv, TipsOK, RebuildChunk, world
  <1> QED
    BY <1>2, <1>3, <1>4 DEF TypeInv

LEMMA RebuiltType ==
    ASSUME NEW c \in Chunks, TypeInv,
           NEW rebase \in Failed \union {"ok", "unchanged"}, NEW candidate \in Ref,
           NEW tests \in {"none", "pending"}, NEW landed \in BOOLEAN
    PROVE  Rebuilt(c, rebase, candidate, tests, landed) \in Row
  <1>1. seen[c] \in Ref /\ page[c] \in Card
    BY DEF TypeInv, TypeOK
  <1> QED
    BY <1>1 DEF Rebuilt, Row, Card

\* A chunk whose parent did not fail has a commit to stand on.
LEMMA NewBaseType ==
    ASSUME NEW c \in Chunks, TypeInv, RebuildTurn(c), ~ParentFailed(c)
    PROVE  NewBase(c) \in Commit /\ NewBase(c).up = on
  <1>1. CASE Requires[c] = 0
    BY <1>1, UpstreamAtType DEF NewBase, TypeInv, TypeOK
  <1>2. CASE Requires[c] # 0
    <2>1. Requires[c] \in Chunks /\ Requires[c] < c
      BY <1>2, OrderAssumption, ChunksAssumption DEF Chunks
    <2>2. Sound(Requires[c], st[Requires[c]])
      BY <2>1 DEF TypeInv, RowsOK, Built, RebuildTurn
    <2> QED
      BY <1>2, <2>2 DEF NewBase, ParentFailed, Sound
  <1> QED
    BY <1>1, <1>2

LEMMA RebuildFailsType ==
    ASSUME NEW c \in Chunks, TypeInv,
           RebuildBehind(c) \/ RebuildMissing(c) \/ RebuildConflict(c)
    PROVE  TypeInv'
  <1>1. PICK row \in Row : row.rebase \in Failed /\ RebuildChunk(c, row)
    <2> DEFINE behind == Rebuilt(c, "parent-behind", NoBranch, "none", FALSE)
               stopped == Rebuilt(c, "conflict", NoBranch, "none", FALSE)
    <2>1. behind \in Row /\ stopped \in Row
      BY RebuiltType DEF Failed, Ref
    <2>2. /\ [behind EXCEPT !.published = NoBranch] \in Row
          /\ [behind EXCEPT !.published = NoBranch].rebase \in Failed
          /\ stopped.rebase \in Failed
      BY <2>1 DEF Row, Ref, Rebuilt, Failed
    <2> QED
      BY <2>1, <2>2 DEF RebuildBehind, RebuildMissing, RebuildConflict
  <1>2. Sound(c, row)
    BY <1>1 DEF Sound, Failed
  <1> QED
    BY <1>1, <1>2, RebuildChunkType DEF RebuildBehind, RebuildMissing, RebuildConflict

LEMMA RebuildUnchangedType ==
    ASSUME NEW c \in Chunks, TypeInv, RebuildUnchanged(c) PROVE TypeInv'
  <1> DEFINE row == Rebuilt(c, "unchanged", seen[c], "none", FALSE)
  <1>1. seen[c] \in Commit /\ seen[c].up = on
    BY NewBaseType DEF RebuildUnchanged, StandsOn, TypeInv, TypeOK, Ref
  <1>2. row \in Row
    BY <1>1, RebuiltType DEF Ref
  <1>3. Sound(c, row)
    BY <1>1 DEF Rebuilt, Sound, Failed
  <1> QED
    BY <1>2, <1>3, RebuildChunkType DEF RebuildUnchanged

LEMMA RebuildMovedType ==
    ASSUME NEW c \in Chunks, TypeInv, RebuildMoved(c) PROVE TypeInv'
  <1> DEFINE new == Rebased(c, seen[c], NewBase(c))
             landed == new.own[c] = 0
             row == Rebuilt(c, "ok", new, IF landed THEN "none" ELSE "pending", landed)
  <1>1. NewBase(c) \in Commit /\ NewBase(c).up = on
    BY NewBaseType DEF RebuildMoved
  <1>2. seen[c] \in Commit /\ seen[c].up <= on
    BY DEF RebuildMoved, RebuildTurn, TypeInv, TypeOK, TipsOK, Ref
  <1>3. new \in Commit /\ new.up = on /\ new.own[c] \in {0, seen[c].own[c]}
    <2>1. PICK v \in {0, seen[c].own[c]} : new = [NewBase(c) EXCEPT !.own[c] = v]
      BY DEF Rebased
    <2>2. v \in Versions
      BY <1>2, BoundsAssumption DEF Commit, Versions
    <2> QED
      BY <1>1, <2>1, <2>2, EditType
  <1>4. row \in Row
    BY <1>3, RebuiltType DEF Ref
  <1>5. Sound(c, row)
    BY <1>2, <1>3 DEF Rebuilt, Sound, Failed
  <1> QED
    BY <1>4, <1>5, RebuildChunkType DEF RebuildMoved

\* A step after the rebuild that leaves its rows sound and upstream alone.
LEMMA LaterStep ==
    ASSUME TypeInv, TypeOK', phase \notin {"idle"}, phase = "rebuild" => at = N + 1,
           phase' \notin {"idle", "rebuild"}, UNCHANGED <<upstream, on>>,
           \A c \in Chunks : review'[c] \in {review[c], st[c].candidate, NoBranch},
           \A c \in Chunks : review'[c] # review[c] => st[c].rebase \notin Failed,
           \A c \in Chunks : Sound(c, st[c]) => Sound(c, st'[c])
    PROVE  TypeInv'
  <1>1. \A c \in Chunks : Sound(c, st[c])
    BY ChunksAssumption DEF TypeInv, RowsOK, Built, Chunks
  <1>2. RowsOK'
    BY <1>1 DEF RowsOK, Sound
  <1>3. TipsOK'
    BY <1>1 DEF TypeInv, TipsOK, TypeOK, Sound, Upstreams, Ref, Commit
  <1> QED
    BY <1>2, <1>3 DEF TypeInv

LEMMA PushCandidatesType == TypeInv /\ PushCandidates => TypeInv'
  <1> SUFFICES ASSUME TypeInv, PushCandidates PROVE TypeInv'
    OBVIOUS
  <1>1. TypeOK'
    BY DEF TypeInv, TypeOK, PushCandidates, Row, Ref
  <1> QED
    BY <1>1, LaterStep DEF PushCandidates

LEMMA TestType == ASSUME NEW c \in Chunks, TypeInv, Test(c) PROVE TypeInv'
  <1>1. TypeOK'
    BY FaultType DEF TypeInv, TypeOK, Test, world
  <1> QED
    BY <1>1, LaterStep DEF Test, world

LEMMA StartPublishType == TypeInv /\ StartPublish => TypeInv'
  <1> SUFFICES ASSUME TypeInv, StartPublish PROVE TypeInv'
    OBVIOUS
  <1>1. TypeOK'
    BY FaultType, ChunksAssumption DEF TypeInv, TypeOK, StartPublish, world, Chunks
  <1> QED
    BY <1>1, LaterStep DEF StartPublish, world

LEMMA PromoteTurnType ==
    ASSUME NEW c \in Chunks, TypeInv, PromoteTurn(c) PROVE at' \in 1..(N + 1)
  BY ChunksAssumption DEF TypeInv, TypeOK, PromoteTurn, Chunks

LEMMA PromoteStepType ==
    ASSUME NEW c \in Chunks, TypeInv,
           PromoteSettled(c) \/ PromotePush(c) \/ PromoteRefused(c) \/ PromoteHeld(c)
    PROVE  TypeInv'
  <1>1. PromoteTurn(c)
    BY DEF PromoteSettled, PromotePush, PromoteRefused, PromoteHeld
  <1>2. at' \in 1..(N + 1)
    BY <1>1, PromoteTurnType
  <1>3. CASE PromotePush(c)
    <2>1. TypeOK'
      BY <1>2, <1>3 DEF TypeInv, TypeOK, PromotePush, PromoteTurn, Row
    <2> QED
      BY <1>3, <2>1, LaterStep
      DEF PromotePush, PromoteTurn, Promotable, Failed, TypeInv, TypeOK
  <1>4. CASE ~PromotePush(c)
    <2>1. UNCHANGED review
      BY <1>4 DEF PromoteSettled, PromoteRefused, PromoteHeld
    <2>2. TypeOK'
      BY <1>2, <1>4, FaultType DEF TypeInv, TypeOK, PromoteSettled, PromoteRefused, PromoteHeld, PromoteTurn
    <2> QED
      BY <1>1, <2>1, <2>2, LaterStep DEF PromoteTurn
  <1> QED
    BY <1>3, <1>4

\* facts rewrites one field of a row.
LEMMA LandRow ==
    ASSUME NEW row \in Row, NEW landed \in BOOLEAN,
           NEW new, new = [row EXCEPT !.landed = landed]
    PROVE  /\ new \in Row
           /\ new.rebase = row.rebase /\ new.landed = landed
           /\ new.candidate = row.candidate /\ new.published = row.published
           /\ new.last_good = row.last_good
  BY DEF Row

\* What promote writes into a row leaves the rebuild's part of it alone.
LEMMA StampedType ==
    ASSUME NEW c \in Chunks, TypeInv
    PROVE  /\ Stamped(c) \in Row
           /\ Stamped(c).rebase = st[c].rebase /\ Stamped(c).landed = st[c].landed
           /\ Stamped(c).candidate = st[c].candidate
           /\ Stamped(c).published = st[c].published
           /\ Stamped(c).last_good \in {st[c].last_good, on}
  <1>1. st[c] \in Row /\ on \in Upstreams
    BY DEF TypeInv, TypeOK
  <1>2. CASE ~(c \in Matrix \/ (st[c].rebase = "ok" /\ ~st[c].landed))
    BY <1>1, <1>2 DEF Stamped
  <1>3. CASE c \in Matrix \/ (st[c].rebase = "ok" /\ ~st[c].landed)
    <2> DEFINE tests == IF c \notin HasTests THEN "none" ELSE IF Passed(c) THEN "pass" ELSE "fail"
               promoted == c \in moved
               verified == IF Verified(c) THEN on ELSE st[c].verified_at
               good == IF Verified(c) THEN on ELSE st[c].last_good
    <2>1. tests \in {"pass", "fail", "none"} /\ promoted \in BOOLEAN
      OBVIOUS
    <2>2. verified \in {st[c].verified_at, on} /\ good \in {st[c].last_good, on}
      OBVIOUS
    <2>3. Stamped(c) = [st[c] EXCEPT !.tests = tests, !.promoted = promoted,
                                     !.verified_at = verified, !.last_good = good]
      BY <1>3, Zenon DEF Stamped
    <2> HIDE DEF tests, promoted, verified, good
    <2>4. verified \in Upstreams \union {Never} /\ good \in Upstreams \union {Never}
      BY <1>1, <2>2 DEF Row
    <2> DEFINE row == st[c]
               new == Stamped(c)
    <2>5. new = [row EXCEPT !.tests = tests, !.promoted = promoted,
                            !.verified_at = verified, !.last_good = good]
      BY <2>3
    <2> HIDE DEF row, new
    <2>6. row \in Row
      BY <1>1 DEF row
    <2>7. /\ new \in Row
          /\ new.rebase = row.rebase /\ new.landed = row.landed
          /\ new.candidate = row.candidate /\ new.published = row.published
          /\ new.last_good = good
      BY <2>1, <2>4, <2>5, <2>6 DEF Row
    <2> QED
      BY <2>2, <2>7 DEF row, new
  <1> QED
    BY <1>2, <1>3

LEMMA FinishPromoteType == TypeInv /\ FinishPromote => TypeInv'
  <1> SUFFICES ASSUME TypeInv, FinishPromote PROVE TypeInv'
    OBVIOUS
  <1>1. TypeOK'
    BY StampedType, FaultType DEF TypeInv, TypeOK, FinishPromote, Ref
  <1>2. \A c \in Chunks : Sound(c, st[c]) => Sound(c, st'[c])
    BY StampedType DEF FinishPromote, Sound
  <1> QED
    BY <1>1, <1>2, LaterStep DEF FinishPromote

LEMMA PromoteDiesType == TypeInv /\ PromoteDies => TypeInv'
  <1> SUFFICES ASSUME TypeInv, PromoteDies PROVE TypeInv'
    OBVIOUS
  <1>1. TypeOK'
    BY FaultType DEF TypeInv, TypeOK, PromoteDies, world
  <1> QED
    BY <1>1, LaterStep DEF PromoteDies, world

LEMMA FactsType == TypeInv /\ Facts => TypeInv'
  <1> SUFFICES ASSUME TypeInv, Facts PROVE TypeInv'
    OBVIOUS
  <1>1. \A c \in Chunks : \E landed \in BOOLEAN :
           (st[c].landed => landed) /\ st'[c] = [st[c] EXCEPT !.landed = landed]
    <2> TAKE c \in Chunks
    <2>1. PICK u \in on..upstream, missed \in SUBSET {d \in Chunks : merged[d].squash} :
             st' = [d \in Chunks |->
                      [st[d] EXCEPT !.landed =
                         \/ @
                         \/ merged[d].pulls
                         \/ /\ review[d] # NoBranch
                            /\ Merged(d, review[d].own[d], u)
                            /\ d \notin missed]]
      BY DEF Facts
    <2> DEFINE landed == \/ st[c].landed
                         \/ merged[c].pulls
                         \/ /\ review[c] # NoBranch
                            /\ Merged(c, review[c].own[c], u)
                            /\ c \notin missed
    <2>2. landed \in BOOLEAN /\ (st[c].landed => landed)
      OBVIOUS
    <2>3. st'[c] = [st[c] EXCEPT !.landed = landed]
      BY <2>1, Zenon
    <2> HIDE DEF landed
    <2> QED
      BY <2>2, <2>3
  <1>2. st' \in [Chunks -> Row]
    <2>1. ASSUME NEW c \in Chunks PROVE st'[c] \in Row
      <3>1. PICK landed \in BOOLEAN : st'[c] = [st[c] EXCEPT !.landed = landed]
        BY <1>1
      <3>2. st[c] \in Row
        BY DEF TypeInv, TypeOK
      <3> QED
        BY <3>1, <3>2, LandRow
    <2>2. st' = [c \in Chunks |-> st'[c]]
      BY DEF Facts
    <2> QED
      BY <2>1, <2>2
  <1>3. TypeOK'
    BY <1>2 DEF TypeInv, TypeOK, Facts, world
  <1>4. \A c \in Chunks : Sound(c, st[c]) => Sound(c, st'[c])
    <2> TAKE c \in Chunks
    <2>1. PICK landed \in BOOLEAN :
             (st[c].landed => landed) /\ st'[c] = [st[c] EXCEPT !.landed = landed]
      BY <1>1
    <2>2. /\ st'[c].rebase = st[c].rebase /\ st'[c].landed = landed
          /\ st'[c].candidate = st[c].candidate /\ st'[c].published = st[c].published
      BY <2>1, LandRow DEF TypeInv, TypeOK
    <2> QED
      BY <2>1, <2>2 DEF Sound
  <1> QED
    BY <1>3, <1>4, LaterStep DEF Facts, world

LEMMA DeployType == TypeInv /\ Deploy => TypeInv'
  <1> SUFFICES ASSUME TypeInv, Deploy PROVE TypeInv'
    OBVIOUS
  <1>1. page' \in [Chunks -> Card]
    BY DEF TypeInv, TypeOK, Deploy, Status, Card, Kinds, Row
  <1> QED
    BY <1>1, EndRunType DEF Deploy, TypeInv, TypeOK

LEMMA RunDiesType == TypeInv /\ RunDies => TypeInv'
  BY EndRunType, FaultType DEF RunDies, TypeInv, TypeOK, world

LEMMA RunStepType == TypeInv /\ RunStep => TypeInv'
  BY StartRunType, RebuildFailsType, RebuildUnchangedType, RebuildMovedType,
     PushCandidatesType, TestType, StartPublishType, PromoteStepType,
     FinishPromoteType, FactsType, DeployType
  DEF RunStep, RebuildStep, PromoteStep

LEMMA NextTypeInv == TypeInv /\ [Next]_vars => TypeInv'
  <1> SUFFICES ASSUME TypeInv, [Next]_vars PROVE TypeInv'
    OBVIOUS
  <1>1. CASE UNCHANGED vars
    BY <1>1 DEF vars, TypeInv, TypeOK, RowsOK, TipsOK, Sound, Built
  <1>2. CASE Next
    BY <1>2, EnvironmentType, RunStepType, PromoteDiesType, RunDiesType DEF Next
  <1> QED
    BY <1>1, <1>2

LEMMA AlwaysTypeInv == Spec => []TypeInv
  BY InitTypeInv, NextTypeInv, PTL DEF Spec

\* Every variable keeps its type.  It is not inductive alone: that a rebased
\* chunk's candidate is a commit rests on its parent's row being sound.
THEOREM TypeCorrect == Spec => []TypeOK
  BY AlwaysTypeInv, PTL DEF TypeInv

-----------------------------------------------------------------------------
(* What happens to the review branches. *)

\* A promoted candidate is the work the branch holds, on no older upstream.
LEMMA PromotedWork ==
    ASSUME NEW c \in Chunks, TypeInv, PromotePush(c)
    PROVE  /\ review[c] \in Commit /\ st[c].candidate \in Commit
           /\ st[c].candidate.own[c] = review[c].own[c]
           /\ st[c].candidate.up >= review[c].up
  <1>1. Sound(c, st[c])
    BY DEF PromotePush, PromoteTurn, TypeInv, RowsOK, Built
  <1>2. st[c].rebase = "ok" /\ ~st[c].landed /\ review[c] = st[c].published
    BY DEF PromotePush, Promotable, Settled, LeaseHolds
  <1> QED
    BY <1>1, <1>2 DEF Sound, Failed, TypeInv, TypeOK, Commit, Upstreams

\* Only promote and a maintainer move a review branch, and only they and a test
\* job change what is known of it.
LEMMA WhoMovesReview ==
    ASSUME TypeInv, [Next]_vars
    PROVE  \/ UNCHANGED <<review, by, work, green>>
           \/ \E c \in Chunks : PromotePush(c) \/ Test(c)
           \/ \E c \in Chunks, new \in Commit : Push(c, new)
  <1>1. CASE UNCHANGED vars
    BY <1>1 DEF vars
  <1>2. CASE Maintainer
    <2>1. PICK c \in Chunks : Seed(c) \/ Amend(c) \/ Resolve(c)
      BY <1>2 DEF Maintainer
    <2>2. PICK base \in Commit, v \in Versions : Push(c, [base EXCEPT !.own[c] = v])
      <3>1. CASE Seed(c)
        BY <3>1, HandBaseType, BoundsAssumption DEF Seed, Versions
      <3>2. CASE Amend(c)
        <4>1. review[c] \in Commit /\ work[c] + 1 \in Versions
          BY <3>2, BoundsAssumption DEF Amend, TypeInv, TypeOK, Versions, Ref
        <4> QED
          BY <3>2, <4>1 DEF Amend
      <3>3. CASE Resolve(c)
        BY <3>3, HandBaseType DEF Resolve, TypeInv, TypeOK
      <3> QED
        BY <2>1, <3>1, <3>2, <3>3
    <2> QED
      BY <2>2, EditType
  <1>3. CASE Environment /\ ~Maintainer
    BY <1>3 DEF Environment, UpstreamMoves, UpstreamTakes, UpstreamMergesPulls
  <1>4. CASE RunStep
    BY <1>4
    DEF RunStep, RebuildStep, PromoteStep, StartRun, RebuildBehind, RebuildMissing,
        RebuildUnchanged, RebuildMoved, RebuildConflict, RebuildChunk, PushCandidates,
        StartPublish, PromoteSettled, PromoteRefused, PromoteHeld, PromoteTurn,
        FinishPromote, Facts, Deploy, world
  <1>5. CASE PromoteDies \/ RunDies
    BY <1>5 DEF PromoteDies, RunDies, world
  <1> QED
    BY <1>1, <1>2, <1>3, <1>4, <1>5 DEF Next

LEMMA InitNoLostWork == Init => NoLostWork
  BY DEF Init, NoLostWork

LEMMA NextNoLostWork == TypeInv /\ NoLostWork /\ [Next]_vars => NoLostWork'
  <1> SUFFICES ASSUME TypeInv, NoLostWork, [Next]_vars PROVE NoLostWork'
    OBVIOUS
  <1>1. CASE UNCHANGED <<review, by, work, green>>
    BY <1>1 DEF NoLostWork
  <1>2. ASSUME NEW c \in Chunks, PromotePush(c) PROVE NoLostWork'
    <2>1. review[c] # NoBranch
      BY <1>2, PromotedWork, RefAssumption
    <2> QED
      BY <1>2, <2>1, PromotedWork DEF NoLostWork, PromotePush, PromoteTurn, TypeInv, TypeOK
  <1>3. ASSUME NEW c \in Chunks, Test(c) PROVE NoLostWork'
    BY <1>3 DEF NoLostWork, Test, world
  <1>4. ASSUME NEW c \in Chunks, NEW new \in Commit, Push(c, new) PROVE NoLostWork'
    BY <1>4 DEF NoLostWork, Push, TypeInv, TypeOK
  <1> QED
    BY <1>1, <1>2, <1>3, <1>4, WhoMovesReview

\* Whatever the run does and however a maintainer's push interleaves with it,
\* a review branch keeps the version its maintainer pushed last.
THEOREM WorkIsKept == Spec => []NoLostWork
  BY InitNoLostWork, NextNoLostWork, AlwaysTypeInv, PTL DEF Spec

-----------------------------------------------------------------------------
(* The stamps. *)

\* No stamp is newer than the upstream it was taken on, and a row carries at
\* least the stamp of the deployed page.
StampsOK ==
    \A c \in Chunks :
        /\ page[c].last_good <= upstream
        /\ phase # "idle" => page[c].last_good <= on
        /\ Built(c) => page[c].last_good <= st[c].last_good /\ st[c].last_good <= on

\* The steps between two of a run that leave every stamp and its bound alone.
LEMMA QuietStamps ==
    ASSUME TypeInv, TypeInv', StampsOK, UNCHANGED <<page, on>>, upstream' >= upstream,
           phase' # "idle" => phase # "idle",
           \A c \in Chunks : Built(c)' => Built(c) /\ st'[c].last_good \in {st[c].last_good, on}
    PROVE  StampsOK'
  <1> SUFFICES ASSUME NEW c \in Chunks
               PROVE  /\ page'[c].last_good <= upstream'
                      /\ phase' # "idle" => page'[c].last_good <= on'
                      /\ Built(c)' => /\ page'[c].last_good <= st'[c].last_good
                                      /\ st'[c].last_good <= on'
    BY DEF StampsOK
  <1>1. /\ page[c].last_good \in Upstreams \union {Never}
        /\ st[c].last_good \in Upstreams \union {Never}
        /\ on \in Upstreams /\ upstream \in Upstreams /\ upstream' \in Upstreams
    BY DEF TypeInv, TypeOK, Row, Card
  <1>2. Built(c) => phase # "idle"
    BY DEF Built
  <1> QED
    BY <1>1, <1>2 DEF StampsOK, Upstreams

LEMMA InitStamps == Init => StampsOK
  BY DEF Init, FreshRun, StampsOK, Built

LEMMA RebuildStamps ==
    ASSUME NEW c \in Chunks, TypeInv, TypeInv', StampsOK,
           \/ RebuildBehind(c) \/ RebuildMissing(c) \/ RebuildUnchanged(c)
           \/ RebuildMoved(c) \/ RebuildConflict(c)
    PROVE  StampsOK'
  <1>1. /\ RebuildTurn(c) /\ at' = at + 1 /\ UNCHANGED <<upstream, page, phase, on>>
        /\ \A d \in Chunks \ {c} : st'[d] = st[d]
        /\ st'[c].last_good = page[c].last_good
    BY DEF RebuildBehind, RebuildMissing, RebuildUnchanged, RebuildMoved,
           RebuildConflict, RebuildChunk, Rebuilt, world, TypeInv, TypeOK
  <1> SUFFICES ASSUME NEW d \in Chunks, Built(d)'
               PROVE  page[d].last_good <= st'[d].last_good /\ st'[d].last_good <= on
    BY <1>1 DEF StampsOK
  <1>2. page[d].last_good \in Upstreams \union {Never}
    BY DEF TypeInv, TypeOK, Card
  <1>3. CASE d = c
    BY <1>1, <1>2, <1>3 DEF StampsOK, RebuildTurn, Upstreams
  <1>4. CASE d # c
    <2>1. Built(d)
      BY <1>1, <1>4, ChunksAssumption DEF Built, RebuildTurn, Chunks
    <2> QED
      BY <1>1, <1>4, <2>1 DEF StampsOK
  <1> QED
    BY <1>3, <1>4

LEMMA DeployStamps ==
    ASSUME TypeInv, StampsOK, Deploy
    PROVE  StampsOK' /\ \A c \in Chunks : page'[c].last_good >= page[c].last_good
  <1>1. \A c \in Chunks : page'[c].last_good = st[c].last_good /\ Built(c)
    BY DEF Deploy, Built
  <1>2. \A c \in Chunks : /\ page[c].last_good \in Upstreams \union {Never}
                          /\ st[c].last_good \in Upstreams \union {Never}
    BY DEF TypeInv, TypeOK, Row, Card
  <1> QED
    BY <1>1, <1>2 DEF Deploy, EndRun, Built, StampsOK, TypeInv, TypeOK, TipsOK, Upstreams

LEMMA NextStamps ==
    ASSUME TypeInv, TypeInv', StampsOK, [Next]_vars PROVE StampsOK'
  <1>1. CASE UNCHANGED vars
    BY <1>1 DEF vars, StampsOK, Built
  <1>2. CASE Environment
    <2>1. UNCHANGED <<page, run>>
      BY <1>2
      DEF Environment, UpstreamMoves, UpstreamTakes, UpstreamMergesPulls, Maintainer,
          Seed, Amend, Resolve, Push
    <2>2. upstream' \in {upstream, upstream + 1}
      BY <1>2
      DEF Environment, UpstreamMoves, UpstreamTakes, UpstreamMergesPulls, Maintainer,
          Seed, Amend, Resolve, Push
    <2>3. upstream' >= upstream
      BY <2>2 DEF TypeInv, TypeOK, Upstreams
    <2> QED
      BY <2>1, <2>3, QuietStamps DEF run, Built
  <1>3. CASE StartRun
    BY <1>3 DEF StartRun, StampsOK, Built, world, Chunks
  <1>4. CASE RebuildStep
    BY <1>4, RebuildStamps DEF RebuildStep
  <1>5. CASE PushCandidates \/ StartPublish \/ PromoteDies \/ (\E c \in Chunks : Test(c))
    <2>1. /\ UNCHANGED <<upstream, page, on, st>>
          /\ phase # "idle" /\ (phase = "rebuild" => at = N + 1)
      BY <1>5 DEF PushCandidates, StartPublish, PromoteDies, Test, world
    <2>2. \A c \in Chunks : Built(c)
      BY <2>1, ChunksAssumption DEF Built, Chunks
    <2> QED
      BY <2>1, <2>2, QuietStamps DEF TypeInv, TypeOK, Upstreams
  <1>6. CASE PromoteStep
    BY <1>6, QuietStamps
    DEF PromoteStep, PromoteSettled, PromotePush, PromoteRefused, PromoteHeld,
        PromoteTurn, Built, TypeInv, TypeOK, Upstreams
  <1>7. CASE FinishPromote
    <2>1. \A c \in Chunks : st'[c].last_good \in {st[c].last_good, on} /\ Built(c)
      BY <1>7, StampedType DEF FinishPromote, Built
    <2>2. UNCHANGED <<upstream, page, on>> /\ phase # "idle"
      BY <1>7 DEF FinishPromote
    <2> QED
      BY <2>1, <2>2, QuietStamps DEF TypeInv, TypeOK, Upstreams
  <1>8. CASE Facts
    <2>1. \A c \in Chunks : st'[c].last_good = st[c].last_good
      BY <1>8 DEF Facts, TypeInv, TypeOK, Row
    <2> QED
      BY <1>8, <2>1, QuietStamps DEF Facts, Built, world, TypeInv, TypeOK, Upstreams
  <1>9. CASE Deploy
    BY <1>9, DeployStamps
  <1>10. CASE RunDies
    BY <1>10 DEF RunDies, EndRun, StampsOK, Built, world
  <1> QED
    BY <1>1, <1>2, <1>3, <1>4, <1>5, <1>6, <1>7, <1>8, <1>9, <1>10 DEF Next, RunStep

LEMMA StampStep ==
    ASSUME TypeInv, StampsOK, [Next]_vars
    PROVE  [\A c \in Chunks : page'[c].last_good >= page[c].last_good]_page
  <1>1. CASE Deploy
    BY <1>1, DeployStamps
  <1>2. CASE ~Deploy
    BY <1>2
    DEF vars, Next, Environment, UpstreamMoves, UpstreamTakes, UpstreamMergesPulls, Maintainer, Seed, Amend,
        Resolve, Push, RunStep, RebuildStep, PromoteStep, StartRun, RebuildBehind,
        RebuildMissing, RebuildUnchanged, RebuildMoved, RebuildConflict, RebuildChunk,
        PushCandidates, Test, StartPublish, PromoteSettled, PromotePush, PromoteRefused,
        PromoteHeld, PromoteTurn, FinishPromote, PromoteDies, Facts, RunDies, world
  <1> QED
    BY <1>1, <1>2

\* No deployed page ever forgets a last good verification or takes it back,
\* whichever run failed in between.
THEOREM LastGoodIsKept == Spec => LastGoodKept
  <1>1. TypeInv /\ TypeInv' /\ StampsOK /\ [Next]_vars => StampsOK'
    BY NextStamps
  <1>2. TypeInv /\ StampsOK /\ [Next]_vars
           => [\A c \in Chunks : page'[c].last_good >= page[c].last_good]_page
    BY StampStep
  <1> QED
    BY <1>1, <1>2, InitStamps, AlwaysTypeInv, PTL DEF Spec, LastGoodKept

-----------------------------------------------------------------------------
(* The run implements ReviewBranch. *)

\* Until promote is over, the scratch branches hold the candidates, and a green
\* result was had on one of them.
CandidatesOK ==
    /\ phase \in {"idle", "rebuild"} => \A c \in Chunks : results[c] = "none"
    /\ phase \in {"test", "promote"} =>
          \A c \in Chunks :
             /\ st[c].candidate # NoBranch => cand[c] = st[c].candidate
             /\ results[c] = "pass" => ran[c] = cand[c]

LEMMA InitCandidates == Init => CandidatesOK
  BY DEF Init, FreshRun, CandidatesOK

LEMMA NextCandidates ==
    ASSUME TypeInv, CandidatesOK, [Next]_vars PROVE CandidatesOK'
  <1>1. CASE UNCHANGED vars
    BY <1>1 DEF vars, CandidatesOK
  <1>2. CASE Environment
    BY <1>2
    DEF Environment, UpstreamMoves, UpstreamTakes, UpstreamMergesPulls, Maintainer, Seed, Amend, Resolve,
        Push, run, CandidatesOK
  <1>3. CASE StartRun \/ RebuildStep
    <2>1. phase \in {"idle", "rebuild"} /\ phase' = "rebuild" /\ UNCHANGED results
      BY <1>3
      DEF StartRun, RebuildStep, RebuildBehind, RebuildMissing, RebuildUnchanged,
          RebuildMoved, RebuildConflict, RebuildTurn, RebuildChunk
    <2> QED
      BY <2>1 DEF CandidatesOK
  <1>4. CASE PushCandidates
    BY <1>4 DEF PushCandidates, CandidatesOK
  <1>5. ASSUME NEW c \in Chunks, Test(c) PROVE CandidatesOK'
    BY <1>5 DEF Test, CandidatesOK, TypeInv, TypeOK, world
  <1>6. CASE StartPublish
    BY <1>6 DEF StartPublish, CandidatesOK, world
  <1>7. CASE PromoteStep
    BY <1>7
    DEF PromoteStep, PromoteSettled, PromotePush, PromoteRefused, PromoteHeld,
        PromoteTurn, CandidatesOK
  <1>8. CASE FinishPromote \/ PromoteDies \/ Facts
    BY <1>8 DEF FinishPromote, PromoteDies, Facts, CandidatesOK
  <1>9. CASE Deploy \/ RunDies
    BY <1>9 DEF Deploy, RunDies, EndRun, CandidatesOK
  <1> QED
    BY <1>1, <1>2, <1>3, <1>4, <1>5, <1>6, <1>7, <1>8, <1>9 DEF Next, RunStep

\* A chunk that declares tests is promoted only with a commit they passed on.
LEMMA PromotedGreen ==
    ASSUME NEW c \in Chunks, TypeInv, CandidatesOK, PromotePush(c)
    PROVE  /\ c \in HasTests => green' = green \union {c}
           /\ green' \in {green \union {c}, green \ {c}}
  <1>1. st[c].candidate # NoBranch
    BY PromotedWork, RefAssumption
  <1>2. c \in HasTests => results[c] = "pass" /\ ran[c] = st[c].candidate
    BY <1>1 DEF PromotePush, PromoteTurn, Promotable, Passed, CandidatesOK
  <1> QED
    BY <1>2 DEF PromotePush

LEMMA InitPromise == Init => Branches!Init
  BY DEF Init, Branches!Init

LEMMA NextPromise ==
    ASSUME TypeInv, CandidatesOK, [Next]_vars PROVE [Branches!Next]_Branches!vars
  <1>1. CASE UNCHANGED <<review, by, work, green>>
    BY <1>1 DEF Branches!vars
  <1>2. ASSUME NEW c \in Chunks, PromotePush(c) PROVE Branches!Republish(c)
    <2>1. /\ review' = [review EXCEPT ![c] = st[c].candidate]
          /\ by' = [by EXCEPT ![c] = "run"]
      BY <1>2 DEF PromotePush
    <2> QED
      BY <1>2, <2>1, PromotedWork, PromotedGreen DEF Branches!Republish
  <1>3. ASSUME NEW c \in Chunks, Test(c) PROVE Branches!Verify(c) \/ UNCHANGED <<review, by, green>>
    BY <1>3 DEF Test, world, Branches!Verify
  <1>4. ASSUME NEW c \in Chunks, NEW new \in Commit, Push(c, new) PROVE Branches!Offer(c)
    BY <1>4 DEF Push, Branches!Offer
  <1> QED
    BY <1>1, <1>2, <1>3, <1>4, WhoMovesReview DEF Branches!Next, Branches!vars

\* The whole run, from checkout to deploy and with every failure of it, is an
\* implementation of what a consumer of review/* is promised.
THEOREM RunKeepsPromise == Spec => Promise
  <1>1. TypeInv /\ CandidatesOK /\ [Next]_vars => CandidatesOK'
    BY NextCandidates
  <1>2. TypeInv /\ CandidatesOK /\ [Next]_vars => [Branches!Next]_Branches!vars
    BY NextPromise
  <1> QED
    BY <1>1, <1>2, InitCandidates, InitPromise, AlwaysTypeInv, PTL
    DEF Spec, Promise, Branches!Spec

-----------------------------------------------------------------------------
(* What promote publishes is a stack, a landed chunk is upstream, and a    *)
(* branch that is behind says so.  Each rests on what the rebuild left in  *)
(* a row and on review/* being as the rebuild saw it until it moves.       *)

\* The rebuild found nothing of c left over its new base.
Empty(c) == st[c].rebase = "ok" /\ st[c].candidate.own[c] = 0

\* What the rebuild writes into the row of c: a candidate on the base it had
\* then, which holds nothing of c itself or of a chunk that comes later.
Stands(c, row) ==
    /\ row.rebase \in Failed \union {"ok", "unchanged"}
    /\ row.rebase \notin Failed =>
          /\ NewBase(c) \in Commit
          /\ StandsOn(c, row.candidate, NewBase(c))
          /\ \A d \in Chunks : d >= c => NewBase(c).own[d] = 0
    /\ row.rebase = "unchanged" => row.candidate = seen[c]

RowsStand == \A c \in Chunks : Built(c) => Stands(c, st[c])

\* Before facts, a row is landed only if the rebuild found it empty.
LandedRows == phase # "deploy" => \A c \in Chunks : st[c].landed => Empty(c)

\* A review branch no maintainer touched is as the checkout found it, or what
\* promote pushed.
Unmoved ==
    \A c \in Chunks :
        phase # "idle" /\ c \notin touched =>
            review[c] = IF c \in moved THEN st[c].candidate ELSE seen[c]

Pushing == {"promote", "facts", "deploy"}

\* Promote's two sets: only a satisfied parent's children are pushed, and a
\* chunk is satisfied because it was pushed or had nothing to push.
PromotedOK ==
    /\ phase \notin Pushing => moved = {} /\ satisfied = {}
    /\ \A c \in moved :
          st[c].rebase = "ok" /\ (Requires[c] # 0 => Requires[c] \in satisfied)
    /\ \A c \in satisfied :
          \/ c \in moved
          \/ st[c].rebase = "unchanged"
          \/ Empty(c) /\ st[c].landed
    /\ \A c \in Chunks : st[c].promoted => c \in moved

StackInv == RowsStand /\ LandedRows /\ Unmoved /\ PromotedOK

\* A chunk's parent is another chunk, and comes before it.
LEMMA ParentBelow ==
    \A c \in Chunks : Requires[c] # 0 => Requires[c] \in Chunks /\ Requires[c] < c
  BY OrderAssumption, ChunksAssumption DEF Chunks

LEMMA InitStack == Init => StackInv
  <1> SUFFICES ASSUME Init PROVE StackInv
    OBVIOUS
  <1>1. RowsStand /\ Unmoved /\ PromotedOK
    BY DEF Init, FreshRun, RowsStand, Built, Unmoved, PromotedOK, Blank
  <1>2. LandedRows
    BY DEF Init, FreshRun, LandedRows, Blank
  <1> QED
    BY <1>1, <1>2 DEF StackInv

-----------------------------------------------------------------------------
(* Every step preserves StackInv. *)

\* A step that writes no row of its own: what the rebuild left in each stays.
LEMMA RowsKept ==
    ASSUME RowsStand, UNCHANGED <<on, seen>>,
           \A c \in Chunks : Built(c)' => Built(c),
           \A c \in Chunks : /\ st'[c].rebase = st[c].rebase
                             /\ st'[c].candidate = st[c].candidate
    PROVE  RowsStand'
  <1> SUFFICES ASSUME NEW c \in Chunks, Built(c)' PROVE Stands(c, st[c])'
    BY DEF RowsStand
  <1>1. NewBase(c)' = NewBase(c)
    BY ParentBelow DEF NewBase, UpstreamAt
  <1>2. Stands(c, st[c])
    BY DEF RowsStand
  <1> QED
    BY <1>1, <1>2 DEF Stands, StandsOn

\* A step between the rebuild and the deploy that pushes nothing.
LEMMA QuietStack ==
    ASSUME StackInv, UNCHANGED <<on, seen, review, moved, satisfied, touched>>,
           phase # "idle", phase' # "idle",
           phase \in Pushing => phase' \in Pushing,
           \A c \in Chunks : Built(c)' => Built(c),
           \A c \in Chunks : /\ st'[c].rebase = st[c].rebase
                             /\ st'[c].candidate = st[c].candidate
                             /\ st[c].landed => st'[c].landed
                             /\ st'[c].promoted => st[c].promoted \/ c \in moved,
           phase' # "deploy" => \A c \in Chunks : st'[c].landed = st[c].landed,
           phase' # "deploy" => phase # "deploy",
           moved \subseteq Chunks, satisfied \subseteq Chunks
    PROVE  StackInv'
  <1>1. RowsStand'
    BY RowsKept DEF StackInv
  <1>2. LandedRows'
    BY DEF StackInv, LandedRows, Empty
  <1>3. Unmoved'
    BY DEF StackInv, Unmoved
  <1>4. PromotedOK'
    BY DEF StackInv, PromotedOK, Empty
  <1> QED
    BY <1>1, <1>2, <1>3, <1>4 DEF StackInv

\* The world outside the run moves; a push marks the branch it moves.
LEMMA EnvironmentStack == ASSUME TypeInv, StackInv, Environment PROVE StackInv'
  <1>1. UNCHANGED run
    BY DEF Environment, UpstreamMoves, UpstreamTakes, UpstreamMergesPulls, Maintainer,
           Seed, Amend, Resolve, Push
  <1>2. \A d \in Chunks :
           phase # "idle" /\ d \notin touched' => d \notin touched /\ review'[d] = review[d]
    <2>1. CASE Maintainer
      <3>1. PICK c \in Chunks : \E new : Push(c, new)
        BY <2>1 DEF Maintainer, Seed, Amend, Resolve
      <3> QED
        BY <3>1 DEF Push, TypeInv, TypeOK
    <2>2. CASE ~Maintainer
      BY <2>2 DEF Environment, UpstreamMoves, UpstreamTakes, UpstreamMergesPulls, run
    <2> QED
      BY <2>1, <2>2
  <1>3. RowsStand'
    BY <1>1, RowsKept DEF StackInv, run, Built
  <1>4. LandedRows' /\ PromotedOK'
    BY <1>1 DEF StackInv, LandedRows, PromotedOK, Empty, run
  <1>5. Unmoved'
    BY <1>1, <1>2 DEF StackInv, Unmoved, run
  <1> QED
    BY <1>3, <1>4, <1>5 DEF StackInv

LEMMA StartRunStack == ASSUME StackInv, StartRun PROVE StackInv'
  <1>1. RowsStand'
    BY DEF StartRun, RowsStand, Built, Chunks
  <1>2. LandedRows' /\ PromotedOK'
    BY DEF StackInv, StartRun, LandedRows, PromotedOK, Empty, Pushing
  <1>3. Unmoved'
    BY DEF StackInv, StartRun, Unmoved, PromotedOK, Pushing, world
  <1> QED
    BY <1>1, <1>2, <1>3 DEF StackInv

\* A turn of the rebuild's loop: the rows before it do not move their bases.
LEMMA RebuildChunkStack ==
    ASSUME NEW c \in Chunks, NEW row, TypeInv, StackInv, RebuildTurn(c),
           RebuildChunk(c, row), Stands(c, row), row.promoted = FALSE,
           row.landed => row.rebase = "ok" /\ row.candidate.own[c] = 0
    PROVE  StackInv'
  <1>1. /\ st' = [st EXCEPT ![c] = row] /\ st \in [Chunks -> Row]
        /\ at = c /\ at' = at + 1 /\ phase = "rebuild"
        /\ UNCHANGED <<phase, on, seen, review, satisfied, moved, touched>>
    BY DEF RebuildChunk, RebuildTurn, TypeInv, TypeOK, world
  <1>2. RowsStand'
    <2> SUFFICES ASSUME NEW d \in Chunks, Built(d)' PROVE Stands(d, st[d])'
      BY DEF RowsStand
    <2>1. d <= c
      BY <1>1, ChunksAssumption DEF Built, Chunks
    <2>2. NewBase(d)' = NewBase(d)
      BY <1>1, <2>1, ParentBelow, ChunksAssumption DEF NewBase, UpstreamAt, Chunks
    <2>3. Stands(d, st'[d])
      BY <1>1, <2>1, ChunksAssumption DEF StackInv, RowsStand, Built, Chunks
    <2> QED
      BY <1>1, <2>2, <2>3 DEF Stands, StandsOn
  <1>3. LandedRows'
    BY <1>1 DEF StackInv, LandedRows, Empty
  <1>4. Unmoved' /\ PromotedOK'
    BY <1>1 DEF StackInv, Unmoved, PromotedOK, Pushing
  <1> QED
    BY <1>2, <1>3, <1>4 DEF StackInv

\* The base of a chunk holds nothing of that chunk or of a later one.
LEMMA BaseBelow ==
    ASSUME NEW c \in Chunks, TypeInv, StackInv, RebuildTurn(c), ~ParentFailed(c)
    PROVE  /\ NewBase(c) \in Commit
           /\ \A d \in Chunks : d >= c => NewBase(c).own[d] = 0
  <1>1. NewBase(c) \in Commit
    BY NewBaseType
  <1>2. CASE Requires[c] = 0
    <2>1. NewBase(c).own = [d \in Chunks |-> 0]
      BY <1>2 DEF NewBase, UpstreamAt
    <2> QED
      BY <1>1, <2>1
  <1>3. CASE Requires[c] # 0
    <2>1. Requires[c] \in Chunks /\ Requires[c] < c /\ Built(Requires[c])
      BY <1>3, ParentBelow DEF Built, RebuildTurn
    <2>2. Stands(Requires[c], st[Requires[c]])
      BY <2>1 DEF StackInv, RowsStand
    <2> QED
      BY <1>1, <1>3, <2>1, <2>2, ChunksAssumption DEF NewBase, ParentFailed, Stands, StandsOn,
                                                     Chunks
  <1> QED
    BY <1>1, <1>2, <1>3

LEMMA RebuildFailsStack ==
    ASSUME NEW c \in Chunks, TypeInv, StackInv,
           RebuildBehind(c) \/ RebuildMissing(c) \/ RebuildConflict(c)
    PROVE  StackInv'
  <1>1. PICK row : /\ row.rebase \in Failed /\ row.landed = FALSE
                     /\ row.promoted = FALSE /\ RebuildChunk(c, row)
    BY DEF RebuildBehind, RebuildMissing, RebuildConflict, Rebuilt, Failed
  <1>2. Stands(c, row)
    BY <1>1 DEF Stands, Failed
  <1> QED
    BY <1>1, <1>2, RebuildChunkStack DEF RebuildBehind, RebuildMissing, RebuildConflict

LEMMA RebuildUnchangedStack ==
    ASSUME NEW c \in Chunks, TypeInv, StackInv, RebuildUnchanged(c) PROVE StackInv'
  <1> DEFINE row == Rebuilt(c, "unchanged", seen[c], "none", FALSE)
  <1>1. /\ row.rebase = "unchanged" /\ row.candidate = seen[c] /\ row.landed = FALSE
        /\ row.promoted = FALSE /\ RebuildTurn(c) /\ RebuildChunk(c, row)
    BY DEF Rebuilt, RebuildUnchanged
  <1>2. /\ NewBase(c) \in Commit /\ StandsOn(c, seen[c], NewBase(c))
        /\ \A d \in Chunks : d >= c => NewBase(c).own[d] = 0
    BY BaseBelow DEF RebuildUnchanged
  <1> HIDE DEF row
  <1>3. Stands(c, row)
    BY <1>1, <1>2, ChunksAssumption DEF Stands, StandsOn, Failed, Chunks
  <1> QED
    BY <1>1, <1>3, RebuildChunkStack

LEMMA RebuildMovedStack ==
    ASSUME NEW c \in Chunks, TypeInv, StackInv, RebuildMoved(c) PROVE StackInv'
  <1> DEFINE new == Rebased(c, seen[c], NewBase(c))
             landed == new.own[c] = 0
             row == Rebuilt(c, "ok", new, IF landed THEN "none" ELSE "pending", landed)
  <1>1. /\ row.rebase = "ok" /\ row.candidate = new /\ row.landed = landed
        /\ row.promoted = FALSE /\ RebuildTurn(c) /\ RebuildChunk(c, row)
    BY DEF Rebuilt, RebuildMoved
  <1>2. NewBase(c) \in Commit /\ \A d \in Chunks : d >= c => NewBase(c).own[d] = 0
    BY BaseBelow DEF RebuildMoved
  <1>3. /\ new.up = NewBase(c).up
        /\ \A d \in Chunks \ {c} : new.own[d] = NewBase(c).own[d]
    BY <1>2 DEF Rebased, Commit
  <1> HIDE DEF new, row
  <1>4. Stands(c, row)
    BY <1>1, <1>2, <1>3, ChunksAssumption DEF Stands, StandsOn, Failed, Chunks
  <1> QED
    BY <1>1, <1>4, RebuildChunkStack

LEMMA PromoteStepStack ==
    ASSUME NEW c \in Chunks, TypeInv, StackInv,
           PromoteSettled(c) \/ PromotePush(c) \/ PromoteRefused(c) \/ PromoteHeld(c)
    PROVE  StackInv'
  <1>1. /\ phase = "promote" /\ UNCHANGED <<phase, on, seen, st, touched>>
        /\ \A d \in Chunks : Built(d)' => Built(d)
    BY DEF PromoteSettled, PromotePush, PromoteRefused, PromoteHeld, PromoteTurn, Built
  <1>2. RowsStand'
    BY <1>1, RowsKept DEF StackInv
  <1>3. LandedRows'
    BY <1>1 DEF StackInv, LandedRows, Empty
  <1>4. CASE PromotePush(c)
    <2>1. /\ review' = [review EXCEPT ![c] = st[c].candidate] /\ review \in [Chunks -> Ref]
          /\ satisfied' = satisfied \union {c} /\ moved' = moved \union {c}
          /\ st[c].rebase = "ok" /\ (Requires[c] # 0 => Requires[c] \in satisfied)
      BY <1>4 DEF PromotePush, Promotable, TypeInv, TypeOK
    <2>2. Unmoved'
      BY <1>1, <2>1 DEF StackInv, Unmoved
    <2>3. PromotedOK'
      BY <1>1, <2>1 DEF StackInv, PromotedOK, Pushing, Empty
    <2> QED
      BY <1>2, <1>3, <2>2, <2>3 DEF StackInv
  <1>5. CASE ~PromotePush(c)
    <2>1. /\ UNCHANGED <<review, moved>>
          /\ \/ UNCHANGED satisfied
             \/ satisfied' = satisfied \union {c} /\ Settled(c)
      BY <1>5 DEF PromoteSettled, PromoteRefused, PromoteHeld
    <2>2. Unmoved'
      BY <1>1, <2>1 DEF StackInv, Unmoved
    <2>3. PromotedOK'
      BY <1>1, <2>1 DEF StackInv, PromotedOK, LandedRows, Settled, Pushing, Empty
    <2> QED
      BY <1>2, <1>3, <2>2, <2>3 DEF StackInv
  <1> QED
    BY <1>4, <1>5

\* facts adds landed chunks and leaves the rest of every row alone.
LEMMA FactsRows ==
    ASSUME TypeInv, Facts, NEW c \in Chunks
    PROVE  /\ st'[c].rebase = st[c].rebase /\ st'[c].candidate = st[c].candidate
           /\ st'[c].promoted = st[c].promoted
           /\ st[c].landed => st'[c].landed
           /\ st'[c].landed =>
                 \/ st[c].landed
                 \/ merged[c].pulls
                 \/ \E u \in on..upstream :
                       review[c] # NoBranch /\ Merged(c, review[c].own[c], u)
  <1>1. PICK u \in on..upstream, missed \in SUBSET {d \in Chunks : merged[d].squash} :
           st' = [d \in Chunks |->
                    [st[d] EXCEPT !.landed =
                       \/ @
                       \/ merged[d].pulls
                       \/ /\ review[d] # NoBranch
                          /\ Merged(d, review[d].own[d], u)
                          /\ d \notin missed]]
    BY DEF Facts
  <1> DEFINE landed == \/ st[c].landed
                       \/ merged[c].pulls
                       \/ /\ review[c] # NoBranch
                          /\ Merged(c, review[c].own[c], u)
                          /\ c \notin missed
  <1>2. st'[c] = [st[c] EXCEPT !.landed = landed] /\ st[c] \in Row
    BY <1>1, Zenon DEF TypeInv, TypeOK
  <1>3. /\ st[c].landed => landed
        /\ landed => \/ st[c].landed
                     \/ merged[c].pulls
                     \/ review[c] # NoBranch /\ Merged(c, review[c].own[c], u)
    OBVIOUS
  <1> HIDE DEF landed
  <1>4. /\ st'[c].rebase = st[c].rebase /\ st'[c].candidate = st[c].candidate
        /\ st'[c].promoted = st[c].promoted /\ st'[c].landed = landed
    BY <1>2 DEF Row
  <1> QED
    BY <1>3, <1>4

\* promote notes a promotion only for a chunk it pushed.
LEMMA StampedPromoted ==
    ASSUME TypeInv, NEW c \in Chunks, Stamped(c).promoted
    PROVE  st[c].promoted \/ c \in moved
  <1>1. CASE ~(c \in Matrix \/ (st[c].rebase = "ok" /\ ~st[c].landed))
    BY <1>1 DEF Stamped
  <1>2. CASE c \in Matrix \/ (st[c].rebase = "ok" /\ ~st[c].landed)
    <2> DEFINE tests == IF c \notin HasTests THEN "none" ELSE IF Passed(c) THEN "pass" ELSE "fail"
               pushed == c \in moved
               verified == IF Verified(c) THEN on ELSE st[c].verified_at
               good == IF Verified(c) THEN on ELSE st[c].last_good
    <2>1. Stamped(c) = [st[c] EXCEPT !.tests = tests, !.promoted = pushed,
                                     !.verified_at = verified, !.last_good = good]
      BY <1>2, Zenon DEF Stamped
    <2>2. pushed => c \in moved
      OBVIOUS
    <2> HIDE DEF tests, pushed, verified, good
    <2>3. st[c] \in Row
      BY DEF TypeInv, TypeOK
    <2>4. Stamped(c).promoted = pushed
      BY <2>1, <2>3 DEF Row
    <2> QED
      BY <2>2, <2>4
  <1> QED
    BY <1>1, <1>2

LEMMA LaterStack ==
    ASSUME TypeInv, StackInv,
           \/ PushCandidates \/ StartPublish \/ (\E c \in Chunks : Test(c))
           \/ FinishPromote \/ PromoteDies \/ Facts
    PROVE  StackInv'
  <1>1. moved \subseteq Chunks /\ satisfied \subseteq Chunks
    BY DEF TypeInv, TypeOK
  <1>2. CASE PushCandidates \/ StartPublish \/ PromoteDies \/ (\E c \in Chunks : Test(c))
    <2>1. /\ UNCHANGED <<on, seen, review, moved, satisfied, touched, st>>
          /\ phase # "idle" /\ phase' \notin {"idle", "deploy"} /\ phase # "deploy"
          /\ phase \in Pushing => phase' \in Pushing
          /\ phase = "rebuild" => at = N + 1
      BY <1>2 DEF PushCandidates, StartPublish, PromoteDies, Test, world, Pushing
    <2>2. \A c \in Chunks : Built(c)
      BY <2>1, ChunksAssumption DEF Built, Chunks
    <2> QED
      BY <1>1, <2>1, <2>2, QuietStack
  <1>3. CASE FinishPromote
    BY <1>1, <1>3, StampedType, StampedPromoted, QuietStack DEF FinishPromote, Pushing, Built
  <1>4. CASE Facts
    BY <1>1, <1>4, FactsRows, QuietStack DEF Facts, Pushing, Built, world
  <1> QED
    BY <1>2, <1>3, <1>4

LEMMA EndRunStack == ASSUME StackInv, EndRun PROVE StackInv'
  <1>1. RowsStand' /\ Unmoved' /\ PromotedOK'
    BY DEF EndRun, RowsStand, Built, Unmoved, PromotedOK, Blank
  <1>2. LandedRows'
    BY DEF EndRun, LandedRows, Blank
  <1> QED
    BY <1>1, <1>2 DEF StackInv

LEMMA NextStack == ASSUME TypeInv, StackInv, [Next]_vars PROVE StackInv'
  <1>1. CASE UNCHANGED vars
    BY <1>1, RowsKept
    DEF vars, StackInv, LandedRows, Empty, Unmoved, PromotedOK, Built
  <1>2. CASE Environment
    BY <1>2, EnvironmentStack
  <1>3. CASE StartRun
    BY <1>3, StartRunStack
  <1>4. CASE RebuildStep
    BY <1>4, RebuildFailsStack, RebuildUnchangedStack, RebuildMovedStack DEF RebuildStep
  <1>5. CASE PromoteStep
    BY <1>5, PromoteStepStack DEF PromoteStep
  <1>6. CASE \/ PushCandidates \/ StartPublish \/ (\E c \in Chunks : Test(c))
             \/ FinishPromote \/ PromoteDies \/ Facts
    BY <1>6, LaterStack
  <1>7. CASE Deploy \/ RunDies
    BY <1>7, EndRunStack DEF Deploy, RunDies
  <1> QED
    BY <1>1, <1>2, <1>3, <1>4, <1>5, <1>6, <1>7 DEF Next, RunStep

LEMMA AlwaysStackInv == Spec => []StackInv
  <1>1. TypeInv /\ StackInv /\ [Next]_vars => StackInv'
    BY NextStack
  <1> QED
    BY <1>1, InitStack, AlwaysTypeInv, PTL DEF Spec

-----------------------------------------------------------------------------
(* What promote publishes is a stack. *)

\* A chunk promote pushed, whose parent no maintainer touched, stands on what
\* the parent's branch is now, or on what the parent was rebuilt on.
LEMMA StackInvStands == ASSUME TypeInv, StackInv PROVE StackConsistent
  <1> SUFFICES ASSUME phase \in {"facts", "deploy"}, NEW c \in moved,
                      Requires[c] # 0, Requires[c] \notin touched, c \notin touched
               PROVE  \/ /\ st[Requires[c]].landed
                         /\ StandsOn(c, review[c], NewBase(Requires[c]))
                      \/ /\ review[Requires[c]] # NoBranch
                         /\ StandsOn(c, review[c], review[Requires[c]])
    BY DEF StackConsistent
  <1> DEFINE p == Requires[c]
  <1>1. c \in Chunks /\ p \in Chunks /\ p < c
    BY ParentBelow DEF TypeInv, TypeOK
  <1>2. Built(c) /\ Built(p)
    BY DEF Built
  <1>3. review[c] = st[c].candidate /\ st[c].rebase = "ok" /\ p \in satisfied
    BY <1>1 DEF StackInv, Unmoved, PromotedOK
  <1>4. st[p].candidate \in Commit /\ StandsOn(c, review[c], st[p].candidate)
    BY <1>1, <1>2, <1>3 DEF StackInv, RowsStand, Stands, NewBase, Failed
  <1>5. CASE p \in moved \/ st[p].rebase = "unchanged"
    <2>1. review[p] = st[p].candidate
      BY <1>1, <1>2, <1>5, Zenon DEF StackInv, Unmoved, RowsStand, Stands
    <2> QED
      BY <1>4, <2>1, RefAssumption
  <1>6. CASE Empty(p) /\ st[p].landed
    <2>1. /\ NewBase(p) \in Commit
          /\ StandsOn(p, st[p].candidate, NewBase(p))
          /\ st[p].candidate.own[p] = 0
      BY <1>1, <1>2, <1>6 DEF StackInv, RowsStand, Stands, Empty, Failed
    <2>2. NewBase(p).own[p] = 0
      BY <1>1, <1>2, <1>6, ChunksAssumption DEF StackInv, RowsStand, Stands, Empty, Failed, Chunks
    <2>3. StandsOn(c, review[c], NewBase(p))
      BY <1>1, <1>4, <2>1, <2>2 DEF StandsOn
    <2> QED
      BY <1>6, <2>3
  <1> QED
    BY <1>3, <1>5, <1>6 DEF StackInv, PromotedOK

\* Whatever a run pushes, refuses or leaves when it dies between two pushes, the
\* chunks it pushed stand on their parents (promote.py's satisfied).
THEOREM PromotedIsAStack == Spec => []StackConsistent
  BY StackInvStands, AlwaysTypeInv, AlwaysStackInv, PTL

-----------------------------------------------------------------------------
(* What the card of a branch says. *)

LEMMA StackInvSays == ASSUME TypeInv, StackInv PROVE BehindSaysSo
  <1> SUFFICES ASSUME phase = "deploy", NEW c \in Chunks, c \notin touched,
                      review[c] = NoBranch \/ review[c].up # on
               PROVE  Status(c) \in {"behind", "landed"}
    BY DEF BehindSaysSo
  <1>1. Stands(c, st[c]) /\ Sound(c, st[c])
    BY DEF StackInv, RowsStand, TypeInv, RowsOK, Built
  <1>2. review[c] = IF c \in moved THEN st[c].candidate ELSE seen[c]
    BY DEF StackInv, Unmoved
  <1>3. ASSUME st[c].rebase \notin Failed PROVE st[c].rebase = "ok" /\ c \notin moved
    <2>1. st[c].candidate \in Commit /\ st[c].candidate.up = on
      BY <1>1, <1>3 DEF Sound
    <2>2. review[c] # st[c].candidate
      BY <2>1, RefAssumption
    <2> QED
      BY <1>1, <1>2, <1>3, <2>2 DEF Stands
  <1>4. c \notin moved => ~st[c].promoted
    BY DEF StackInv, PromotedOK
  <1>5. IsBehind(st[c])
    BY <1>3, <1>4 DEF IsBehind
  <1> QED
    BY <1>5 DEF Status

\* The page never shows a branch as current that is not on the upstream commit
\* it describes, whichever step kept the branch back (render.py _status).
THEOREM BehindIsShown == Spec => []BehindSaysSo
  BY StackInvSays, AlwaysTypeInv, AlwaysStackInv, PTL

-----------------------------------------------------------------------------
(* What has landed. *)

\* The branch of an untouched chunk was checked out with the version its
\* maintainer pushed last, and every maintainer starts at version 1.
SeenWork ==
    /\ \A c \in Chunks : review[c] # NoBranch => work[c] # 0
    /\ phase # "idle" =>
          \A c \in Chunks \ touched :
              seen[c] # NoBranch => seen[c].own[c] = work[c] /\ work[c] # 0

\* No row is landed before the rebuild wrote it.
UnbuiltRows == \A c \in Chunks : st[c].landed => Built(c)

LandedInv == SeenWork /\ UnbuiltRows /\ LandedIsUpstream

\* What upstream took stays taken.
LEMMA MergesStay ==
    ASSUME TypeInv, [Next]_vars, NEW c \in Chunks, NEW v \in Versions
    PROVE  /\ Merged(c, v, upstream)
                => merged'[c].ver = v /\ merged'[c].at <= upstream' /\ v # 0
           /\ merged[c].pulls => merged'[c].pulls
  <1>1. CASE UNCHANGED <<upstream, merged>>
    BY <1>1 DEF Merged
  <1>2. CASE UpstreamMoves
    BY <1>2 DEF UpstreamMoves, Merged, TypeInv, TypeOK, Merge, Upstreams
  <1>3. CASE \E d \in Chunks : UpstreamTakes(d)
    <2>1. PICK d \in Chunks, squash \in BOOLEAN :
             /\ merged[d].ver = 0 /\ upstream' = upstream + 1
             /\ merged' = [merged EXCEPT ![d].ver = review[d].own[d],
                                        ![d].at = upstream + 1, ![d].squash = squash]
      BY <1>3 DEF UpstreamTakes
    <2>2. merged[d] \in Merge /\ merged \in [Chunks -> Merge] /\ upstream \in Nat
      BY DEF TypeInv, TypeOK, Upstreams
    <2>3. merged'[c] = IF c = d THEN [merged[d] EXCEPT !.ver = review[d].own[d],
                                        !.at = upstream + 1, !.squash = squash]
                                ELSE merged[c]
      BY <2>1, <2>2
    <2> QED
      BY <2>1, <2>2, <2>3 DEF Merged, Merge, Upstreams
  <1>4. CASE \E d \in Chunks : UpstreamMergesPulls(d)
    <2>1. PICK d \in Chunks : /\ upstream' = upstream + 1
                              /\ merged' = [merged EXCEPT ![d].pulls = TRUE]
      BY <1>4 DEF UpstreamMergesPulls
    <2> QED
      BY <2>1 DEF Merged, TypeInv, TypeOK, Merge, Upstreams
  <1>5. CASE Maintainer
    BY <1>1, <1>5 DEF Maintainer, Seed, Amend, Resolve, Push
  <1>6. CASE RunStep \/ PromoteDies \/ RunDies
    <2>1. UNCHANGED <<upstream, merged>>
      BY <1>6
      DEF RunStep, RebuildStep, PromoteStep, StartRun, RebuildBehind, RebuildMissing,
          RebuildUnchanged, RebuildMoved, RebuildConflict, RebuildChunk, PushCandidates,
          Test, StartPublish, PromoteSettled, PromotePush, PromoteRefused, PromoteHeld,
          PromoteTurn, FinishPromote, PromoteDies, Facts, Deploy, RunDies, world
    <2> QED
      BY <1>1, <2>1
  <1> QED
    BY <1>1, <1>2, <1>3, <1>4, <1>5, <1>6 DEF Next, Environment, vars

LEMMA InitLanded == Init => LandedInv
  BY DEF Init, FreshRun, LandedInv, SeenWork, UnbuiltRows, LandedIsUpstream, Blank

\* A step that pushes nothing new: every row it lands is upstream, or is the
\* page's word for a chunk whose pull requests are merged.
LEMMA LandedKept ==
    ASSUME TypeInv, LandedInv, [Next]_vars, UNCHANGED <<seen, touched, work>>,
           phase' # "idle" => phase # "idle", phase = "deploy" => phase' = "deploy",
           \A c \in Chunks : review'[c] # NoBranch => review[c] # NoBranch,
           \A c \in Chunks : st'[c].landed =>
               /\ Built(c)'
               /\ \/ st[c].landed
                  \/ c \notin touched => Merged(c, work[c], upstream)
                  \/ phase' = "deploy" /\ merged[c].pulls
    PROVE  LandedInv'
  <1>1. SeenWork' /\ UnbuiltRows'
    BY DEF LandedInv, SeenWork, UnbuiltRows
  <1>2. LandedIsUpstream'
    <2> SUFFICES ASSUME NEW c \in Chunks, st'[c].landed, c \notin touched
                 PROVE  \/ merged'[c].ver = work[c] /\ merged'[c].at <= upstream' /\ work[c] # 0
                        \/ phase' = "deploy" /\ merged'[c].pulls
      BY DEF LandedIsUpstream, Merged
    <2>1. Merged(c, work[c], upstream) \/ (phase' = "deploy" /\ merged[c].pulls)
      BY DEF LandedInv, LandedIsUpstream
    <2> QED
      BY <2>1, MergesStay DEF TypeInv, TypeOK
  <1> QED
    BY <1>1, <1>2 DEF LandedInv

LEMMA UpstreamLanded ==
    ASSUME TypeInv, LandedInv, [Next]_vars, Environment, ~Maintainer PROVE LandedInv'
  <1>1. UNCHANGED <<review, work, touched>> /\ UNCHANGED run
    BY DEF Environment, UpstreamMoves, UpstreamTakes, UpstreamMergesPulls
  <1>2. \A c \in Chunks : Built(c)' = Built(c)
    BY <1>1 DEF Built, run
  <1> QED
    BY <1>1, <1>2, LandedKept DEF run, LandedInv, UnbuiltRows

LEMMA MaintainerLanded ==
    ASSUME TypeInv, LandedInv, [Next]_vars, Maintainer PROVE LandedInv'
  <1>1. PICK c \in Chunks, base \in Commit, v \in Versions :
           Push(c, [base EXCEPT !.own[c] = v]) /\ v # 0
    <2>1. PICK c \in Chunks : Seed(c) \/ Amend(c) \/ Resolve(c)
      BY DEF Maintainer
    <2>2. review[c] # NoBranch => work[c] # 0 /\ review[c] \in Commit
      BY DEF LandedInv, SeenWork, TypeInv, TypeOK, Ref
    <2>3. work[c] \in Versions
      BY DEF TypeInv, TypeOK
    <2>4. CASE Seed(c)
      BY <2>4, HandBaseType, BoundsAssumption DEF Seed, Versions
    <2>5. CASE Amend(c)
      <3>1. review[c] \in Commit /\ work[c] + 1 \in Versions /\ work[c] + 1 # 0
        BY <2>2, <2>3, <2>5, BoundsAssumption DEF Amend, Versions
      <3> QED
        BY <2>5, <3>1 DEF Amend
    <2>6. CASE Resolve(c)
      BY <2>2, <2>3, <2>6, HandBaseType DEF Resolve
    <2> QED
      BY <2>1, <2>4, <2>5, <2>6
  <1> DEFINE new == [base EXCEPT !.own[c] = v]
  <1>2. Push(c, new) /\ new.own[c] = v
    BY <1>1, EditType
  <1> HIDE DEF new
  <1>3. /\ UNCHANGED <<upstream, merged, phase, at, seen, st>>
        /\ work' = [work EXCEPT ![c] = v]
        /\ touched' = IF phase = "idle" THEN touched ELSE touched \union {c}
        /\ \A d \in Chunks \ {c} : review'[d] = review[d]
    BY <1>2 DEF Push, run, TypeInv, TypeOK
  <1>4. work \in [Chunks -> Versions]
    BY DEF TypeInv, TypeOK
  <1>5. SeenWork' /\ UnbuiltRows'
    BY <1>1, <1>3, <1>4 DEF LandedInv, SeenWork, UnbuiltRows, Built
  <1>6. LandedIsUpstream'
    BY <1>3, <1>4 DEF LandedInv, LandedIsUpstream, UnbuiltRows, Built, Merged
  <1> QED
    BY <1>5, <1>6 DEF LandedInv

LEMMA StartRunLanded ==
    ASSUME NoLostWork, LandedInv, StartRun PROVE LandedInv'
  <1>1. \A c \in Chunks : ~st[c].landed
    BY DEF StartRun, LandedInv, UnbuiltRows, Built
  <1> QED
    BY <1>1 DEF StartRun, LandedInv, SeenWork, UnbuiltRows, LandedIsUpstream, NoLostWork, world

\* The rebuild finds nothing left of a chunk only if upstream has the version
\* its branch held at the checkout.
LEMMA EmptyIsMerged ==
    ASSUME NEW c \in Chunks, TypeInv, LandedInv, RebuildMoved(c), c \notin touched,
           Rebased(c, seen[c], NewBase(c)).own[c] = 0
    PROVE  Merged(c, work[c], upstream)
  <1>1. NewBase(c) \in Commit /\ NewBase(c).up = on
    BY NewBaseType DEF RebuildMoved
  <1>2. seen[c].own[c] = work[c] /\ work[c] # 0
    BY DEF RebuildMoved, RebuildTurn, LandedInv, SeenWork
  <1>3. work[c] \in Versions
    BY DEF TypeInv, TypeOK
  <1>4. Merged(c, work[c], on)
    <2> SUFFICES ASSUME ~Merged(c, work[c], on) PROVE FALSE
      OBVIOUS
    <2>1. Rebased(c, seen[c], NewBase(c)) = [NewBase(c) EXCEPT !.own[c] = work[c]]
      BY <1>1, <1>2 DEF Rebased
    <2> QED
      BY <1>1, <1>2, <1>3, <2>1, EditType
  <1> QED
    BY <1>4 DEF Merged, TypeInv, TypeOK, TipsOK, Merge, Upstreams

LEMMA RebuildLanded ==
    ASSUME TypeInv, LandedInv, [Next]_vars, RebuildStep PROVE LandedInv'
  <1>1. PICK c \in Chunks :
           \/ RebuildBehind(c) \/ RebuildMissing(c) \/ RebuildUnchanged(c)
           \/ RebuildMoved(c) \/ RebuildConflict(c)
    BY DEF RebuildStep
  <1>2. PICK row :
           /\ RebuildTurn(c) /\ RebuildChunk(c, row)
           /\ row.landed => /\ RebuildMoved(c)
                            /\ Rebased(c, seen[c], NewBase(c)).own[c] = 0
    <2>1. CASE RebuildMoved(c)
      <3> DEFINE new == Rebased(c, seen[c], NewBase(c))
                 landed == new.own[c] = 0
                 row == Rebuilt(c, "ok", new, IF landed THEN "none" ELSE "pending", landed)
      <3>1. RebuildTurn(c) /\ RebuildChunk(c, row) /\ row.landed = landed
        BY <2>1 DEF RebuildMoved, Rebuilt
      <3> HIDE DEF row
      <3> QED
        BY <2>1, <3>1
    <2>2. CASE ~RebuildMoved(c)
      BY <1>1, <2>2 DEF RebuildBehind, RebuildMissing, RebuildUnchanged, RebuildConflict, Rebuilt
    <2> QED
      BY <2>1, <2>2
  <1>3. /\ st' = [st EXCEPT ![c] = row] /\ st \in [Chunks -> Row]
        /\ at = c /\ at' = at + 1 /\ phase = "rebuild"
        /\ UNCHANGED <<phase, seen, review, touched, work>>
    BY <1>2 DEF RebuildChunk, RebuildTurn, TypeInv, TypeOK, world
  <1>4. row.landed => (c \notin touched => Merged(c, work[c], upstream))
    BY <1>2, EmptyIsMerged
  <1>5. \A d \in Chunks : st'[d].landed => Built(d)'
    BY <1>3, ChunksAssumption DEF LandedInv, UnbuiltRows, Built, Chunks
  <1> QED
    BY <1>3, <1>4, <1>5, LandedKept

LEMMA LaterLanded ==
    ASSUME TypeInv, NoLostWork, LandedInv, [Next]_vars,
           \/ PushCandidates \/ StartPublish \/ (\E c \in Chunks : Test(c)) \/ PromoteStep
           \/ FinishPromote \/ PromoteDies \/ Facts
    PROVE  LandedInv'
  <1>1. phase # "idle" /\ phase' \notin {"idle", "rebuild"} /\ phase # "deploy"
    BY DEF PushCandidates, StartPublish, Test, PromoteStep, PromoteSettled, PromotePush,
           PromoteRefused, PromoteHeld, PromoteTurn, FinishPromote, PromoteDies, Facts
  <1>2. \A c \in Chunks : Built(c)'
    BY <1>1 DEF Built
  <1>3. UNCHANGED <<seen, touched, work>>
    BY DEF PushCandidates, StartPublish, Test, PromoteStep, PromoteSettled, PromotePush,
           PromoteRefused, PromoteHeld, PromoteTurn, FinishPromote, PromoteDies, Facts
  <1>4. \A c \in Chunks : review'[c] # NoBranch => review[c] # NoBranch
    <2>1. CASE \E c \in Chunks : PromotePush(c)
      <3>1. PICK c \in Chunks : PromotePush(c)
        BY <2>1
      <3>2. review' = [review EXCEPT ![c] = st[c].candidate] /\ review[c] # NoBranch
        BY <3>1, PromotedWork, RefAssumption DEF PromotePush
      <3> QED
        BY <3>2 DEF TypeInv, TypeOK
    <2>2. CASE ~\E c \in Chunks : PromotePush(c)
      <3>1. CASE PromoteStep
        BY <2>2, <3>1 DEF PromoteStep, PromoteSettled, PromoteRefused, PromoteHeld
      <3>2. CASE ~PromoteStep
        BY <3>2 DEF PushCandidates, StartPublish, Test, FinishPromote, PromoteDies, Facts, world
      <3> QED
        BY <3>1, <3>2
    <2> QED
      BY <2>1, <2>2
  <1>5. CASE Facts
    <2>1. phase' = "deploy"
      BY <1>5 DEF Facts
    <2>2. ASSUME NEW c \in Chunks, st'[c].landed, ~st[c].landed, ~merged[c].pulls
          PROVE  Merged(c, work[c], upstream)
      <3>1. PICK u \in on..upstream : Merged(c, work[c], u)
        BY <1>5, <2>2, FactsRows DEF NoLostWork
      <3> QED
        BY <3>1 DEF Merged, TypeInv, TypeOK, Merge, Upstreams
    <2> QED
      BY <1>1, <1>2, <1>3, <1>4, <2>1, <2>2, LandedKept
  <1>6. CASE FinishPromote
    <2>1. \A c \in Chunks : st'[c].landed = st[c].landed
      BY <1>6, StampedType DEF FinishPromote
    <2> QED
      BY <1>1, <1>2, <1>3, <1>4, <2>1, LandedKept
  <1>7. CASE ~Facts /\ ~FinishPromote
    <2>1. UNCHANGED st
      BY <1>7 DEF PushCandidates, StartPublish, Test, PromoteStep, PromoteSettled,
                  PromotePush, PromoteRefused, PromoteHeld, PromoteTurn, PromoteDies
    <2> QED
      BY <1>1, <1>2, <1>3, <1>4, <2>1, LandedKept
  <1> QED
    BY <1>5, <1>6, <1>7

LEMMA EndRunLanded ==
    ASSUME LandedInv, EndRun, UNCHANGED <<review, work>> PROVE LandedInv'
  BY DEF LandedInv, EndRun, SeenWork, UnbuiltRows, LandedIsUpstream, Blank

LEMMA NextLanded ==
    ASSUME TypeInv, NoLostWork, LandedInv, [Next]_vars PROVE LandedInv'
  <1>1. CASE UNCHANGED vars
    BY <1>1 DEF vars, LandedInv, SeenWork, UnbuiltRows, LandedIsUpstream, Built, Merged
  <1>2. CASE Environment
    BY <1>2, UpstreamLanded, MaintainerLanded
  <1>3. CASE StartRun
    BY <1>3, StartRunLanded
  <1>4. CASE RebuildStep
    BY <1>4, RebuildLanded
  <1>5. CASE \/ PushCandidates \/ StartPublish \/ (\E c \in Chunks : Test(c)) \/ PromoteStep
             \/ FinishPromote \/ PromoteDies \/ Facts
    BY <1>5, LaterLanded
  <1>6. CASE Deploy \/ RunDies
    BY <1>6, EndRunLanded DEF Deploy, RunDies, world
  <1> QED
    BY <1>1, <1>2, <1>3, <1>4, <1>5, <1>6 DEF Next, RunStep

\* A chunk counts as landed, and lets its children pass it, only when upstream
\* has the version its branch holds (rebuild.py _rebase_one, facts.py is_landed).
THEOREM LandedIsThere == Spec => []LandedIsUpstream
  <1>1. TypeInv /\ NoLostWork /\ LandedInv /\ [Next]_vars => LandedInv'
    BY NextLanded
  <1>2. LandedInv => LandedIsUpstream
    BY DEF LandedInv
  <1> QED
    BY <1>1, <1>2, InitLanded, AlwaysTypeInv, WorkIsKept, PTL DEF Spec

=============================================================================
