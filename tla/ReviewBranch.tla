---------------------------- MODULE ReviewBranch ----------------------------
(***************************************************************************)
(* What the handover promises to whoever fetches a review/* branch, stated *)
(* without the workflow that keeps the promise.  People push what they     *)
(* like to a branch.  The pipeline, for its part, may only republish it:   *)
(* the same work, never on an older upstream, and never a commit whose     *)
(* declared tests have not passed.                                         *)
(***************************************************************************)
EXTENDS Naturals

CONSTANTS
    Chunks,     \* the chunks the manifest lists
    HasTests,   \* those that declare test goals
    Commit,     \* what a branch may point at, with fields up and own
    NoBranch    \* the branch does not exist

VARIABLES
    tip,        \* tip[c]: where review/c points on origin
    by,         \* by[c]: who moved it there, a "hand" or the "run"
    green       \* chunks whose tip is a commit their goals passed on

vars == <<tip, by, green>>

Init ==
    /\ tip \in [Chunks -> Commit \union {NoBranch}]
    /\ by = [c \in Chunks |-> "hand"]
    /\ green = {}

\* A maintainer creates or force-pushes review/c.  Nothing has tested the
\* new tip yet.
Offer(c) ==
    /\ \E new \in Commit : tip' = [tip EXCEPT ![c] = new]
    /\ by' = [by EXCEPT ![c] = "hand"]
    /\ green' = green \ {c}

\* The pipeline moves review/c.
Republish(c) ==
    /\ tip[c] \in Commit
    /\ \E new \in Commit :
          /\ new.own[c] = tip[c].own[c]
          /\ new.up >= tip[c].up
          /\ tip' = [tip EXCEPT ![c] = new]
    /\ by' = [by EXCEPT ![c] = "run"]
    /\ c \in HasTests => c \in green'
    /\ green' \in {green \union {c}, green \ {c}}

\* The pipeline's goals pass on the tip as it is.
Verify(c) ==
    /\ green' = green \union {c}
    /\ UNCHANGED <<tip, by>>

Next == \E c \in Chunks : Offer(c) \/ Republish(c) \/ Verify(c)

Spec == Init /\ [][Next]_vars
=============================================================================
