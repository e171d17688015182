---------------------------- MODULE MCLogArchive -----------------------------
(* Symmetry and the state constraints of the runs of LogArchive: connections *)
(* are interchangeable, and so are agents.                                   *)
EXTENDS LogArchive

Symmetry == Permutations(Conns) \cup Permutations(AgentIDs)

\* What is claimed of a reader is claimed until the first rotation: states with
\* both are not explored further.
ReadsOrRotates == reader = Idle \/ rotations = 0

\* Bound: of the rotations, restarts and failed writes, two in one behaviour are
\* followed to the end, in any mix; a state with a third is only checked.
FewDisruptions == rotations + restarts + faults <= 2
=============================================================================
