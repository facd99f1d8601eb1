------------------------------- MODULE MCDiary -------------------------------
(* Instances of Diary for TLC. *)
EXTENDS Diary, TLC

CONSTANTS r1, r2, a1, p1, s1, s2

MCRequest == { r1, r2 }
MCOffice == { a1 }
MCPlatform == { p1 }
MCSlot == { s1, s2 }
MCReachable == { a1, p1 }

Symmetry == Permutations(MCRequest) \cup Permutations(MCSlot)
=============================================================================
