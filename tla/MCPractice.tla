---------------------------- MODULE MCPractice ----------------------------
(***************************************************************************)
(* Two members and a registry for one session; r1 starts and leaves for    *)
(* v1 in the first minute, r2 does everything, only v1 drafts, and the     *)
(* real draft starts in the first minute, with r1 at rest, or not at all.  *)
(***************************************************************************)
EXTENDS Practice, TLC

CONSTANTS v1, v2, r1, r2

MCPracticeNext ==
  /\ PracticeNext
  /\ live' # live => minute = 1 /\ errand[r1] = NoErrand
  /\ errand'[r1] # NoErrand => errand'[r1].asked = 1
  /\ errand'[r1] # NoErrand => errand'[r1].who = v1 /\ errand'[r1].at \in {"build", "insert", "close"}
  /\ \A r \in Request : errand'[r] # NoErrand => errand'[r].who = v1 \/ errand'[r].at \notin {"touch", "check"}

MCPracticeSpec == PracticeInit /\ [][MCPracticeNext]_practiceVars
=============================================================================
