--------------------------- MODULE MCAgentRunLoop ---------------------------
(***************************************************************************)
(* The agent run on small instances.  Three resumes against a shortlist of *)
(* two make a resume drop out for good; four rounds leave one round after  *)
(* the minimum; two raw scores, one above the cap, make ties and order.    *)
(***************************************************************************)
EXTENDS AgentRunLoop

MCResumes == 1..3
MCRawScores == {1, 3}

MCTwoResumes == 1..2
MCOneScore == {1}
=============================================================================
