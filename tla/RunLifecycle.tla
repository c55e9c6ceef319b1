---------------------------- MODULE RunLifecycle ----------------------------
(***************************************************************************)
(* What a reader of a run's row is promised, whoever drives the run: the   *)
(* states AgentRunRecord.status goes through, a round counter that counts  *)
(* up to maxRounds, a ledger that only grows, and a shortlist that is      *)
(* final once the run is.                                                  *)
(***************************************************************************)
EXTENDS Integers, Sequences

CONSTANTS MaxRounds, MinRounds

VARIABLES status, currentRound, ledger, shortlist, finished, traced

vars == <<status, currentRound, ledger, shortlist, finished, traced>>

Terminal == {"completed", "failed"}

\* later is ledger with zero or more steps appended.
Extends(later) ==
    /\ Len(ledger) <= Len(later)
    /\ \A i \in 1..Len(ledger) : later[i] = ledger[i]

Init ==
    /\ status = "queued" /\ currentRound = 0 /\ ledger = <<>> /\ shortlist = {}
    /\ finished = FALSE /\ traced = FALSE

Start ==
    /\ status = "queued" /\ status' = "running"
    /\ UNCHANGED <<currentRound, ledger, shortlist, finished, traced>>

\* A step of a running run: the round may advance by one, the ledger may grow
\* and the shortlist may change.
Progress ==
    /\ status = "running"
    /\ currentRound' \in {currentRound, currentRound + 1}
    /\ currentRound' <= MaxRounds
    /\ Extends(ledger')
    /\ UNCHANGED <<status, finished, traced>>

Complete ==
    /\ status = "running" /\ status' = "completed" /\ finished' = TRUE
    /\ currentRound >= MinRounds
    /\ Extends(ledger')
    /\ UNCHANGED <<currentRound, shortlist, traced>>

Fail ==
    /\ status = "running" /\ status' = "failed" /\ finished' = TRUE
    /\ UNCHANGED <<currentRound, ledger, shortlist, traced>>

\* What may still happen to a run that is over: its trace is published, or a
\* warning that it could not be is appended.
Annotate ==
    /\ status \in Terminal
    /\ Extends(ledger')
    /\ traced' \in {traced, TRUE}
    /\ UNCHANGED <<status, currentRound, shortlist, finished>>

Next == Start \/ Progress \/ Complete \/ Fail \/ Annotate

Spec == Init /\ [][Next]_vars
=============================================================================
