---------------------------- MODULE ConsensusRules ----------------------------
(***************************************************************************)
(* The stateless rules of the consensus algorithm: the numeric parameters  *)
(* of ConsensusParms.h, the two decision functions of Consensus.cpp, the   *)
(* voting rule of DisputedTx.h, the close-time vote of updateOurPositions  *)
(* and the close-time arithmetic of LedgerTiming.h.                        *)
(*                                                                         *)
(* Durations are integers: milliseconds for the consensus clock, seconds   *)
(* for network time, as in the code.  Network time 0 is the default        *)
(* constructed time_point, "no close time".                                *)
(***************************************************************************)
EXTENDS Integers, FiniteSets

CONSTANT Peer  \* the trusted peers

ledgerMIN_CONSENSUS == 1950
ledgerMIN_CLOSE == 2000
ledgerIDLE_INTERVAL == 15000
avMIN_CONSENSUS_TIME == 5000
minCONSENSUS_PCT == 80
avCT_CONSENSUS_PCT == 75

\* The avalanche schedule: the share of yes votes that a transaction (or of
\* equal votes that a close time) needs, by the percentage of the previous
\* round's duration that this round has already lasted.
NeededWeight(percentTime) ==
  IF percentTime < 50 THEN 50
  ELSE IF percentTime < 85 THEN 65
  ELSE IF percentTime < 200 THEN 70
  ELSE 95

\* How far the establish phase has come, against the previous round.
ConvergePercent(roundTime, prevRoundTime) ==
  (roundTime * 100) \div
    (IF prevRoundTime > avMIN_CONSENSUS_TIME
     THEN prevRoundTime ELSE avMIN_CONSENSUS_TIME)

-----------------------------------------------------------------------------
(* Consensus.cpp *)

\* closed and validated are the proposers that have closed this ledger and the
\* validators that are past it; the times are in milliseconds.
shouldCloseLedger(anyTx, prev, closed, validated, prevTime, sinceClose, open, idle) ==
  \/ prevTime < -1000
  \/ prevTime > 600000
  \/ sinceClose > 600000
  \/ closed + validated > prev \div 2
  \/ ~anyTx /\ sinceClose >= idle
  \/ /\ anyTx
     /\ open >= ledgerMIN_CLOSE
     /\ open >= prevTime \div 2

\* Mutant: our own vote is left out.
M_checkConsensusReached(agreeing, total, countSelf) ==
  total = 0 \/ (agreeing * 100) \div total >= minCONSENSUS_PCT

checkConsensusReached(agreeing, total, countSelf) ==
  \/ total = 0
  \/ LET self == IF countSelf THEN 1 ELSE 0
     IN ((agreeing + self) * 100) \div (total + self) >= minCONSENSUS_PCT

\* Fewer than 3/4 of the last round's proposers are here and the round is
\* still young: wait for the others.
TooFast(prev, current, prevTime, time) ==
  /\ current < (prev * 3) \div 4
  /\ time < prevTime + ledgerMIN_CONSENSUS

\* Mutant: peers that moved on count as agreement.
M_checkConsensus(prev, current, agree, finished, prevTime, time, proposing) ==
  IF time <= ledgerMIN_CONSENSUS \/ TooFast(prev, current, prevTime, time)
  THEN "No"
  ELSE IF \/ checkConsensusReached(agree, current, proposing)
          \/ checkConsensusReached(finished, current, FALSE)
       THEN "Yes"
       ELSE "No"

\* prev and current are the proposers of the last round and of this one, agree
\* those that share our position and finished those that have moved past us;
\* prevTime and time are how long the last round took and this one has taken.
checkConsensus(prev, current, agree, finished, prevTime, time, proposing) ==
  CASE \/ time <= ledgerMIN_CONSENSUS
       \/ TooFast(prev, current, prevTime, time) -> "No"
    [] OTHER ->
       IF checkConsensusReached(agree, current, proposing)
       THEN "Yes"
       ELSE IF checkConsensusReached(finished, current, FALSE)
            THEN "MovedOn"
            ELSE "No"

-----------------------------------------------------------------------------
(* DisputedTx.h: updateVote, given the peers' yes and no votes. *)

\* Mutant: our own yes is counted as a no.
M_Weight(yays, nays, ourVote) ==
  (yays * 100 + (IF ourVote THEN 0 ELSE 100)) \div (nays + yays + 1)

\* The entry of the vote map that a yes or a no stands for.
Ballot(votesYes) == IF votesYes THEN "yes" ELSE "no"

\* The percentage of yes votes, our own included.
Weight(yays, nays, ourVote) ==
  (yays * 100 + (IF ourVote THEN 100 ELSE 0)) \div (nays + yays + 1)

updateVote(yays, nays, ourVote, percentTime, proposing) ==
  CASE ourVote /\ nays = 0 -> TRUE
    [] ~ourVote /\ yays = 0 -> FALSE
    [] OTHER -> IF proposing
                THEN Weight(yays, nays, ourVote) > NeededWeight(percentTime)
                ELSE yays > nays

-----------------------------------------------------------------------------
(* Consensus.h: the close-time vote. *)

participantsNeeded(participants, percent) ==
  LET result == (participants * percent + percent \div 2) \div 100
  IN IF result = 0 THEN 1 ELSE result

\* Mutant: a candidate must beat the last one, so ties go to the earliest.
M_ConsensusCloseTime(closeTimeVotes, threshVote) ==
  LET enough == {t \in DOMAIN closeTimeVotes : closeTimeVotes[t] >= threshVote}
      best(t) == \A u \in enough :
                   \/ closeTimeVotes[t] > closeTimeVotes[u]
                   \/ closeTimeVotes[t] = closeTimeVotes[u] /\ t <= u
  IN IF \E t \in enough : best(t) THEN CHOOSE t \in enough : best(t) ELSE 0

\* The scan of closeTimeVotes in increasing order of time, each candidate
\* with at least as many votes as the last one replacing it: the result is
\* the latest of the most-voted times, or 0 when none has threshVote votes.
ConsensusCloseTime(closeTimeVotes, threshVote) ==
  LET enough == {t \in DOMAIN closeTimeVotes : closeTimeVotes[t] >= threshVote}
      best(t) == \A u \in enough :
                   \/ closeTimeVotes[t] > closeTimeVotes[u]
                   \/ closeTimeVotes[t] = closeTimeVotes[u] /\ t >= u
  IN IF \E t \in enough : best(t) THEN CHOOSE t \in enough : best(t) ELSE 0

\* Mutant: enough votes to move are taken for agreement.
M_HaveCloseTimeConsensus(closeTimeVotes, threshVote, threshConsensus) ==
  \E t \in DOMAIN closeTimeVotes : closeTimeVotes[t] >= threshVote

\* haveCloseTimeConsensus_: some candidate met both thresholds.
HaveCloseTimeConsensus(closeTimeVotes, threshVote, threshConsensus) ==
  \E t \in DOMAIN closeTimeVotes :
    /\ closeTimeVotes[t] >= threshVote
    /\ closeTimeVotes[t] >= threshConsensus

-----------------------------------------------------------------------------
(* LedgerTiming.h *)

ledgerPossibleTimeResolutions == <<10, 20, 30, 60, 90, 120>>
increaseLedgerTimeResolutionEvery == 8

ResolutionIndex(resolution) ==
  CHOOSE i \in 1..6 : ledgerPossibleTimeResolutions[i] = resolution

\* Disagreement moves to the next coarser bin at every ledger, agreement to
\* the next finer one at every eighth ledger; the ends of the table stay.
getNextLedgerTimeResolution(previousResolution, previousAgree, ledgerSeq) ==
  LET i == ResolutionIndex(previousResolution)
  IN CASE ~previousAgree /\ i < 6 -> ledgerPossibleTimeResolutions[i + 1]
       [] /\ previousAgree
          /\ ledgerSeq % increaseLedgerTimeResolutionEvery = 0
          /\ i > 1 -> ledgerPossibleTimeResolutions[i - 1]
       [] OTHER -> previousResolution

roundCloseTime(closeTime, closeResolution) ==
  IF closeTime = 0
  THEN 0
  ELSE LET t == closeTime + closeResolution \div 2
       IN t - (t % closeResolution)

effCloseTime(closeTime, resolution, priorCloseTime) ==
  LET rounded == roundCloseTime(closeTime, resolution)
  IN CASE closeTime = 0 -> 0
       [] OTHER -> IF rounded > priorCloseTime + 1
                   THEN rounded ELSE priorCloseTime + 1
===============================================================================
