--------------------------- MODULE MCConsensusRules ---------------------------
(***************************************************************************)
(* One disputed transaction under all sequences of votes, and the rules of *)
(* ConsensusRules against reference definitions.  The state of DisputedTx  *)
(* supplies the tallies; ballots of close times are tried before the first *)
(* vote.                                                                   *)
(***************************************************************************)
EXTENDS DisputedTx, FiniteSetsExt

CONSTANTS VoteTimes,   \* the candidate times of a close-time vote
          MaxVotes     \* bound on the votes for one close time

ASSUME RulesBounds ==
  /\ VoteTimes \subseteq Nat
  /\ MaxVotes \in Nat

VARIABLE closeTimeVotes

MCInit == DisputeInit /\ closeTimeVotes = <<>>

\* The close times some participants ask for, with their numbers of votes.
Ballots == UNION {[T -> 1..MaxVotes] : T \in SUBSET VoteTimes}

Poll ==
  /\ \A p \in Peer : votes_[p] = "none"
  /\ closeTimeVotes' \in Ballots
  /\ UNCHANGED voteVars

Vote == DisputeNext /\ closeTimeVotes = <<>> /\ UNCHANGED closeTimeVotes

MCNext == Poll \/ Vote

MCSpec == MCInit /\ [][MCNext]_<<voteVars, closeTimeVotes>>

-----------------------------------------------------------------------------
\* The loop of updateOurPositions over the ordered map closeTimeVotes, one
\* candidate after the other.
RECURSIVE ScanCloseTimes(_, _, _)
ScanCloseTimes(times, thresh, best) ==
  IF times = {}
  THEN [time |-> best, thresh |-> thresh]
  ELSE LET t == Min(times)
       IN IF closeTimeVotes[t] >= thresh
          THEN ScanCloseTimes(times \ {t}, closeTimeVotes[t], t)
          ELSE ScanCloseTimes(times \ {t}, thresh, best)

\* The loop ends with the closed form the consensus model uses: the latest of
\* the most-voted times, and consensus exactly when the time chosen has the
\* votes (no candidate seen before it can have set haveCloseTimeConsensus_
\* for a time that is not the one chosen).
ScanFindsLatestMostVoted ==
  \A thresh, consensus \in 1..(MaxVotes + 1) :
    LET scan == ScanCloseTimes(DOMAIN closeTimeVotes, thresh, 0)
        chosen == ConsensusCloseTime(closeTimeVotes, thresh)
    IN /\ scan.time = chosen
       /\ HaveCloseTimeConsensus(closeTimeVotes, thresh, consensus)
            <=> /\ \E t \in DOMAIN closeTimeVotes : closeTimeVotes[t] >= thresh
                /\ scan.thresh >= consensus
                /\ closeTimeVotes[chosen] >= consensus
===============================================================================
