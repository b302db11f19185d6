------------------------------ MODULE DisputedTx ------------------------------
(***************************************************************************)
(* One disputed transaction (DisputedTx.h): the votes of the peers, the    *)
(* two counters kept beside them and our own vote.                         *)
(*                                                                         *)
(* votes_ is the map of the code, "none" standing for a peer without an    *)
(* entry.  yays_ and nays_ are the counters, which the code updates by     *)
(* increments and which updateVote reads instead of the map.               *)
(***************************************************************************)
EXTENDS ConsensusRules

CONSTANTS Percents,      \* the values of convergePercent_ considered
          MaxUndecided   \* bound on the participants without a vote

ASSUME DisputedTxAssumption ==
  /\ IsFiniteSet(Peer)
  /\ Percents \subseteq Nat
  /\ MaxUndecided \in Nat

VARIABLES votes_, yays_, nays_, ourVote_

voteVars == <<votes_, yays_, nays_, ourVote_>>

Voters(ballot) == {p \in Peer : votes_[p] = ballot}

DisputeTypeOK ==
  /\ votes_ \in [Peer -> {"yes", "no", "none"}]
  /\ yays_ \in Nat
  /\ nays_ \in Nat
  /\ ourVote_ \in BOOLEAN

-----------------------------------------------------------------------------
DisputeInit ==
  /\ votes_ = [p \in Peer |-> "none"]
  /\ yays_ = 0
  /\ nays_ = 0
  /\ ourVote_ \in BOOLEAN

\* A peer votes for the first time, or changes its vote.
setVote(peer, votesYes) ==
  /\ votes_' = [votes_ EXCEPT ![peer] = Ballot(votesYes)]
  /\ \/ votes_[peer] = "none" /\ votesYes /\ yays_' = yays_ + 1 /\ nays_' = nays_
     \/ votes_[peer] = "none" /\ ~votesYes /\ yays_' = yays_ /\ nays_' = nays_ + 1
     \/ votes_[peer] = "no" /\ votesYes /\ nays_' = nays_ - 1 /\ yays_' = yays_ + 1
     \/ votes_[peer] = "yes" /\ ~votesYes /\ nays_' = nays_ + 1 /\ yays_' = yays_ - 1
     \/ votes_[peer] = Ballot(votesYes) /\ UNCHANGED <<yays_, nays_>>
  /\ UNCHANGED ourVote_

\* A peer bows out or its proposal goes stale: its vote is taken back.
unVote(peer) ==
  /\ votes_[peer] # "none"
  /\ votes_' = [votes_ EXCEPT ![peer] = "none"]
  /\ yays_' = IF votes_[peer] = "yes" THEN yays_ - 1 ELSE yays_
  /\ nays_' = IF votes_[peer] = "no" THEN nays_ - 1 ELSE nays_
  /\ UNCHANGED ourVote_

\* Mutant: without the two early returns, the weight alone decides.
M_UpdateVote(percentTime, proposing) ==
  /\ ourVote_' = IF proposing
                 THEN Weight(yays_, nays_, ourVote_) > NeededWeight(percentTime)
                 ELSE yays_ > nays_
  /\ UNCHANGED <<votes_, yays_, nays_>>

\* The timer reconsiders our vote.
UpdateVote(percentTime, proposing) ==
  /\ ourVote_' = updateVote(yays_, nays_, ourVote_, percentTime, proposing)
  /\ UNCHANGED <<votes_, yays_, nays_>>

DisputeNext ==
  \/ \E p \in Peer, v \in BOOLEAN : setVote(p, v)
  \/ \E p \in Peer : unVote(p)
  \/ \E percent \in Percents, proposing \in BOOLEAN :
       UpdateVote(percent, proposing)

DisputeSpec == DisputeInit /\ [][DisputeNext]_voteVars

-----------------------------------------------------------------------------
\* The counters yays_ and nays_ never drift from the map votes_, whatever the
\* order of first votes, changed votes and withdrawals: updateVote may read
\* them instead of counting.
CountersMatchVotes ==
  /\ yays_ = Cardinality(Voters("yes"))
  /\ nays_ = Cardinality(Voters("no"))

\* updateVote moves our vote only to a side that some peer is recorded on; a
\* transaction no peer has an entry for keeps the vote we started with.
VoteFollowsSomePeer ==
  [][ourVote_' # ourVote_ => Voters(Ballot(ourVote_')) # {}]_voteVars

\* updateVote (DisputedTx.h) includes our own vote in the weight, yet the
\* vote it computes is a fixed point while the peers' votes and the point of
\* the round stay the same, and the rising threshold of later points only
\* turns a yes into a no: with unchanged peers our vote moves at most twice in
\* a round, so the votes can settle.
VoteSettles ==
  \A percent \in Percents, proposing \in BOOLEAN :
    LET v == updateVote(yays_, nays_, ourVote_, percent, proposing)
    IN /\ updateVote(yays_, nays_, v, percent, proposing) = v
       /\ \A later \in Percents : later >= percent /\ ~v
            => ~updateVote(yays_, nays_, v, later, proposing)

\* Of all participants, some vote with us, some against us and some have no
\* vote yet.  checkConsensusReached (Consensus.cpp) declares agreement exactly
\* when at least 4 of every 5 agree, ourselves counted on both sides of the
\* fraction when we propose: the integer division loses nothing.  And
\* participantsNeeded (Consensus.h) asks for a majority at the close-time
\* consensus threshold, so at most one close time can reach it; two
\* participants are the one exception (one vote of two is enough).
ThresholdsExact ==
  \A undecided \in 0..MaxUndecided, proposing \in BOOLEAN :
    LET self == IF proposing THEN 1 ELSE 0
        peers == yays_ + nays_ + undecided
        n == peers + self
        needed == participantsNeeded(n, avCT_CONSENSUS_PCT)
    IN /\ checkConsensusReached(yays_, peers, proposing)
            <=> (peers = 0 \/ 5 * (yays_ + self) >= 4 * n)
       /\ n > 0 => needed <= n /\ (2 * needed > n \/ n = 2)
===============================================================================
