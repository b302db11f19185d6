---------------------------- MODULE ConsensusProofs ----------------------------
(***************************************************************************)
(* Proofs about the consensus engine of Consensus.tla, for every finite    *)
(* set of peers and all values of the other constants: its types, that the *)
(* round keeps its shape through every ledger switch, that the accepted    *)
(* result is frozen, and that positions and our own proposals only move    *)
(* forward.  The last part is about the votes on one disputed transaction  *)
(* (DisputedTx.tla) and the thresholds of ConsensusRules.tla.              *)
(***************************************************************************)
EXTENDS Consensus, DisputedTx, FiniteSetTheorems, SequenceTheorems, TLAPS

-----------------------------------------------------------------------------
(* Operators *)

LEMMA PeerCardinality ==
  ASSUME NEW S \in SUBSET Peer
  PROVE  IsFiniteSet(S) /\ Cardinality(S) \in Nat
  BY ConsensusAssumption, FS_Subset, FS_CardinalityType

\* Sequence numbers of proposals are numbers.
LEMMA ProposalSeqs ==
  \A q \in Proposal : q.seq \in Nat
<1>1. PeerSeqs \cup {seqLeave} \subseteq Nat
  BY ConsensusAssumption
<1>2. \A q \in Proposal : q.seq \in PeerSeqs \cup {seqLeave}
  BY DEF Proposal
<1> QED
  BY <1>1, <1>2

\* A larger number at the end keeps a sequence increasing.
LEMMA AppendAdvances ==
  ASSUME NEW s \in Seq(Nat), NEW n \in Nat,
         \A i, j \in DOMAIN s : i < j => s[i] < s[j],
         \A i \in DOMAIN s : s[i] < n
  PROVE  /\ \A i, j \in DOMAIN Append(s, n) :
              i < j => Append(s, n)[i] < Append(s, n)[j]
         /\ \A i \in DOMAIN Append(s, n) : Append(s, n)[i] <= n
  OBVIOUS

LEMMA ResolutionType ==
  ASSUME NEW r \in {10, 20, 30, 60, 90, 120}, NEW agree \in BOOLEAN,
         NEW seq \in Nat
  PROVE  getNextLedgerTimeResolution(r, agree, seq) \in {10, 20, 30, 60, 90, 120}
<1>1. ResolutionIndex(r) \in 1..6
  <2>1. \E i \in 1..6 : ledgerPossibleTimeResolutions[i] = r
    <3>1. CASE r = 10
      BY <3>1, 1 \in 1..6 DEF ledgerPossibleTimeResolutions
    <3>2. CASE r = 20
      BY <3>2, 2 \in 1..6 DEF ledgerPossibleTimeResolutions
    <3>3. CASE r = 30
      BY <3>3, 3 \in 1..6 DEF ledgerPossibleTimeResolutions
    <3>4. CASE r = 60
      BY <3>4, 4 \in 1..6 DEF ledgerPossibleTimeResolutions
    <3>5. CASE r = 90
      BY <3>5, 5 \in 1..6 DEF ledgerPossibleTimeResolutions
    <3>6. CASE r = 120
      BY <3>6, 6 \in 1..6 DEF ledgerPossibleTimeResolutions
    <3> QED
      BY <3>1, <3>2, <3>3, <3>4, <3>5, <3>6
  <2> QED
    BY <2>1 DEF ResolutionIndex
<1>2. \A i \in 1..6 : ledgerPossibleTimeResolutions[i]
                        \in {10, 20, 30, 60, 90, 120}
  BY DEF ledgerPossibleTimeResolutions
<1>3. \A i \in 1..6 : (i < 6 => i + 1 \in 1..6) /\ (i > 1 => i - 1 \in 1..6)
  OBVIOUS
<1> QED
  BY <1>1, <1>2, <1>3 DEF getNextLedgerTimeResolution

LEMMA RoundCloseTimeType ==
  ASSUME NEW ct \in Nat, NEW r \in {10, 20, 30, 60, 90, 120}
  PROVE  roundCloseTime(ct, r) \in Nat
<1>1. ct + r \div 2 \in Nat /\ r \in Nat \ {0}
  OBVIOUS
<1>2. \A t \in Nat : t % r \in 0..t
  OBVIOUS
<1> QED
  BY <1>1, <1>2 DEF roundCloseTime

LEMMA AsCloseTimeType ==
  ASSUME TypeOK, NEW raw \in Nat
  PROVE  asCloseTime(raw) \in Nat
<1> DEFINE info == LedgerInfo[previousLedger]
<1>1. /\ info.resolution \in {10, 20, 30, 60, 90, 120}
      /\ info.closeAgree \in BOOLEAN
      /\ info.seq + 1 \in Nat
      /\ info.closeTime \in Nat
  BY ConsensusAssumption DEF TypeOK, RoundType
<1>2. closeResolution \in {10, 20, 30, 60, 90, 120}
  BY <1>1, ResolutionType DEF closeResolution
<1>3. roundCloseTime(raw, closeResolution) \in Nat
  BY <1>2, RoundCloseTimeType, ZenonT(60)
<1> QED
  BY <1>1, <1>3 DEF asCloseTime, effCloseTime

\* The close time of a vote is one of the candidates, or 0.
LEMMA ConsensusCloseTimeType ==
  ASSUME NEW D \in SUBSET Nat, NEW ballot \in [D -> Nat], NEW thresh \in Nat
  PROVE  ConsensusCloseTime(ballot, thresh) \in Nat
<1> DEFINE enough == {t \in DOMAIN ballot : ballot[t] >= thresh}
           best(t) == \A u \in enough :
                        \/ ballot[t] > ballot[u]
                        \/ ballot[t] = ballot[u] /\ t >= u
<1>1. enough \subseteq Nat
  BY Zenon
<1>2. ConsensusCloseTime(ballot, thresh)
        = IF \E t \in enough : best(t) THEN CHOOSE t \in enough : best(t) ELSE 0
  BY Zenon DEF ConsensusCloseTime
<1>3. ASSUME \E t \in enough : best(t)
      PROVE  (CHOOSE t \in enough : best(t)) \in enough
  <2> HIDE DEF enough, best
  <2> QED
    BY <1>3
<1>4. 0 \in Nat
  OBVIOUS
<1> HIDE DEF enough, best
<1> QED
  BY <1>1, <1>2, <1>3, <1>4, Zenon

LEMMA ParticipantsNeededType ==
  ASSUME NEW n \in Nat, NEW pct \in {50, 65, 70, 75, 95}
  PROVE  participantsNeeded(n, pct) \in Nat
  BY DEF participantsNeeded

LEMMA UpdateVoteType ==
  ASSUME NEW yays \in Nat, NEW nays \in Nat, NEW vote \in BOOLEAN,
         NEW percent, NEW proposing \in BOOLEAN
  PROVE  updateVote(yays, nays, vote, percent, proposing) \in BOOLEAN
<1>1. (Weight(yays, nays, vote) > NeededWeight(percent)) \in BOOLEAN
  <2>1. yays * 100 + (IF vote THEN 100 ELSE 0) \in Nat
        /\ nays + yays + 1 \in Nat \ {0}
    OBVIOUS
  <2>2. Weight(yays, nays, vote) \in Int
    BY <2>1 DEF Weight
  <2>3. NeededWeight(percent) \in Int
    BY DEF NeededWeight
  <2> QED
    BY <2>2, <2>3
<1>2. (yays > nays) \in BOOLEAN
  OBVIOUS
<1> QED
  BY <1>1, <1>2, Zenon DEF updateVote

LEMMA BallotType ==
  \A b : Ballot(b) \in {"yes", "no", "none"}
  BY DEF Ballot

-----------------------------------------------------------------------------
(* Types, operation by operation *)

LEMMA UpdateDisputesType ==
  ASSUME TypeOK, NEW Ps, NEW S \in SUBSET Tx, NEW curr, NEW acq,
         updateDisputes(Ps, S, curr, acq)
  PROVE  DisputeType'
<1> DEFINE new == IF S \in compares THEN {} ELSE SymDiff(txns, S) \ disputes
<1>1. new \in SUBSET Tx
  BY DEF TypeOK, PositionType, SymDiff
<1>2. \A t, p : InitialVote(t, p, curr, acq) \in {"yes", "no", "none"}
  BY BallotType DEF InitialVote
<1>3. \A t \in Tx : (IF t \in new THEN t \in txns ELSE ourVote[t]) \in BOOLEAN
  <2>1. \A t \in Tx : ourVote[t] \in BOOLEAN
    BY DEF TypeOK, DisputeType
  <2>2. \A t : (t \in txns) \in BOOLEAN
    OBVIOUS
  <2> HIDE DEF new
  <2> TAKE t \in Tx
  <2>3. CASE t \in new
    BY <2>2, <2>3
  <2>4. CASE t \notin new
    BY <2>1, <2>4
  <2> QED
    BY <2>3, <2>4
<1>4. votes' \in [Tx -> [Peer -> {"yes", "no", "none"}]]
  BY <1>2, BallotType DEF updateDisputes, TypeOK, DisputeType
<1>5. ourVote' \in [Tx -> BOOLEAN]
  BY <1>3 DEF updateDisputes
<1>6. disputes' \in SUBSET Tx /\ compares' \in SUBSET SUBSET Tx
  BY <1>1 DEF updateDisputes, TypeOK, DisputeType
<1> QED
  BY <1>4, <1>5, <1>6 DEF DisputeType

LEMMA NewTxSetType ==
  ASSUME TypeOK, NEW S \in SUBSET Tx, NEW curr, NewTxSet(S, curr)
  PROVE  DisputeType' /\ acquired' \in SUBSET SUBSET Tx
<1>1. acquired' \in SUBSET SUBSET Tx
  BY DEF NewTxSet, TypeOK, PeerType
<1>2. CASE UNCHANGED disputeVars
  BY <1>1, <1>2 DEF disputeVars, TypeOK, DisputeType
<1>3. CASE updateDisputes(PeersAt(S, curr), S, curr, acquired')
  BY <1>1, <1>3, UpdateDisputesType, Zenon
<1> QED
  BY <1>2, <1>3 DEF NewTxSet

LEMMA ProposalFields ==
  ASSUME NEW prop \in Proposal
  PROVE  /\ prop.node \in Peer
         /\ prop.prev \in Ledger
         /\ prop.seq \in Nat
         /\ prop.pos \in SUBSET Tx
         /\ prop.ct \in CloseTimes
<1>1. /\ prop.node \in Peer
      /\ prop.prev \in Ledger
      /\ prop.seq \in PeerSeqs \cup {seqLeave}
      /\ prop.pos \in TxSets
      /\ prop.ct \in CloseTimes
  BY DEF Proposal
<1>2. PeerSeqs \cup {seqLeave} \subseteq Nat /\ TxSets \subseteq SUBSET Tx
  BY ConsensusAssumption
<1> QED
  BY <1>1, <1>2

LEMMA PeerProposalInternalType ==
  ASSUME TypeOK, NEW prop \in Proposal, peerProposalInternal(prop)
  PROVE  DisputeType' /\ PeerType'
<1>1. CASE UNCHANGED <<peerVars, disputeVars>>
  BY <1>1 DEF peerVars, disputeVars, TypeOK, DisputeType, PeerType
<1>2. CASE PeerBowsOut(prop.node)
  <2>1. DisputeType'
    BY <1>2, Zenon DEF PeerBowsOut, TypeOK, DisputeType
  <2>2. PeerType'
    BY <1>2, ProposalFields, Zenon DEF PeerBowsOut, TypeOK, PeerType
  <2> QED
    BY <2>1, <2>2
<1>3. CASE PeerTakesPosition(prop)
  <2> DEFINE curr == [currPeerPositions EXCEPT ![prop.node] = prop]
  <2>1. /\ currPeerPositions' \in [Peer -> Proposal \cup {NoProposal}]
        /\ rawCloseTimes' \in [CloseTimes -> Nat]
        /\ deadNodes' \in SUBSET Peer
    BY <1>3, ProposalFields DEF PeerTakesPosition, TypeOK, PeerType
  <2>2. prop.pos \in SUBSET Tx
    BY ProposalFields
  <2>3. CASE UNCHANGED <<acquired, disputeVars>>
    BY <2>1, <2>3 DEF disputeVars, TypeOK, DisputeType, PeerType
  <2>4. CASE updateDisputes({prop.node}, prop.pos, curr, acquired)
             /\ UNCHANGED acquired
    BY <2>1, <2>2, <2>4, UpdateDisputesType, Zenon DEF TypeOK, PeerType
  <2>5. CASE NewTxSet(prop.pos, curr)
    BY <2>1, <2>2, <2>5, NewTxSetType DEF PeerType
  <2> QED
    BY <1>3, <2>3, <2>4, <2>5, Zenon DEF PeerTakesPosition
<1> QED
  BY <1>1, <1>2, <1>3 DEF peerProposalInternal

LEMMA ClearedTypes ==
  /\ ClearDisputes => DisputeType'
  /\ ClearPeers => /\ currPeerPositions' \in [Peer -> Proposal \cup {NoProposal}]
                   /\ deadNodes' \in SUBSET Peer
                   /\ rawCloseTimes' \in [CloseTimes -> Nat]
<1>1. ASSUME ClearDisputes PROVE DisputeType'
  BY <1>1 DEF ClearDisputes, DisputeType, NoVotes
<1>2. ASSUME ClearPeers
      PROVE  /\ currPeerPositions' \in [Peer -> Proposal \cup {NoProposal}]
             /\ deadNodes' \in SUBSET Peer
             /\ rawCloseTimes' \in [CloseTimes -> Nat]
  BY <1>2 DEF ClearPeers
<1> QED
  BY <1>1, <1>2

LEMMA ZeroSeq == 0 \in 0..MaxSeq \cup {seqLeave}
  BY ConsensusAssumption

LEMMA StartPlaybackType ==
  ASSUME NEW kind \in {"replayStart", "replayWrong"},
         NEW recent \in [Peer -> Seq(Proposal)],
         StartPlayback(kind, recent), pending' \in Nat
  PROVE  ControlType' /\ recentPeerPositions' \in [Peer -> Seq(Proposal)]
  BY DEF StartPlayback, ControlType

LEMMA AcquireLedgerType ==
  ASSUME NEW lgrId \in Ledger, acquireLedger(lgrId)
  PROVE  useRoundedCloseTime' \in BOOLEAN
  BY ConsensusAssumption DEF acquireLedger

LEMMA StartRoundInternalType ==
  ASSUME TypeOK, NEW lgrId \in Ledger, NEW ledger \in Ledger,
         NEW newMode \in {"proposing", "observing", "wrongLedger",
                          "switchedLedger"},
         NEW recent \in [Peer -> Seq(Proposal)],
         startRoundInternal(lgrId, ledger, newMode, recent),
         firstRound' \in BOOLEAN, prevRoundTime' \in Nat, pending' \in Nat,
         useRoundedCloseTime' \in BOOLEAN
  PROVE  TypeOK'
<1>1. ControlType' /\ recentPeerPositions' \in [Peer -> Seq(Proposal)]
  BY StartPlaybackType DEF startRoundInternal
<1>2. RoundType'
  BY DEF startRoundInternal, TypeOK, RoundType
<1>3. PositionType'
  <2>1. position' \in [pos : SUBSET Tx, seq : 0..MaxSeq \cup {seqLeave}, ct : Nat]
    BY ZeroSeq DEF startRoundInternal, ClearResult
  <2>2. sent' \in Seq(0..MaxSeq \cup {seqLeave})
    BY EmptySeq DEF startRoundInternal
  <2>3. haveResult' \in BOOLEAN
    BY Zenon DEF startRoundInternal, ClearResult
  <2>4. txns' \in SUBSET Tx /\ roundTime' \in Nat
        /\ state' \in {"No", "MovedOn", "Yes"}
    BY DEF startRoundInternal, ClearResult
  <2> QED
    BY <2>1, <2>2, <2>3, <2>4, ZenonT(30) DEF PositionType
<1>4. DisputeType' /\ PeerType'
  BY ClearedTypes DEF startRoundInternal, PeerType
<1> QED
  BY <1>1, <1>2, <1>3, <1>4, Zenon DEF TypeOK

LEMMA ReturnType ==
  ASSUME TypeOK, Return
  PROVE  ControlType'
  BY DEF Return, TypeOK, ControlType

LEMMA CloseLedgerType ==
  ASSUME TypeOK, NEW S \in TxSets, NEW ct \in CloseTimes, closeLedger(S, ct),
         roundTime' \in Nat
  PROVE  /\ PositionType'
         /\ DisputeType'
         /\ acquired' \in SUBSET SUBSET Tx
<1>1. S \in SUBSET Tx /\ ct \in Nat
  BY ConsensusAssumption, Zenon
<1>2. acquired' \in SUBSET SUBSET Tx
  BY <1>1, Zenon DEF closeLedger, AcquireOwn, TypeOK, PeerType
<1>3. PositionType'
  <2>1. sent' \in Seq(0..MaxSeq \cup {seqLeave})
    BY ZeroSeq, SMTT(30) DEF closeLedger, TypeOK, PositionType
  <2>2. position' \in [pos : SUBSET Tx, seq : 0..MaxSeq \cup {seqLeave}, ct : Nat]
    BY <1>1, ZeroSeq DEF closeLedger
  <2> QED
    BY <1>1, <2>1, <2>2, Zenon DEF closeLedger, PositionType
<1>4. DisputeType'
  <2> DEFINE theirs == {currPeerPositions[p].pos : p \in Proposers} \cap acquired'
             differ == UNION {SymDiff(S, T) : T \in theirs}
  <2>1. theirs \in SUBSET SUBSET Tx
    BY <1>2
  <2>2. differ \in SUBSET Tx
    BY <1>1, <2>1 DEF SymDiff
  <2>3. \A t, p : InitialVote(t, p, currPeerPositions, acquired')
                    \in {"yes", "no", "none"}
    BY BallotType, Zenon DEF InitialVote
  <2> HIDE DEF theirs, differ
  <2>4. /\ compares' = theirs
        /\ disputes' = differ
        /\ ourVote' = [t \in Tx |-> t \in differ /\ t \in S]
        /\ votes' = [t \in Tx |-> [p \in Peer |->
                       IF t \in differ
                       THEN InitialVote(t, p, currPeerPositions, acquired')
                       ELSE "none"]]
    BY DEF closeLedger, theirs, differ
  <2>5. ourVote' \in [Tx -> BOOLEAN]
    BY <2>4
  <2>6. votes' \in [Tx -> [Peer -> {"yes", "no", "none"}]]
    BY <2>3, <2>4
  <2> QED
    BY <2>1, <2>2, <2>4, <2>5, <2>6, Zenon DEF DisputeType
<1> QED
  BY <1>2, <1>3, <1>4

LEMMA CloseTimeVotesType ==
  ASSUME TypeOK, NEW curr \in [Peer -> Proposal \cup {NoProposal}],
         NEW proposing \in BOOLEAN
  PROVE  \E D \in SUBSET Nat : closeTimeVotes(curr, proposing) \in [D -> Nat]
<1> DEFINE voters == {p \in Peer : curr[p] # NoProposal}
           of(p) == asCloseTime(curr[p].ct)
           ours == asCloseTime(position.ct)
           D == {of(p) : p \in voters} \cup (IF proposing THEN {ours} ELSE {})
<1>1. \A p \in voters : curr[p] \in Proposal
  OBVIOUS
<1>2. \A p \in voters : curr[p].ct \in Nat
  BY <1>1, ProposalFields, ConsensusAssumption, Zenon
<1>3. \A p \in voters : of(p) \in Nat
  BY <1>2, AsCloseTimeType
<1>4. ours \in Nat
  BY AsCloseTimeType DEF TypeOK, PositionType
<1>5. D \in SUBSET Nat
  BY <1>3, <1>4
<1>6. \A t : Cardinality({p \in voters : of(p) = t}) \in Nat
  BY PeerCardinality
<1> HIDE DEF voters, ours, of, D
<1>7. closeTimeVotes(curr, proposing)
        = [t \in D |-> Cardinality({p \in voters : of(p) = t})
                         + (IF proposing /\ ours = t THEN 1 ELSE 0)]
  BY DEF closeTimeVotes, voters, ours, of, D
<1>8. closeTimeVotes(curr, proposing) \in [D -> Nat]
  BY <1>6, <1>7
<1> QED
  BY <1>5, <1>8

LEMMA CloseTimeResultType ==
  ASSUME TypeOK, NEW curr \in [Peer -> Proposal \cup {NoProposal}], NEW percent
  PROVE  CloseTimeResult(curr, percent).time \in Nat
<1> DEFINE n == Cardinality({p \in Peer : curr[p] # NoProposal})
           proposing == mode = "proposing"
           participants == n + (IF proposing THEN 1 ELSE 0)
           ballot == closeTimeVotes(curr, proposing)
           threshVote == participantsNeeded(participants, NeededWeight(percent))
<1>1. n \in Nat
  BY PeerCardinality
<1>2. NeededWeight(percent) \in {50, 65, 70, 75, 95}
  BY DEF NeededWeight
<1>3. threshVote \in Nat
  BY <1>1, <1>2, ParticipantsNeededType, SMTT(30)
<1>4. ConsensusCloseTime(ballot, threshVote) \in Nat
  <2>1. PICK D \in SUBSET Nat : ballot \in [D -> Nat]
    BY CloseTimeVotesType, Zenon
  <2> HIDE DEF ballot, threshVote
  <2> QED
    BY <1>3, <2>1, ConsensusCloseTimeType
<1>5. asCloseTime(position.ct) \in Nat
  BY AsCloseTimeType DEF TypeOK, PositionType
<1> QED
  BY <1>4, <1>5, Zenon DEF CloseTimeResult

\* Dropping stale peers and voting again keep the types.
LEMMA NewVotesType ==
  ASSUME TypeOK, NEW stale, NEW percent
  PROVE  /\ FreshVotes(stale) \in [Tx -> [Peer -> {"yes", "no", "none"}]]
         /\ NewVotes(FreshVotes(stale), percent) \in [Tx -> BOOLEAN]
<1>1. FreshVotes(stale) \in [Tx -> [Peer -> {"yes", "no", "none"}]]
  BY DEF FreshVotes, TypeOK, DisputeType
<1> DEFINE fresh == FreshVotes(stale)
           yays(t) == Cardinality({p \in Peer : fresh[t][p] = "yes"})
           nays(t) == Cardinality({p \in Peer : fresh[t][p] = "no"})
<1>2. \A t : yays(t) \in Nat /\ nays(t) \in Nat
  BY PeerCardinality
<1>3. \A t \in Tx : ourVote[t] \in BOOLEAN
  BY DEF TypeOK, DisputeType
<1>4. \A t \in Tx : updateVote(yays(t), nays(t), ourVote[t], percent,
                               mode = "proposing") \in BOOLEAN
  <2> HIDE DEF yays, nays
  <2> QED
    BY <1>2, <1>3, UpdateVoteType, Zenon
<1>5. \A t \in Tx : (IF t \in disputes
                     THEN updateVote(yays(t), nays(t), ourVote[t], percent,
                                     mode = "proposing")
                     ELSE ourVote[t]) \in BOOLEAN
  BY <1>3, <1>4, Zenon
<1>6. NewVotes(fresh, percent) \in [Tx -> BOOLEAN]
  BY <1>5, Zenon DEF NewVotes
<1> QED
  BY <1>1, <1>6

LEMMA NextSeqType ==
  ASSUME TypeOK, NEW S, position.seq = seqLeave \/ position.seq < MaxSeq
  PROVE  NextSeq(S) \in 0..MaxSeq \cup {seqLeave}
<1>1. position.seq \in 0..MaxSeq \cup {seqLeave}
  BY Zenon DEF TypeOK, PositionType
<1> QED
  BY <1>1, ConsensusAssumption DEF NextSeq

LEMMA ChangePositionType ==
  ASSUME TypeOK, NEW S \in SUBSET Tx, NEW ct \in Nat, NEW curr,
         NEW fresh \in [Tx -> [Peer -> {"yes", "no", "none"}]],
         ChangePosition(S, ct, curr, fresh)
  PROVE  /\ txns' \in SUBSET Tx
         /\ position' \in [pos : SUBSET Tx, seq : 0..MaxSeq \cup {seqLeave},
                           ct : Nat]
         /\ sent' \in Seq(0..MaxSeq \cup {seqLeave})
         /\ acquired' \in SUBSET SUBSET Tx
         /\ compares' \in SUBSET SUBSET Tx
         /\ votes' \in [Tx -> [Peer -> {"yes", "no", "none"}]]
<1>1. NextSeq(S) \in 0..MaxSeq \cup {seqLeave}
  BY NextSeqType, Zenon DEF ChangePosition
<1>2. position' \in [pos : SUBSET Tx, seq : 0..MaxSeq \cup {seqLeave}, ct : Nat]
  BY <1>1, Zenon DEF ChangePosition
<1>3. sent' \in Seq(0..MaxSeq \cup {seqLeave})
  BY <1>1 DEF ChangePosition, TypeOK, PositionType
<1>4. acquired' \in SUBSET SUBSET Tx /\ compares' \in SUBSET SUBSET Tx
  BY Zenon DEF ChangePosition, AcquireOwn, TypeOK, PeerType, DisputeType
<1>5. votes' \in [Tx -> [Peer -> {"yes", "no", "none"}]]
  BY BallotType, Zenon DEF ChangePosition
<1> QED
  BY <1>2, <1>3, <1>4, <1>5, Zenon DEF ChangePosition

LEMMA UpdateOurPositionsType ==
  ASSUME TypeOK, NEW percent, NEW stale, NEW ourStale,
         NEW curr \in [Peer -> Proposal \cup {NoProposal}],
         NEW ctResult, ctResult.time \in Nat,
         updateOurPositions(percent, stale, ourStale, curr, ctResult)
  PROVE  /\ txns' \in SUBSET Tx
         /\ position' \in [pos : SUBSET Tx, seq : 0..MaxSeq \cup {seqLeave},
                           ct : Nat]
         /\ sent' \in Seq(0..MaxSeq \cup {seqLeave})
         /\ acquired' \in SUBSET SUBSET Tx
         /\ currPeerPositions' = curr
         /\ DisputeType'
<1> DEFINE fresh == FreshVotes(stale)
           new == NewVotes(fresh, percent)
           flipped == {t \in disputes : new[t] # ourVote[t]}
           S == {t \in txns \cup flipped : t \in flipped => new[t]}
<1>1. fresh \in [Tx -> [Peer -> {"yes", "no", "none"}]] /\ new \in [Tx -> BOOLEAN]
  BY NewVotesType, Zenon
<1>2. S \in SUBSET Tx
  <2>1. txns \subseteq Tx /\ disputes \subseteq Tx
    BY DEF TypeOK, PositionType, DisputeType
  <2>2. S \subseteq txns \cup disputes
    BY Zenon
  <2> HIDE DEF S
  <2> QED
    BY <2>1, <2>2, Zenon
<1> HIDE DEF fresh, new, S
<1>3. /\ currPeerPositions' = curr
      /\ ourVote' = new
      /\ disputes' = disputes
      /\ \/ ChangePosition(S, ctResult.time, curr, fresh)
         \/ votes' = fresh
            /\ UNCHANGED <<txns, position, acquired, compares, sent>>
  BY ZenonT(30) DEF updateOurPositions, fresh, new, S
<1>4. CASE ChangePosition(S, ctResult.time, curr, fresh)
  BY <1>1, <1>2, <1>3, <1>4, ChangePositionType, ZenonT(30) DEF TypeOK, DisputeType
<1>5. CASE votes' = fresh
           /\ UNCHANGED <<txns, position, acquired, compares, sent>>
  BY <1>1, <1>3, <1>5, Zenon DEF TypeOK, DisputeType, PositionType, PeerType
<1> QED
  BY <1>3, <1>4, <1>5, Zenon

LEMMA HaveConsensusType ==
  ASSUME NEW rt
  PROVE  haveConsensus(rt) \subseteq {"No", "MovedOn", "Yes"}
  BY Zenon DEF haveConsensus, checkConsensus

LEMMA PhaseEstablishType ==
  ASSUME TypeOK, phaseEstablish,
         UNCHANGED <<firstRound, useRoundedCloseTime>>
  PROVE  RoundType' /\ PositionType' /\ DisputeType' /\ PeerType'
<1>1. PICK rt \in RoundTimes :
        /\ roundTime' = rt
        /\ \/ UNCHANGED <<phase, prevProposers, prevRoundTime, txns,
                          position, state, disputeVars, currPeerPositions,
                          acquired, sent>>
           \/ \E stale \in SUBSET Proposers, ourStale \in BOOLEAN :
                UpdateAndCheck(rt, stale, ourStale)
  BY Zenon DEF phaseEstablish
<1>2. rt \in Nat
  BY ConsensusAssumption, Zenon
<1>3. UNCHANGED <<mode, prevLedgerID, previousLedger, haveResult, deadNodes,
                  rawCloseTimes>>
  BY Zenon DEF phaseEstablish
<1>4. CASE UNCHANGED <<phase, prevProposers, prevRoundTime, txns, position,
                       state, disputeVars, currPeerPositions, acquired, sent>>
  BY <1>1, <1>2, <1>3, <1>4, ZenonT(30) DEF TypeOK, RoundType, PositionType, DisputeType,
     PeerType, disputeVars
<1>5. ASSUME NEW stale \in SUBSET Proposers, NEW ourStale \in BOOLEAN,
             UpdateAndCheck(rt, stale, ourStale)
      PROVE  RoundType' /\ PositionType' /\ DisputeType' /\ PeerType'
  <2> DEFINE percent == ConvergePercent(rt, prevRoundTime)
             curr == [p \in Peer |-> IF p \in stale THEN NoProposal
                                                    ELSE currPeerPositions[p]]
             ctResult == CloseTimeResult(curr, percent)
  <2>1. curr \in [Peer -> Proposal \cup {NoProposal}]
    BY DEF TypeOK, PeerType
  <2>2. ctResult.time \in Nat
    BY <2>1, CloseTimeResultType, Zenon
  <2>3. updateOurPositions(percent, stale, ourStale, curr, ctResult)
    BY <1>5 DEF UpdateAndCheck
  <2> HIDE DEF percent, curr, ctResult
  <2>4. /\ txns' \in SUBSET Tx
        /\ position' \in [pos : SUBSET Tx, seq : 0..MaxSeq \cup {seqLeave},
                          ct : Nat]
        /\ sent' \in Seq(0..MaxSeq \cup {seqLeave})
        /\ acquired' \in SUBSET SUBSET Tx
        /\ currPeerPositions' = curr
        /\ DisputeType'
    BY <2>1, <2>2, <2>3, UpdateOurPositionsType, Zenon
  <2>5. state' \in {"No", "MovedOn", "Yes"}
    BY <1>5, HaveConsensusType, Zenon DEF UpdateAndCheck
  <2>6. Cardinality(Proposers \ stale) \in Nat
    BY PeerCardinality DEF Proposers
  <2>7. /\ phase' \in {"open", "establish", "accepted"}
        /\ prevProposers' \in Nat
        /\ prevRoundTime' \in Nat
    BY <1>2, <1>5, <2>6, ZenonT(30) DEF UpdateAndCheck, TypeOK, RoundType
  <2>8. RoundType'
    BY <1>3, <2>7, ZenonT(30) DEF TypeOK, RoundType
  <2>9. PositionType'
    BY <1>1, <1>2, <1>3, <2>4, <2>5, ZenonT(30) DEF TypeOK, PositionType
  <2>10. PeerType'
    BY <1>3, <2>1, <2>4, Zenon DEF TypeOK, PeerType
  <2> QED
    BY <2>4, <2>8, <2>9, <2>10, Zenon
<1> QED
  BY <1>1, <1>4, <1>5, Zenon

LEMMA PhaseOpenType ==
  ASSUME TypeOK, phaseOpen, UNCHANGED <<firstRound, useRoundedCloseTime>>
  PROVE  RoundType' /\ PositionType' /\ DisputeType' /\ PeerType'
<1>1. UNCHANGED <<mode, prevLedgerID, previousLedger, prevProposers,
                  prevRoundTime, currPeerPositions, deadNodes, rawCloseTimes>>
  BY ZenonT(30) DEF phaseOpen
<1>2. CASE UNCHANGED <<phase, ourPosition, disputeVars, acquired, sent>>
  BY <1>1, <1>2, ZenonT(30)
     DEF TypeOK, RoundType, PositionType, DisputeType, PeerType,
     ourPosition, disputeVars
<1>3. ASSUME NEW S \in TxSets, NEW ct \in CloseTimes, closeLedger(S, ct),
             phase' = "establish", roundTime' = 0
      PROVE  RoundType' /\ PositionType' /\ DisputeType' /\ PeerType'
  <2>1. PositionType' /\ DisputeType' /\ acquired' \in SUBSET SUBSET Tx
    BY <1>3, CloseLedgerType, Zenon
  <2> QED
    BY <1>1, <1>3, <2>1, ZenonT(30) DEF TypeOK, RoundType, PeerType
<1> QED
  BY <1>2, <1>3, Zenon DEF phaseOpen

LEMMA DispatchType ==
  ASSUME TypeOK, dispatchPhase, Return
  PROVE  TypeOK'
<1>1. ControlType'
  BY ReturnType
<1>2. UNCHANGED <<firstRound, useRoundedCloseTime, recentPeerPositions>>
  BY DEF dispatchPhase
<1>3. RoundType' /\ PositionType' /\ DisputeType' /\ PeerType'
  <2>1. CASE phaseOpen
    BY <1>2, <2>1, PhaseOpenType
  <2>2. CASE phaseEstablish
    BY <1>2, <2>2, PhaseEstablishType, ZenonT(30)
  <2>3. CASE UNCHANGED <<round, ourPosition, disputeVars, peerVars, sent>>
    BY <2>3 DEF TypeOK, RoundType, PositionType, DisputeType, PeerType,
       round, ourPosition, disputeVars, peerVars
  <2> QED
    BY <2>1, <2>2, <2>3 DEF dispatchPhase
<1> QED
  BY <1>1, <1>2, <1>3 DEF TypeOK

LEMMA LeaveConsensusType ==
  ASSUME TypeOK, leaveConsensus
  PROVE  /\ position' \in [pos : SUBSET Tx, seq : 0..MaxSeq \cup {seqLeave},
                           ct : Nat]
         /\ sent' \in Seq(0..MaxSeq \cup {seqLeave})
<1>1. position \in [pos : SUBSET Tx, seq : 0..MaxSeq \cup {seqLeave}, ct : Nat]
  BY DEF TypeOK, PositionType
<1>2. [position EXCEPT !.seq = seqLeave]
        \in [pos : SUBSET Tx, seq : 0..MaxSeq \cup {seqLeave}, ct : Nat]
  BY <1>1
<1>3. sent \in Seq(0..MaxSeq \cup {seqLeave})
      /\ Append(sent, seqLeave) \in Seq(0..MaxSeq \cup {seqLeave})
  BY DEF TypeOK, PositionType
<1> QED
  BY <1>1, <1>2, <1>3, Zenon DEF leaveConsensus

LEMMA WaitForLedgerType ==
  ASSUME TypeOK, NEW lgrId \in Ledger, WaitForLedger(lgrId), pending' \in Nat
  PROVE  TypeOK'
<1>1. ControlType' /\ recentPeerPositions' \in [Peer -> Seq(Proposal)]
  BY StartPlaybackType, Zenon DEF WaitForLedger, TypeOK
<1>2. RoundType'
  BY Zenon DEF WaitForLedger, ModeAfterLeaving, TypeOK, RoundType
<1>3. PositionType'
  <2>1. UNCHANGED <<haveResult, txns, roundTime, state>>
    BY Zenon DEF WaitForLedger
  <2> QED
    BY <2>1, LeaveConsensusType, Zenon DEF WaitForLedger, TypeOK, PositionType
<1>4. DisputeType' /\ PeerType'
  BY ClearedTypes DEF WaitForLedger, TypeOK, PeerType
<1> QED
  BY <1>1, <1>2, <1>3, <1>4, Zenon DEF TypeOK

LEMMA LedgerAcquiredType ==
  ASSUME TypeOK, LedgerAcquired, pending' \in Nat
  PROVE  TypeOK'
<1>1. /\ prevLedgerID \in Ledger
      /\ recentPeerPositions \in [Peer -> Seq(Proposal)]
      /\ firstRound' \in BOOLEAN
      /\ prevRoundTime' \in Nat
  BY DEF LedgerAcquired, TypeOK, RoundType
<1>2. useRoundedCloseTime' \in BOOLEAN
  BY <1>1, AcquireLedgerType DEF LedgerAcquired
<1> QED
  BY <1>1, <1>2, StartRoundInternalType, Zenon DEF LedgerAcquired

LEMMA LedgerMissingType ==
  ASSUME TypeOK, LedgerMissing, ControlType',
         leaveConsensus \/ UNCHANGED <<position, sent>>
  PROVE  TypeOK'
<1>1. RoundType' /\ DisputeType' /\ PeerType'
      /\ recentPeerPositions' \in [Peer -> Seq(Proposal)]
  BY DEF LedgerMissing, TypeOK, RoundType, DisputeType, PeerType,
     disputeVars, peerVars
<1>2. UNCHANGED <<haveResult, txns, roundTime, state>>
  BY DEF LedgerMissing
<1>3. PositionType'
  BY <1>2, LeaveConsensusType, Zenon DEF TypeOK, PositionType
<1> QED
  BY <1>1, <1>3, Zenon DEF TypeOK

LEMMA TimerBodyType ==
  ASSUME TypeOK, NEW netLgr \in Ledger, timerBody(netLgr)
  PROVE  TypeOK'
<1>1. pending \in Nat /\ pending + 1 \in Nat
  BY DEF TypeOK, ControlType
<1>2. CASE dispatchPhase /\ Return
  BY <1>2, DispatchType
<1>3. CASE WaitForLedger(netLgr) /\ pending' = pending + 1
  BY <1>1, <1>3, WaitForLedgerType
<1>4. CASE LedgerAcquired /\ pending' = pending + 1
  BY <1>1, <1>4, LedgerAcquiredType, ZenonT(30)
<1>5. CASE /\ leaveConsensus
           /\ LedgerMissing
           /\ pc' = "dispatch"
           /\ UNCHANGED <<pending, replayPeers, replayQueue>>
  <2>1. ControlType'
    BY <1>5 DEF TypeOK, ControlType
  <2> QED
    BY <1>5, <2>1, LedgerMissingType, Zenon
<1> QED
  BY <1>2, <1>3, <1>4, <1>5, Zenon DEF timerBody

-----------------------------------------------------------------------------
(* The type invariant *)

LEMMA InitTypeOK == Init => TypeOK
<1> SUFFICES ASSUME Init PROVE TypeOK
  BY Zenon
<1>1. ControlType /\ RoundType
  BY DEF Init, ControlType, RoundType
<1>2. position \in [pos : SUBSET Tx, seq : 0..MaxSeq \cup {seqLeave}, ct : Nat]
  BY ZeroSeq, Zenon DEF Init
<1>3. sent \in Seq(0..MaxSeq \cup {seqLeave})
  BY EmptySeq DEF Init
<1>4. haveResult \in BOOLEAN
  BY Zenon DEF Init
<1>5. PositionType
  BY <1>2, <1>3, <1>4, ZenonT(30) DEF Init, PositionType
<1>6. DisputeType /\ PeerType
  BY Zenon DEF Init, DisputeType, PeerType, NoVotes
<1>7. recentPeerPositions \in [Peer -> Seq(Proposal)]
  BY DEF Init
<1> QED
  BY <1>1, <1>5, <1>6, <1>7, Zenon DEF TypeOK

LEMMA NextTypeOK == TypeOK /\ [Next]_vars => TypeOK'
<1> SUFFICES ASSUME TypeOK, [Next]_vars PROVE TypeOK'
  BY Zenon
<1>1. CASE StartRound
  <2>1. PICK prevID \in Ledger, prevLedger \in Ledger,
             nowUntrusted \in SUBSET Peer, proposing \in BOOLEAN :
               startRound(prevID, prevLedger, nowUntrusted, proposing)
    BY <1>1 DEF StartRound
  <2> DEFINE startMode == IF proposing THEN "proposing" ELSE "observing"
             recent == [p \in Peer |-> IF p \in nowUntrusted
                                       THEN <<>> ELSE recentPeerPositions[p]]
  <2>2. recent \in [Peer -> Seq(Proposal)]
    BY DEF TypeOK
  <2>3. startMode \in {"proposing", "observing", "wrongLedger", "switchedLedger"}
    OBVIOUS
  <2>4. /\ firstRound' \in BOOLEAN
        /\ prevRoundTime' \in Nat
        /\ pending' \in Nat
    <3>1. firstRound' \in BOOLEAN
      BY <2>1, ZenonT(30) DEF startRound
    <3>2. prevRoundTime' \in Nat /\ pending' \in Nat
      BY <2>1 DEF startRound, TypeOK, RoundType, ControlType,
         ledgerIDLE_INTERVAL
    <3> QED
      BY <3>1, <3>2
  <2>5. \/ startRoundInternal(prevID, prevID, startMode, recent)
        \/ startRoundInternal(prevID, prevLedger, "wrongLedger", recent)
    BY <2>1, Zenon DEF startRound
  <2>6. acquireLedger(prevID) \/ UNCHANGED useRoundedCloseTime
    BY <2>1, Zenon DEF startRound
  <2>7. useRoundedCloseTime' \in BOOLEAN
    BY <2>6, AcquireLedgerType, Zenon DEF TypeOK, RoundType
  <2> HIDE DEF startMode, recent
  <2> QED
    BY <2>2, <2>3, <2>4, <2>5, <2>7, StartRoundInternalType, Zenon
<1>2. CASE PeerProposal
  <2>1. PICK prop \in Proposal : peerProposal(prop)
    BY <1>2, Zenon DEF PeerProposal
  <2>2. DisputeType' /\ PeerType'
    BY <2>1, PeerProposalInternalType, Zenon DEF peerProposal
  <2>3. recentPeerPositions' \in [Peer -> Seq(Proposal)]
    BY <2>1, ProposalFields, ConsensusAssumption, SMTT(30)
       DEF peerProposal, TypeOK
  <2>4. UNCHANGED <<control, round, ourPosition, sent>>
    BY <2>1, ZenonT(30) DEF peerProposal
  <2> QED
    BY <2>2, <2>3, <2>4 DEF TypeOK, ControlType, RoundType, PositionType,
       control, round, ourPosition
<1>3. CASE GotTxSet
  <2>1. PICK S \in TxSets : gotTxSet(S)
    BY <1>3 DEF GotTxSet
  <2>2. DisputeType' /\ acquired' \in SUBSET SUBSET Tx
    BY <2>1, NewTxSetType, ConsensusAssumption DEF gotTxSet
  <2>3. UNCHANGED <<control, round, ourPosition, recentPeerPositions, sent,
                    currPeerPositions, deadNodes, rawCloseTimes>>
    BY <2>1 DEF gotTxSet
  <2> QED
    BY <2>2, <2>3, ZenonT(30)
       DEF TypeOK, ControlType, RoundType, PositionType, PeerType,
       control, round, ourPosition
<1>4. CASE Timer
  BY <1>4, TimerBodyType DEF Timer, timerEntry
<1>5. CASE ResumeTimer
  BY <1>5, DispatchType, Zenon DEF ResumeTimer
<1>6. ASSUME NEW peer \in Peer, PlaybackPeer(peer) PROVE TypeOK'
  BY <1>6, ZenonT(30)
     DEF PlaybackPeer, TypeOK, ControlType, RoundType, PositionType,
     DisputeType, PeerType, round, ourPosition, disputeVars, peerVars
<1>7. CASE PlaybackProposal
  <2>1. Head(replayQueue) \in Proposal /\ Tail(replayQueue) \in Seq(Proposal)
    BY <1>7 DEF PlaybackProposal, TypeOK, ControlType
  <2>2. DisputeType' /\ PeerType'
    BY <1>7, <2>1, PeerProposalInternalType, Zenon DEF PlaybackProposal
  <2>3. UNCHANGED <<pc, pending, replayPeers, round, ourPosition,
                    recentPeerPositions, sent>>
        /\ replayQueue' = Tail(replayQueue)
    BY <1>7, Zenon DEF PlaybackProposal
  <2> QED
    BY <2>1, <2>2, <2>3 DEF TypeOK, ControlType, RoundType, PositionType,
       round, ourPosition
<1>8. CASE FinishStart
  <2>1. CASE \E netLgr \in Ledger : timerBody(netLgr)
    BY <2>1, TimerBodyType, Zenon
  <2>2. CASE /\ Return
             /\ UNCHANGED <<round, ourPosition, disputeVars, peerVars,
                            recentPeerPositions, sent>>
    BY <2>2, ReturnType, ZenonT(30)
       DEF TypeOK, RoundType, PositionType, DisputeType,
       PeerType, round, ourPosition, disputeVars, peerVars
  <2> QED
    BY <1>8, <2>1, <2>2, Zenon DEF FinishStart
<1>9. CASE FinishWrongLedger
  <2>1. CASE /\ Return
             /\ UNCHANGED <<round, ourPosition, disputeVars, peerVars,
                            recentPeerPositions, sent>>
    BY <2>1, ReturnType, ZenonT(30)
       DEF TypeOK, RoundType, PositionType, DisputeType,
       PeerType, round, ourPosition, disputeVars, peerVars
  <2>2. CASE LedgerAcquired /\ UNCHANGED pending
    BY <2>2, LedgerAcquiredType, ZenonT(30) DEF TypeOK, ControlType
  <2>3. CASE LedgerMissing /\ UNCHANGED <<position, sent>> /\ Return
    BY <2>3, ReturnType, LedgerMissingType, ZenonT(30)
  <2> QED
    BY <1>9, <2>1, <2>2, <2>3, Zenon DEF FinishWrongLedger
<1>10. CASE Simulate
  <2>1. PICK S \in TxSets, ct \in CloseTimes : simulate(S, ct)
    BY <1>10, ZenonT(30) DEF Simulate
  <2>2. roundTime' \in Nat /\ prevRoundTime' \in Nat
    BY <2>1, ConsensusAssumption DEF simulate
  <2>3. PositionType' /\ DisputeType' /\ acquired' \in SUBSET SUBSET Tx
    BY <2>1, <2>2, CloseLedgerType, ZenonT(30) DEF simulate
  <2>4. prevProposers' \in Nat
    BY <2>1, PeerCardinality DEF simulate, Proposers
  <2>5. UNCHANGED <<control, mode, firstRound, prevLedgerID, previousLedger,
                    useRoundedCloseTime, currPeerPositions, deadNodes, rawCloseTimes,
                    recentPeerPositions>> /\ phase' = "accepted"
    BY <2>1, Zenon DEF simulate
  <2> QED
    BY <2>2, <2>3, <2>4, <2>5, ZenonT(30)
       DEF TypeOK, ControlType, RoundType, PeerType,
       control
<1>11. CASE UNCHANGED vars
  <2>1. UNCHANGED <<control, round, ourPosition, disputeVars, peerVars>>
        /\ UNCHANGED <<recentPeerPositions, sent>>
    BY <1>11, Zenon DEF vars, control, round, ourPosition, disputeVars, peerVars
  <2>2. ControlType' /\ RoundType'
    BY <2>1, ZenonT(30) DEF TypeOK, ControlType, RoundType, control, round
  <2>3. PositionType' /\ DisputeType' /\ PeerType'
    BY <2>1, ZenonT(30)
       DEF TypeOK, PositionType, DisputeType, PeerType, control, round, ourPosition,
       disputeVars, peerVars
  <2> QED
    BY <2>1, <2>2, <2>3, Zenon DEF TypeOK
<1> QED
  BY <1>1, <1>2, <1>3, <1>4, <1>5, <1>6, <1>7, <1>8, <1>9, <1>10, <1>11,
     ZenonT(30)
     DEF Next, Playback

\* The engine's state keeps its types: whatever the order of proposals, sets,
\* timer ticks and ledger switches, no sequence number leaves its range
\* (ConsensusProposal.h changePosition, bowOut) and every recorded position,
\* vote and dispute is well formed.
THEOREM EngineTypeCorrect == Spec => []TypeOK
  BY InitTypeOK, NextTypeOK, PTL DEF Spec

-------------------------------------------------------------------------------
LEMMA ProposalIsSome ==
  ASSUME NEW prop \in Proposal
  PROVE  prop # NoProposal
<1>1. DOMAIN prop = {"node", "prev", "seq", "pos", "ct"}
  BY DEF Proposal
<1>2. DOMAIN NoProposal = {"node"}
  BY ZenonT(30) DEF NoProposal
<1> QED
  BY <1>1, <1>2

-----------------------------------------------------------------------------
(* The shape of a round *)

\* A replay at the start of a round runs in the open phase, and one for a
\* missing ledger never in the accepted phase.
ReplayPhase ==
  /\ pc = "replayStart" => phase = "open"
  /\ pc = "replayWrong" => phase # "accepted"

RoundInv ==
  /\ PhaseMatchesResult
  /\ ReplayPhase
  /\ ProposingOnOwnLedger

LEMMA StartRoundInternalRound ==
  ASSUME NEW lgrId, NEW ledger, NEW newMode, NEW recent,
         newMode = "proposing" => ledger = lgrId,
         startRoundInternal(lgrId, ledger, newMode, recent)
  PROVE  RoundInv'
  BY ZenonT(30) DEF startRoundInternal, ClearResult, StartPlayback, RoundInv,
     PhaseMatchesResult, ReplayPhase, ProposingOnOwnLedger

LEMMA ReturnRound ==
  ASSUME TypeOK, Return
  PROVE  pc' \in {"idle", "dispatch"}
  BY DEF Return

LEMMA DispatchRound ==
  ASSUME TypeOK, RoundInv, dispatchPhase, Return
  PROVE  RoundInv'
<1>1. ReplayPhase'
  BY ReturnRound DEF ReplayPhase
<1>2. UNCHANGED <<mode, prevLedgerID, previousLedger>>
  BY Zenon DEF dispatchPhase, phaseOpen, phaseEstablish, round
<1>3. PhaseMatchesResult'
  <2>1. CASE phaseOpen
    <3>1. CASE UNCHANGED <<phase, ourPosition, disputeVars, acquired, sent>>
      BY <3>1 DEF RoundInv, PhaseMatchesResult, ourPosition
    <3>2. ASSUME NEW S \in TxSets, NEW ct \in CloseTimes, closeLedger(S, ct),
                 phase' = "establish"
          PROVE  PhaseMatchesResult'
      BY <3>2, Zenon DEF closeLedger, PhaseMatchesResult
    <3> QED
      BY <2>1, <3>1, <3>2, Zenon DEF phaseOpen
  <2>2. CASE phaseEstablish
    <3>1. phase' \in {"establish", "accepted"} /\ UNCHANGED haveResult
          /\ phase = "establish"
      BY <2>2, Zenon DEF phaseEstablish, UpdateAndCheck
    <3> QED
      BY <3>1 DEF RoundInv, PhaseMatchesResult
  <2>3. CASE UNCHANGED <<round, ourPosition, disputeVars, peerVars, sent>>
    BY <2>3, Zenon DEF round, ourPosition, RoundInv, PhaseMatchesResult
  <2> QED
    BY <2>1, <2>2, <2>3 DEF dispatchPhase
<1> QED
  BY <1>1, <1>2, <1>3 DEF RoundInv, ProposingOnOwnLedger

LEMMA TimerBodyRound ==
  ASSUME TypeOK, RoundInv, phase # "accepted", NEW netLgr \in Ledger,
         timerBody(netLgr)
  PROVE  RoundInv'
<1>1. CASE dispatchPhase /\ Return
  BY <1>1, DispatchRound, ZenonT(30)
<1>2. CASE WaitForLedger(netLgr)
  BY <1>2, ZenonT(30)
     DEF WaitForLedger, StartPlayback, ModeAfterLeaving, RoundInv,
     PhaseMatchesResult, ReplayPhase, ProposingOnOwnLedger
<1>3. CASE LedgerAcquired
  BY <1>3, StartRoundInternalRound, Zenon DEF LedgerAcquired
<1>4. CASE LedgerMissing /\ pc' = "dispatch"
  BY <1>4, Zenon DEF LedgerMissing, RoundInv, PhaseMatchesResult, ReplayPhase,
     ProposingOnOwnLedger
<1> QED
  BY <1>1, <1>2, <1>3, <1>4, Zenon DEF timerBody

LEMMA InitRound == Init => RoundInv
  BY Zenon DEF Init, RoundInv, PhaseMatchesResult, ReplayPhase, ProposingOnOwnLedger

LEMMA NextRound == TypeOK /\ RoundInv /\ [Next]_vars => RoundInv'
<1> SUFFICES ASSUME TypeOK, RoundInv, [Next]_vars PROVE RoundInv'
  OBVIOUS
<1> USE DEF RoundInv, PhaseMatchesResult, ReplayPhase, ProposingOnOwnLedger
<1>1. CASE StartRound
  <2> USE StartRoundInternalRound
  <2> QED
    BY <1>1, Zenon DEF StartRound, startRound
<1>2. CASE PeerProposal
  <2>1. UNCHANGED <<control, round, ourPosition>>
    BY <1>2, Zenon DEF PeerProposal, peerProposal
  <2> QED
    BY <2>1 DEF control, round, ourPosition
<1>3. CASE GotTxSet
  <2>1. UNCHANGED <<control, round, ourPosition>>
    BY <1>3, ZenonT(30) DEF GotTxSet, gotTxSet
  <2> QED
    BY <2>1 DEF control, round, ourPosition
<1>4. CASE Timer
  BY <1>4, TimerBodyRound DEF Timer, timerEntry
<1>5. CASE ResumeTimer
  BY <1>5, DispatchRound, ZenonT(30) DEF ResumeTimer
<1>6. CASE Playback
  BY <1>6 DEF Playback, PlaybackPeer, PlaybackProposal, round, ourPosition
<1>7. CASE FinishStart
  <2>1. CASE \E netLgr \in Ledger : timerBody(netLgr)
    BY <1>7, <2>1, TimerBodyRound, Zenon DEF FinishStart
  <2>2. CASE Return /\ UNCHANGED <<round, ourPosition>>
    BY <2>2, ReturnRound DEF round, ourPosition
  <2> QED
    BY <1>7, <2>1, <2>2, Zenon DEF FinishStart
<1>8. CASE FinishWrongLedger
  <2>1. CASE Return /\ UNCHANGED <<round, ourPosition>>
    BY <2>1, ReturnRound DEF round, ourPosition
  <2>2. CASE LedgerAcquired
    BY <2>2, StartRoundInternalRound, ZenonT(30) DEF LedgerAcquired
  <2>3. CASE LedgerMissing /\ Return
    BY <2>3, ReturnRound DEF LedgerMissing
  <2> QED
    BY <1>8, <2>1, <2>2, <2>3, Zenon DEF FinishWrongLedger
<1>9. CASE Simulate
  BY <1>9, Zenon DEF Simulate, simulate, closeLedger, control
<1>10. CASE UNCHANGED vars
  BY <1>10 DEF vars, control, round, ourPosition
<1> QED
  BY <1>1, <1>2, <1>3, <1>4, <1>5, <1>6, <1>7, <1>8, <1>9, <1>10, ZenonT(30)
     DEF Next

\* The assertions of closeLedger, phaseEstablish and updateOurPositions on
\* result_ hold, and the node never proposes on a ledger the network has left.
THEOREM RoundShape == Spec => []RoundConsistent
<1>1. Init => TypeOK /\ RoundInv
  BY InitTypeOK, InitRound, Zenon
<1>2. TypeOK /\ RoundInv /\ [Next]_vars => (TypeOK /\ RoundInv)'
  BY NextTypeOK, NextRound
<1>3. RoundInv => RoundConsistent
  BY DEF RoundInv, RoundConsistent
<1> QED
  BY <1>1, <1>2, <1>3, PTL DEF Spec

\* A step from the accepted phase starts a round or changes nothing that the
\* round consists of.
LEMMA AcceptedStep ==
  ASSUME RoundInv, [Next]_vars, phase = "accepted"
  PROVE  \/ phase' = "open"
         \/ UNCHANGED <<phase, ourPosition, disputeVars, previousLedger, mode,
                        rawCloseTimes, currPeerPositions, useRoundedCloseTime>>
<1> USE DEF ourPosition, disputeVars, round, peerVars
<1>1. CASE StartRound
  BY <1>1, ZenonT(30) DEF StartRound, startRound, startRoundInternal
<1>2. CASE PeerProposal
  <2>1. PICK prop \in Proposal : peerProposal(prop)
    BY <1>2 DEF PeerProposal
  <2>2. Ignored(prop)
    BY Zenon DEF Ignored
  <2>3. UNCHANGED <<peerVars, disputeVars>>
    BY <2>1, <2>2, Zenon DEF peerProposal, peerProposalInternal
  <2> QED
    BY <2>1, <2>3, Zenon DEF peerProposal
<1>3. CASE GotTxSet
  BY <1>3 DEF GotTxSet, gotTxSet
<1>4. CASE Timer
  BY <1>4, ZenonT(30) DEF Timer, timerEntry
<1>5. CASE ResumeTimer
  BY <1>5 DEF ResumeTimer, dispatchPhase, phaseOpen, phaseEstablish
<1>6. CASE Playback
  BY <1>6, Zenon
     DEF Playback, PlaybackPeer, PlaybackProposal, RoundInv, ReplayPhase
<1>7. CASE FinishStart
  BY <1>7, Zenon DEF FinishStart, RoundInv, ReplayPhase
<1>8. CASE FinishWrongLedger
  BY <1>8, Zenon DEF FinishWrongLedger, RoundInv, ReplayPhase
<1>9. CASE Simulate
  BY <1>9, ZenonT(30) DEF Simulate, simulate
<1>10. CASE UNCHANGED vars
  BY <1>10 DEF vars
<1> QED
  BY <1>1, <1>2, <1>3, <1>4, <1>5, <1>6, <1>7, <1>8, <1>9, <1>10, ZenonT(30)
     DEF Next

\* What the accepting job reads without a lock does not change while the
\* phase is accepted: every handler returns early or is startRound.
THEOREM AcceptedResultFrozen == Spec => AcceptedFrozen
<1> DEFINE A == phase = "accepted" =>
                  \/ phase' = "open"
                  \/ UNCHANGED <<phase, ourPosition, disputeVars,
                                 previousLedger, mode, rawCloseTimes>>
<1>1. Init => TypeOK /\ RoundInv
  BY InitTypeOK, InitRound
<1>2. TypeOK /\ RoundInv /\ [Next]_vars => (TypeOK /\ RoundInv)'
  BY NextTypeOK, NextRound
<1>3. TypeOK /\ RoundInv /\ [Next]_vars => [A]_vars
  BY AcceptedStep
<1> QED
  BY <1>1, <1>2, <1>3, PTL DEF Spec, AcceptedFrozen

-----------------------------------------------------------------------------
(* The peers' positions *)

LEMMA PeerProposalInternalRound ==
  ASSUME TypeOK, PositionsBelongToRound, NEW prop \in Proposal,
         peerProposalInternal(prop), UNCHANGED prevLedgerID
  PROVE  PositionsBelongToRound'
<1> USE DEF PositionsBelongToRound, Proposers
<1>1. CASE UNCHANGED <<peerVars, disputeVars>>
  BY <1>1, Zenon DEF peerVars
<1>2. CASE PeerBowsOut(prop.node)
  BY <1>2, ProposalFields DEF PeerBowsOut, TypeOK, PeerType
<1>3. CASE ~Ignored(prop) /\ PeerTakesPosition(prop)
  <2>1. prop.prev = prevLedgerID /\ prop.node \notin deadNodes
    BY <1>3, Zenon DEF Ignored
  <2>2. /\ currPeerPositions' = [currPeerPositions EXCEPT ![prop.node] = prop]
        /\ deadNodes' = deadNodes
    BY <1>3 DEF PeerTakesPosition
  <2>3. \A p \in Peer : currPeerPositions'[p] = IF p = prop.node THEN prop
                                                ELSE currPeerPositions[p]
    BY <2>2, ZenonT(30) DEF TypeOK, PeerType
  <2> QED
    BY <2>1, <2>2, <2>3, Zenon
<1> QED
  BY <1>1, <1>2, <1>3, Zenon DEF peerProposalInternal

LEMMA PeerProposalInternalAdvance ==
  ASSUME TypeOK, NEW prop \in Proposal, peerProposalInternal(prop),
         NEW p \in Peer,
         currPeerPositions[p] # NoProposal, currPeerPositions'[p] # NoProposal
  PROVE  \/ currPeerPositions'[p] = currPeerPositions[p]
         \/ currPeerPositions'[p].seq > currPeerPositions[p].seq
<1>1. CASE UNCHANGED <<peerVars, disputeVars>>
  BY <1>1 DEF peerVars
<1>2. CASE PeerBowsOut(prop.node)
  BY <1>2, ProposalFields, ZenonT(30) DEF PeerBowsOut, TypeOK, PeerType
<1>3. CASE ~Ignored(prop) /\ PeerTakesPosition(prop)
  <2>1. currPeerPositions'[p] = IF p = prop.node THEN prop
                                ELSE currPeerPositions[p]
    BY <1>3, Zenon DEF PeerTakesPosition, TypeOK, PeerType
  <2>2. CASE p # prop.node
    BY <2>1, <2>2, ZenonT(30)
  <2>3. CASE p = prop.node
    <3>1. ~(prop.seq <= currPeerPositions[p].seq)
      BY <1>3, <2>3, ZenonT(30) DEF Ignored
    <3>2. currPeerPositions[p] \in Proposal
      BY DEF TypeOK, PeerType
    <3>3. prop.seq \in Nat /\ currPeerPositions[p].seq \in Nat
      BY <3>2, ProposalSeqs, Zenon
    <3> QED
      BY <2>1, <2>3, <3>1, <3>3
  <2> QED
    BY <2>2, <2>3
<1> QED
  BY <1>1, <1>2, <1>3, ZenonT(30) DEF peerProposalInternal

\* A step that does not bring a proposal keeps, drops or clears positions.
PositionsOnlyDropped ==
  /\ \A p \in Peer : currPeerPositions'[p] \in {currPeerPositions[p], NoProposal}
  /\ Proposers' = {} \/ UNCHANGED <<prevLedgerID, deadNodes>>

LEMMA ClearPeersDrops ==
  ASSUME ClearPeers
  PROVE  PositionsOnlyDropped
  BY DEF ClearPeers, PositionsOnlyDropped, Proposers

LEMMA StartRoundInternalDrops ==
  ASSUME NEW lgrId, NEW ledger, NEW newMode, NEW recent,
         startRoundInternal(lgrId, ledger, newMode, recent)
  PROVE  PositionsOnlyDropped
  BY ClearPeersDrops DEF startRoundInternal

LEMMA DispatchDrops ==
  ASSUME dispatchPhase
  PROVE  PositionsOnlyDropped
<1>1. CASE phaseOpen
  BY <1>1, ZenonT(30) DEF phaseOpen, PositionsOnlyDropped
<1>2. CASE phaseEstablish
  <2>1. UNCHANGED <<prevLedgerID, deadNodes>>
    BY <1>2 DEF phaseEstablish
  <2>2. \/ UNCHANGED currPeerPositions
        \/ \E stale \in SUBSET Proposers :
             currPeerPositions' = [p \in Peer |-> IF p \in stale THEN NoProposal
                                                  ELSE currPeerPositions[p]]
    BY <1>2, ZenonT(30) DEF phaseEstablish, UpdateAndCheck, updateOurPositions
  <2> QED
    BY <2>1, <2>2, ZenonT(30) DEF PositionsOnlyDropped
<1>3. CASE UNCHANGED <<round, ourPosition, disputeVars, peerVars, sent>>
  BY <1>3 DEF round, peerVars, PositionsOnlyDropped
<1> QED
  BY <1>1, <1>2, <1>3, ZenonT(30) DEF dispatchPhase

LEMMA TimerBodyDrops ==
  ASSUME NEW netLgr \in Ledger, timerBody(netLgr)
  PROVE  PositionsOnlyDropped
<1>1. CASE dispatchPhase
  BY <1>1, DispatchDrops, Zenon
<1>2. CASE WaitForLedger(netLgr)
  BY <1>2, ClearPeersDrops DEF WaitForLedger
<1>3. CASE LedgerAcquired
  BY <1>3, StartRoundInternalDrops, ZenonT(30) DEF LedgerAcquired
<1>4. CASE LedgerMissing
  BY <1>4 DEF LedgerMissing, peerVars, PositionsOnlyDropped
<1> QED
  BY <1>1, <1>2, <1>3, <1>4, ZenonT(30) DEF timerBody

\* Every step applies one proposal or only drops positions.
LEMMA NextPositions ==
  ASSUME TypeOK, [Next]_vars
  PROVE  \/ PositionsOnlyDropped
         \/ /\ \E prop \in Proposal : peerProposalInternal(prop)
            /\ UNCHANGED prevLedgerID
<1>1. CASE StartRound
  <2> USE StartRoundInternalDrops
  <2> QED
    BY <1>1, ZenonT(30) DEF StartRound, startRound
<1>2. CASE PeerProposal
  BY <1>2, ZenonT(30) DEF PeerProposal, peerProposal, round
<1>3. CASE GotTxSet
  BY <1>3, Zenon DEF GotTxSet, gotTxSet, round, PositionsOnlyDropped
<1>4. CASE Timer
  BY <1>4, TimerBodyDrops, Zenon DEF Timer, timerEntry
<1>5. CASE ResumeTimer
  BY <1>5, DispatchDrops, Zenon DEF ResumeTimer
<1>6. CASE Playback
  <2>1. CASE PlaybackProposal
    <3>1. Head(replayQueue) \in Proposal
      BY <2>1 DEF PlaybackProposal, TypeOK, ControlType
    <3> QED
      BY <2>1, <3>1, ZenonT(30) DEF PlaybackProposal, round
  <2>2. CASE \E peer \in Peer : PlaybackPeer(peer)
    BY <2>2, ZenonT(30) DEF PlaybackPeer, round, peerVars, PositionsOnlyDropped
  <2> QED
    BY <1>6, <2>1, <2>2, ZenonT(30) DEF Playback
<1>7. CASE FinishStart
  <2>1. CASE \E netLgr \in Ledger : timerBody(netLgr)
    BY <2>1, TimerBodyDrops, ZenonT(30)
  <2>2. CASE UNCHANGED <<round, peerVars>>
    BY <2>2 DEF round, peerVars, PositionsOnlyDropped
  <2> QED
    BY <1>7, <2>1, <2>2, ZenonT(30) DEF FinishStart
<1>8. CASE FinishWrongLedger
  <2>1. CASE UNCHANGED <<round, peerVars>>
    BY <2>1 DEF round, peerVars, PositionsOnlyDropped
  <2>2. CASE LedgerAcquired
    BY <2>2, StartRoundInternalDrops, ZenonT(30) DEF LedgerAcquired
  <2>3. CASE LedgerMissing
    BY <2>3, ZenonT(30) DEF LedgerMissing, peerVars, PositionsOnlyDropped
  <2> QED
    BY <1>8, <2>1, <2>2, <2>3, ZenonT(30) DEF FinishWrongLedger
<1>9. CASE Simulate
  BY <1>9, Zenon DEF Simulate, simulate, PositionsOnlyDropped
<1>10. CASE UNCHANGED vars
  BY <1>10 DEF vars, round, peerVars, PositionsOnlyDropped
<1> QED
  BY <1>1, <1>2, <1>3, <1>4, <1>5, <1>6, <1>7, <1>8, <1>9, <1>10, Zenon
     DEF Next

\* The positions that count belong to this round's ledger and to peers that
\* have not bowed out, through every replay of stored proposals.
THEOREM PositionsInRound == Spec => []PositionsBelongToRound
<1>1. Init => TypeOK /\ PositionsBelongToRound
  BY InitTypeOK, Zenon DEF Init, PositionsBelongToRound, Proposers
<1>2. TypeOK /\ PositionsBelongToRound /\ [Next]_vars => PositionsBelongToRound'
  <2>1. ASSUME PositionsBelongToRound, PositionsOnlyDropped
        PROVE  PositionsBelongToRound'
    BY <2>1 DEF PositionsBelongToRound, PositionsOnlyDropped, Proposers
  <2> QED
    BY <2>1, NextPositions, PeerProposalInternalRound, ZenonT(30)
<1> QED
  BY <1>1, <1>2, NextTypeOK, PTL DEF Spec

\* A peer's position is replaced by a later one or dropped, whatever the
\* network reorders and whatever is replayed.
THEOREM PeersOnlyAdvance == Spec => PeerPositionsAdvance
<1> DEFINE A == \A p \in Peer :
                  \/ currPeerPositions[p] = NoProposal
                  \/ currPeerPositions'[p] = NoProposal
                  \/ currPeerPositions'[p] = currPeerPositions[p]
                  \/ currPeerPositions'[p].seq > currPeerPositions[p].seq
<1>1. TypeOK /\ [Next]_vars => [A]_vars
  <2>1. PositionsOnlyDropped => A
    BY DEF PositionsOnlyDropped
  <2> QED
    BY <2>1, NextPositions, PeerProposalInternalAdvance, ZenonT(30)
<1> QED
  BY <1>1, InitTypeOK, NextTypeOK, PTL DEF Spec, PeerPositionsAdvance

-----------------------------------------------------------------------------
(* Our own proposals *)

\* The largest number broadcast is at most our position's.
SentInv ==
  /\ ~haveResult => sent = <<>>
  /\ \A i \in DOMAIN sent : sent[i] <= position.seq
  /\ OwnProposalsAdvance

LEMMA SequenceNumbers ==
  ASSUME TypeOK
  PROVE  /\ sent \in Seq(Nat)
         /\ position.seq \in Nat
         /\ position.seq # seqLeave => position.seq < seqLeave
<1>1. 0..MaxSeq \cup {seqLeave} \subseteq Nat
  BY ConsensusAssumption
<1>2. position.seq \in 0..MaxSeq \cup {seqLeave}
  BY DEF TypeOK, PositionType
<1>3. position.seq # seqLeave => position.seq < seqLeave
  BY <1>2, ConsensusAssumption
<1>4. sent \in Seq(0..MaxSeq \cup {seqLeave})
  BY DEF TypeOK, PositionType
<1> QED
  BY <1>1, <1>2, <1>3, <1>4

LEMMA UnchangedSent ==
  ASSUME SentInv, UNCHANGED <<haveResult, position, sent>>
  PROVE  SentInv'
  BY Zenon DEF SentInv, OwnProposalsAdvance

LEMMA CloseLedgerSent ==
  ASSUME SentInv, ~haveResult, NEW S, NEW ct, closeLedger(S, ct)
  PROVE  SentInv'
<1>1. sent = <<>>
  BY DEF SentInv
<1>2. /\ haveResult' = TRUE
      /\ position' = [pos |-> S, seq |-> 0, ct |-> ct]
      /\ sent' = IF mode = "proposing" THEN Append(sent, 0) ELSE sent
  BY Zenon DEF closeLedger
<1>3. haveResult' = TRUE /\ position'.seq = 0 /\ (sent' = <<0>> \/ sent' = <<>>)
  BY <1>1, <1>2
<1> QED
  BY <1>3 DEF SentInv, OwnProposalsAdvance

LEMMA LeaveConsensusSent ==
  ASSUME TypeOK, SentInv, leaveConsensus, UNCHANGED haveResult
  PROVE  SentInv'
<1>1. CASE mode = "proposing" /\ haveResult /\ position.seq # seqLeave
  <2>1. position'.seq = seqLeave /\ sent' = Append(sent, seqLeave)
    BY <1>1, ZenonT(30) DEF leaveConsensus, TypeOK, PositionType
  <2>2. \A i \in DOMAIN sent : sent[i] \in Nat /\ sent[i] < seqLeave
    BY <1>1, SequenceNumbers, ConsensusAssumption DEF SentInv
  <2>3. seqLeave \in Nat
    BY ConsensusAssumption, Zenon
  <2>4. /\ \A i, j \in DOMAIN sent' : i < j => sent'[i] < sent'[j]
        /\ \A i \in DOMAIN sent' : sent'[i] <= seqLeave
    BY <2>1, <2>2, <2>3, SequenceNumbers, AppendAdvances, ZenonT(30)
       DEF SentInv, OwnProposalsAdvance
  <2> QED
    BY <1>1, <2>1, <2>4, Zenon DEF SentInv, OwnProposalsAdvance
<1>2. CASE ~(mode = "proposing" /\ haveResult /\ position.seq # seqLeave)
  BY <1>2, UnchangedSent, ZenonT(30) DEF leaveConsensus
<1> QED
  BY <1>1, <1>2, ZenonT(30)

LEMMA ChangePositionSent ==
  ASSUME TypeOK, SentInv, haveResult, UNCHANGED haveResult,
         NEW S, NEW ct, NEW curr, NEW fresh, ChangePosition(S, ct, curr, fresh)
  PROVE  SentInv'
<1>1. CASE position.seq = seqLeave
  <2>1. position'.seq = position.seq /\ sent' = sent
    BY <1>1 DEF ChangePosition, NextSeq
  <2> QED
    BY <2>1, ZenonT(30) DEF SentInv, OwnProposalsAdvance
<1>2. CASE position.seq # seqLeave
  <2>1. /\ position'.seq = position.seq + 1
        /\ sent' = Append(sent, position.seq + 1) \/ sent' = sent
    BY <1>2, ZenonT(30) DEF ChangePosition, NextSeq
  <2>2. \A i \in DOMAIN sent : sent[i] \in Nat /\ sent[i] < position.seq + 1
    BY SequenceNumbers DEF SentInv
  <2>3. position.seq + 1 \in Nat
    BY SequenceNumbers
  <2>4. /\ \A i, j \in DOMAIN sent' : i < j => sent'[i] < sent'[j]
        /\ \A i \in DOMAIN sent' : sent'[i] <= position.seq + 1
    <3>1. CASE sent' = sent
      BY <2>2, <2>3, <3>1 DEF SentInv, OwnProposalsAdvance
    <3>2. CASE sent' = Append(sent, position.seq + 1)
      BY <2>2, <2>3, <3>2, SequenceNumbers, AppendAdvances, ZenonT(30)
         DEF SentInv, OwnProposalsAdvance
    <3> QED
      BY <2>1, <3>1, <3>2, Zenon
  <2> QED
    BY <2>1, <2>4, Zenon DEF SentInv, OwnProposalsAdvance
<1> QED
  BY <1>1, <1>2, ZenonT(30)

LEMMA StartRoundInternalSent ==
  ASSUME NEW lgrId, NEW ledger, NEW newMode, NEW recent,
         startRoundInternal(lgrId, ledger, newMode, recent)
  PROVE  SentInv'
  BY DEF startRoundInternal, SentInv, OwnProposalsAdvance

LEMMA DispatchSent ==
  ASSUME TypeOK, RoundInv, SentInv, dispatchPhase
  PROVE  SentInv'
<1>1. CASE phaseOpen
  <2>1. ~haveResult
    BY <1>1 DEF phaseOpen, RoundInv, PhaseMatchesResult
  <2>2. CASE UNCHANGED <<phase, ourPosition, disputeVars, acquired, sent>>
    BY <2>2, UnchangedSent DEF ourPosition
  <2>3. CASE \E S \in TxSets, ct \in CloseTimes : closeLedger(S, ct)
    BY <2>1, <2>3, CloseLedgerSent, Zenon
  <2> QED
    BY <1>1, <2>2, <2>3, ZenonT(30) DEF phaseOpen
<1>2. CASE phaseEstablish
  <2>1. haveResult /\ UNCHANGED haveResult
    BY <1>2 DEF phaseEstablish, RoundInv, PhaseMatchesResult
  <2>2. \/ UNCHANGED <<position, sent>>
        \/ \E S, ct, curr, fresh : ChangePosition(S, ct, curr, fresh)
    BY <1>2, ZenonT(30) DEF phaseEstablish, UpdateAndCheck, updateOurPositions
  <2> QED
    BY <2>1, <2>2, UnchangedSent, ChangePositionSent, ZenonT(30)
<1>3. CASE UNCHANGED <<round, ourPosition, disputeVars, peerVars, sent>>
  BY <1>3, UnchangedSent DEF ourPosition
<1> QED
  BY <1>1, <1>2, <1>3, Zenon DEF dispatchPhase

LEMMA TimerBodySent ==
  ASSUME TypeOK, RoundInv, SentInv, NEW netLgr \in Ledger, timerBody(netLgr)
  PROVE  SentInv'
<1>1. CASE dispatchPhase
  BY <1>1, DispatchSent, ZenonT(30)
<1>2. CASE WaitForLedger(netLgr)
  BY <1>2, LeaveConsensusSent, ZenonT(30) DEF WaitForLedger
<1>3. CASE LedgerAcquired
  BY <1>3, StartRoundInternalSent, ZenonT(30) DEF LedgerAcquired
<1>4. CASE leaveConsensus /\ LedgerMissing
  BY <1>4, LeaveConsensusSent DEF LedgerMissing
<1> QED
  BY <1>1, <1>2, <1>3, <1>4 DEF timerBody

LEMMA NextSent == TypeOK /\ RoundInv /\ SentInv /\ [Next]_vars => SentInv'
<1> SUFFICES ASSUME TypeOK, RoundInv, SentInv, [Next]_vars PROVE SentInv'
  OBVIOUS
<1> USE DEF ourPosition
<1>1. CASE StartRound
  <2> USE StartRoundInternalSent
  <2> QED
    BY <1>1, Zenon DEF StartRound, startRound
<1>2. CASE PeerProposal
  BY <1>2, UnchangedSent, ZenonT(30) DEF PeerProposal, peerProposal
<1>3. CASE GotTxSet
  BY <1>3, UnchangedSent, ZenonT(30) DEF GotTxSet, gotTxSet
<1>4. CASE Timer
  BY <1>4, TimerBodySent DEF Timer, timerEntry
<1>5. CASE ResumeTimer
  BY <1>5, DispatchSent, Zenon DEF ResumeTimer
<1>6. CASE Playback
  BY <1>6, UnchangedSent, ZenonT(30)
     DEF Playback, PlaybackPeer, PlaybackProposal
<1>7. CASE FinishStart
  BY <1>7, UnchangedSent, TimerBodySent, ZenonT(30) DEF FinishStart
<1>8. CASE FinishWrongLedger
  <2>1. CASE UNCHANGED <<haveResult, position, sent>>
    BY <2>1, UnchangedSent, Zenon
  <2>2. CASE LedgerAcquired
    BY <2>2, StartRoundInternalSent, ZenonT(30) DEF LedgerAcquired
  <2> QED
    BY <1>8, <2>1, <2>2, Zenon DEF FinishWrongLedger, LedgerMissing
<1>9. CASE Simulate
  <2>1. ~haveResult
    BY <1>9, Zenon DEF Simulate, simulate, RoundInv, PhaseMatchesResult
  <2> QED
    BY <1>9, <2>1, CloseLedgerSent, ZenonT(30) DEF Simulate, simulate
<1>10. CASE UNCHANGED vars
  BY <1>10, UnchangedSent DEF vars
<1> QED
  BY <1>1, <1>2, <1>3, <1>4, <1>5, <1>6, <1>7, <1>8, <1>9, <1>10, ZenonT(30)
     DEF Next

\* The proposals this node broadcasts in a round are numbered upwards and
\* end with a bow-out, so no peer drops one of them as out of date.
THEOREM OwnProposalsInOrder == Spec => []OwnProposalsAdvance
<1>1. Init => SentInv
  BY DEF Init, SentInv, OwnProposalsAdvance
<1>2. Init => TypeOK /\ RoundInv
  BY InitTypeOK, InitRound
<1>3. TypeOK /\ RoundInv /\ [Next]_vars => (TypeOK /\ RoundInv)'
  BY NextTypeOK, NextRound
<1>4. SentInv => OwnProposalsAdvance
  BY Zenon DEF SentInv
<1> QED
  BY <1>1, <1>2, <1>3, <1>4, NextSent, PTL DEF Spec

-----------------------------------------------------------------------------
(* One disputed transaction *)

\* The inductive invariant: the types, with the counters tied to the map.
VotesInv ==
  /\ votes_ \in [Peer -> {"yes", "no", "none"}]
  /\ ourVote_ \in BOOLEAN
  /\ CountersMatchVotes

\* Every set of voters is finite, so its cardinality is a natural number.
LEMMA VotersFinite ==
  \A ballot : IsFiniteSet(Voters(ballot)) /\ Cardinality(Voters(ballot)) \in Nat
  BY DisputedTxAssumption, FS_Subset, FS_CardinalityType, Zenon DEF Voters

\* updateVote always returns a vote.
LEMMA VoteRuleType ==
  ASSUME NEW y \in Nat, NEW n \in Nat, NEW v \in BOOLEAN, NEW pt \in Nat,
         NEW pr \in BOOLEAN
  PROVE  updateVote(y, n, v, pt, pr) \in BOOLEAN
<1>1. (Weight(y, n, v) > NeededWeight(pt)) \in BOOLEAN
  <2>1. y * 100 + (IF v THEN 100 ELSE 0) \in Nat /\ n + y + 1 \in Nat \ {0}
    OBVIOUS
  <2>2. Weight(y, n, v) \in Int
    BY <2>1 DEF Weight
  <2>3. NeededWeight(pt) \in Int
    BY DEF NeededWeight
  <2> QED
    BY <2>2, <2>3
<1>2. (y > n) \in BOOLEAN
  OBVIOUS
<1> QED
  BY <1>1, <1>2, Zenon DEF updateVote

\* How setVote and unVote move one peer between the two groups of voters.
LEMMA VotersMove ==
  ASSUME votes_ \in [Peer -> {"yes", "no", "none"}],
         NEW p \in Peer, NEW b \in {"yes", "no", "none"},
         votes_' = [votes_ EXCEPT ![p] = b],
         NEW c \in {"yes", "no"}
  PROVE  /\ b = c /\ votes_[p] # c =>
              Cardinality(Voters(c)') = Cardinality(Voters(c)) + 1
         /\ b # c /\ votes_[p] = c =>
              Cardinality(Voters(c)') = Cardinality(Voters(c)) - 1
         /\ (b = c <=> votes_[p] = c) =>
              Cardinality(Voters(c)') = Cardinality(Voters(c))
<1>1. ASSUME b = c, votes_[p] # c
      PROVE  Cardinality(Voters(c)') = Cardinality(Voters(c)) + 1
  <2>1. Voters(c)' = Voters(c) \cup {p} /\ p \notin Voters(c)
    BY <1>1 DEF Voters
  <2> QED
    BY <2>1, VotersFinite, FS_AddElement, Zenon
<1>2. ASSUME b # c, votes_[p] = c
      PROVE  Cardinality(Voters(c)') = Cardinality(Voters(c)) - 1
  <2>1. Voters(c)' = Voters(c) \ {p} /\ p \in Voters(c)
    BY <1>2 DEF Voters
  <2> QED
    BY <2>1, VotersFinite, FS_RemoveElement, ZenonT(30)
<1>3. ASSUME b = c <=> votes_[p] = c
      PROVE  Cardinality(Voters(c)') = Cardinality(Voters(c))
  <2>1. Voters(c)' = Voters(c)
    BY <1>3, Zenon DEF Voters
  <2> QED
    BY <2>1, Zenon
<1> QED
  BY <1>1, <1>2, <1>3, Zenon

LEMMA InitVotesInv == DisputeInit => VotesInv
<1> SUFFICES ASSUME DisputeInit PROVE VotesInv
  OBVIOUS
<1>1. Voters("yes") = {} /\ Voters("no") = {}
  BY DEF DisputeInit, Voters
<1>2. Cardinality({}) = 0
  BY FS_EmptySet, Zenon
<1> QED
  BY <1>1, <1>2 DEF DisputeInit, VotesInv, CountersMatchVotes

LEMMA NextVotesInv == VotesInv /\ [DisputeNext]_voteVars => VotesInv'
<1> SUFFICES ASSUME VotesInv, [DisputeNext]_voteVars PROVE VotesInv'
  BY Zenon
<1> USE DEF VotesInv
<1>t. yays_ \in Nat /\ nays_ \in Nat
  BY VotersFinite, Zenon DEF CountersMatchVotes
<1>1. ASSUME NEW p \in Peer, NEW v \in BOOLEAN, setVote(p, v) PROVE VotesInv'
  <2> USE <1>1
  <2>1. votes_' \in [Peer -> {"yes", "no", "none"}] /\ ourVote_' \in BOOLEAN
    BY Zenon DEF setVote, Ballot
  <2>2. votes_' = [votes_ EXCEPT ![p] = Ballot(v)] /\ Ballot(v) \in {"yes", "no"}
    BY DEF setVote, Ballot
  <2>3. Cardinality(Voters("yes")) \in Nat /\ Cardinality(Voters("no")) \in Nat
    BY VotersFinite, Zenon
  <2>4. CountersMatchVotes'
    <3>1. CASE v
      <4>1. Ballot(v) = "yes"
        BY <3>1 DEF Ballot
      <4> QED
        BY <4>1, <2>2, <2>3, <3>1, VotersMove, ZenonT(30)
           DEF setVote, CountersMatchVotes
    <3>2. CASE ~v
      <4>1. Ballot(v) = "no"
        BY <3>2, Zenon DEF Ballot
      <4> QED
        BY <4>1, <2>2, <2>3, <3>2, VotersMove, Zenon
           DEF setVote, CountersMatchVotes
    <3> QED
      BY <3>1, <3>2, Zenon
  <2> QED
    BY <2>1, <2>4, Zenon
<1>2. ASSUME NEW p \in Peer, unVote(p) PROVE VotesInv'
  <2> USE <1>2
  <2>1. votes_' \in [Peer -> {"yes", "no", "none"}] /\ ourVote_' \in BOOLEAN
    BY Zenon DEF unVote
  <2>2. votes_' = [votes_ EXCEPT ![p] = "none"] /\ votes_[p] \in {"yes", "no"}
    BY DEF unVote
  <2>3. CountersMatchVotes'
    BY <2>2, VotersFinite, VotersMove, Zenon DEF unVote, CountersMatchVotes
  <2> QED
    BY <2>1, <2>3, Zenon
<1>3. ASSUME NEW pt \in Percents, NEW pr \in BOOLEAN, UpdateVote(pt, pr)
      PROVE  VotesInv'
  <2>1. pt \in Nat
    BY DisputedTxAssumption, Zenon
  <2>2. ourVote_' \in BOOLEAN
    BY <1>3, <1>t, <2>1, VoteRuleType, Zenon DEF UpdateVote
  <2>3. Voters("yes")' = Voters("yes") /\ Voters("no")' = Voters("no")
    BY <1>3, Zenon DEF UpdateVote, Voters
  <2> QED
    BY <1>3, <2>2, <2>3, Zenon DEF UpdateVote, CountersMatchVotes
<1>4. CASE UNCHANGED voteVars
  BY <1>4 DEF voteVars, CountersMatchVotes, Voters
<1> QED
  BY <1>1, <1>2, <1>3, <1>4, Zenon DEF DisputeNext

\* yays_ and nays_ equal the number of yes and no entries of votes_ in every
\* reachable state: setVote and unVote account for every change of the map.
THEOREM CountersCorrect == DisputeSpec => []CountersMatchVotes
<1>1. VotesInv => CountersMatchVotes
  BY DEF VotesInv
<1> QED
  BY InitVotesInv, NextVotesInv, <1>1, PTL DEF DisputeSpec

\* The counters are natural numbers: no sequence of votes and withdrawals
\* takes one below zero.
THEOREM VotesTypeCorrect == DisputeSpec => []DisputeTypeOK
<1>1. VotesInv => DisputeTypeOK
  BY VotersFinite DEF VotesInv, DisputeTypeOK, CountersMatchVotes
<1> QED
  BY InitVotesInv, NextVotesInv, <1>1, PTL DEF DisputeSpec

\* Our vote changes only in updateVote, and only to a side on which some peer
\* is recorded: the early returns read counters that cannot be wrong.
THEOREM VoteHasSupport == DisputeSpec => VoteFollowsSomePeer
<1>1. VotesInv /\ [DisputeNext]_voteVars =>
        [ourVote_' # ourVote_ => Voters(Ballot(ourVote_')) # {}]_voteVars
  <2> SUFFICES ASSUME VotesInv, DisputeNext, ourVote_' # ourVote_
               PROVE  Voters(Ballot(ourVote_')) # {}
    BY Zenon DEF voteVars
  <2>1. PICK pt \in Percents, pr \in BOOLEAN : UpdateVote(pt, pr)
    BY DEF DisputeNext, setVote, unVote
  <2>2. ourVote_' = updateVote(yays_, nays_, ourVote_, pt, pr)
    BY <2>1, Zenon DEF UpdateVote
  <2>3. Cardinality({}) = 0
    BY FS_EmptySet, Zenon
  <2>4. CASE ourVote_
    <3>1. nays_ # 0 /\ Ballot(ourVote_') = "no"
      <4>1. nays_ # 0
        BY <2>2, <2>4, Zenon DEF updateVote
      <4>2. ourVote_' = FALSE
        BY <2>1, <2>4, NextVotesInv, Zenon DEF VotesInv
      <4> QED
        BY <4>1, <4>2 DEF Ballot
    <3> QED
      BY <3>1, <2>3, Zenon DEF VotesInv, CountersMatchVotes
  <2>5. CASE ~ourVote_
    <3>1. yays_ # 0 /\ Ballot(ourVote_') = "yes"
      <4>1. ourVote_' = TRUE
        BY <2>1, <2>5, NextVotesInv, Zenon DEF VotesInv
      <4>2. yays_ # 0
        BY <2>2, <2>5, <4>1, Zenon DEF updateVote
      <4> QED
        BY <4>1, <4>2, Zenon DEF Ballot
    <3> QED
      BY <3>1, <2>3, Zenon DEF VotesInv, CountersMatchVotes
  <2> QED
    BY <2>4, <2>5, Zenon
<1> QED
  BY InitVotesInv, NextVotesInv, <1>1, PTL DEF DisputeSpec, VoteFollowsSomePeer

-----------------------------------------------------------------------------
(* The voting rule and the thresholds *)

\* Integer division against a bound: nothing is lost by rounding down.
LEMMA DivAtLeast ==
  ASSUME NEW x \in Nat, NEW n \in Nat \ {0}, NEW k \in Nat
  PROVE  /\ x \div n \in Nat
         /\ x \div n >= k <=> x >= k * n
  OBVIOUS

\* Our own yes adds to the weight.
LEMMA WeightGrows ==
  ASSUME NEW y \in Nat, NEW n \in Nat
  PROVE  /\ Weight(y, n, TRUE) \in Nat /\ Weight(y, n, FALSE) \in Nat
         /\ Weight(y, n, FALSE) <= Weight(y, n, TRUE)
<1>1. n + y + 1 \in Nat \ {0} /\ y * 100 \in Nat /\ y * 100 + 100 \in Nat
  OBVIOUS
<1>2. ASSUME NEW a \in Nat, NEW b \in Nat, a <= b, NEW d \in Nat \ {0}
      PROVE  a \div d \in Nat /\ b \div d \in Nat /\ a \div d <= b \div d
  BY <1>2
<1>3. /\ Weight(y, n, TRUE) = (y * 100 + 100) \div (n + y + 1)
      /\ Weight(y, n, FALSE) = (y * 100) \div (n + y + 1)
  BY DEF Weight
<1>4. /\ (y * 100) \div (n + y + 1) \in Nat
      /\ (y * 100 + 100) \div (n + y + 1) \in Nat
      /\ (y * 100) \div (n + y + 1) <= (y * 100 + 100) \div (n + y + 1)
  <2>1. y * 100 <= y * 100 + 100
    OBVIOUS
  <2> QED
    BY <1>1, <1>2, <2>1, ZenonT(30)
<1> QED
  BY <1>3, <1>4, Zenon

\* The needed weight rises as the round goes on.
LEMMA NeededWeightGrows ==
  ASSUME NEW p \in Nat, NEW q \in Nat, p <= q
  PROVE  /\ NeededWeight(p) \in Nat /\ NeededWeight(q) \in Nat
         /\ NeededWeight(p) <= NeededWeight(q)
  BY DEF NeededWeight

\* Our vote with the peers' votes unchanged: computed again it stays the same,
\* and later in the round a no stays a no.
LEMMA UpdateVoteSettles ==
  ASSUME NEW y \in Nat, NEW n \in Nat, NEW v \in BOOLEAN,
         NEW p \in Nat, NEW pr \in BOOLEAN,
         NEW w, w = updateVote(y, n, v, p, pr)
  PROVE  /\ updateVote(y, n, w, p, pr) = w
         /\ \A q \in Nat : q >= p /\ ~w => ~updateVote(y, n, w, q, pr)
<1> DEFINE high(u, q) == Weight(y, n, u) > NeededWeight(q)
<1>0. w \in BOOLEAN /\ \A u \in BOOLEAN : updateVote(y, n, u, p, pr) \in BOOLEAN
  BY VoteRuleType
<1>1. ASSUME NEW q \in Nat
      PROVE  high(FALSE, q) => high(TRUE, q)
  <2>1. q <= q
    OBVIOUS
  <2>2. NeededWeight(q) \in Nat
    BY <2>1, NeededWeightGrows, Zenon
  <2>3. /\ Weight(y, n, TRUE) \in Nat /\ Weight(y, n, FALSE) \in Nat
        /\ Weight(y, n, FALSE) <= Weight(y, n, TRUE)
    BY WeightGrows, Zenon
  <2>4. \A a, b, c \in Nat : a <= b /\ a > c => b > c
    OBVIOUS
  <2> QED
    BY <2>2, <2>3, <2>4, ZenonT(30)
<1>2. ASSUME NEW q \in Nat
      PROVE  q >= p /\ high(FALSE, q) => high(FALSE, p)
  <2> SUFFICES ASSUME p <= q
               PROVE  high(FALSE, q) => high(FALSE, p)
    BY Zenon
  <2>1. /\ NeededWeight(p) \in Nat /\ NeededWeight(q) \in Nat
        /\ NeededWeight(p) <= NeededWeight(q)
    BY NeededWeightGrows, Zenon
  <2>2. Weight(y, n, FALSE) \in Nat
    BY WeightGrows, Zenon
  <2>3. \A a, b, c \in Nat : b <= c /\ a > c => a > b
    OBVIOUS
  <2> QED
    BY <2>1, <2>2, <2>3, Zenon
<1> HIDE DEF high
<1>3. ASSUME NEW u \in BOOLEAN, NEW q \in Nat
      PROVE  /\ u /\ n = 0 => updateVote(y, n, u, q, pr) = TRUE
             /\ ~u /\ y = 0 => updateVote(y, n, u, q, pr) = FALSE
             /\ ~(u /\ n = 0) /\ ~(~u /\ y = 0) /\ pr
                  => updateVote(y, n, u, q, pr) = high(u, q)
             /\ ~(u /\ n = 0) /\ ~(~u /\ y = 0) /\ ~pr
                  => updateVote(y, n, u, q, pr) = (y > n)
  BY Zenon DEF updateVote, high
<1>4. \A u, q : high(u, q) \in BOOLEAN
  BY DEF high
<1>5. updateVote(y, n, w, p, pr) = w
  <2>1. CASE w = TRUE
    <3>1. CASE n = 0
      BY <1>3, <2>1, <3>1, Zenon
    <3>2. CASE n # 0 /\ pr
      <4>1. v \/ y # 0
        BY <1>3, <2>1, Zenon
      <4>2. high(v, p)
        BY <1>3, <2>1, <3>2, <4>1, ZenonT(30)
      <4>3. high(TRUE, p)
        BY <1>1, <4>2, Zenon
      <4> QED
        BY <1>3, <1>4, <2>1, <3>2, <4>3, Zenon
    <3>3. CASE n # 0 /\ ~pr
      <4>1. v \/ y # 0
        BY <1>3, <2>1, Zenon
      <4>2. (y > n) = TRUE
        BY <1>3, <2>1, <3>3, <4>1, Zenon
      <4> QED
        BY <1>3, <2>1, <3>3, <4>2, ZenonT(30)
    <3> QED
      BY <3>1, <3>2, <3>3, Zenon
  <2>2. CASE w = FALSE
    <3>1. CASE y = 0
      BY <1>3, <2>2, <3>1, Zenon
    <3>2. CASE y # 0 /\ pr
      <4>1. ~ v \/ n # 0
        BY <1>3, <2>2, Zenon
      <4>2. ~ high(v, p)
        BY <1>3, <2>2, <3>2, <4>1, Zenon
      <4>3. high(FALSE, p) = FALSE
        BY <1>1, <1>4, <4>2, Zenon
      <4> QED
        BY <1>3, <2>2, <3>2, <4>3, Zenon
    <3>3. CASE y # 0 /\ ~pr
      <4>1. ~ v \/ n # 0
        BY <1>3, <2>2, Zenon
      <4>2. (y > n) = FALSE
        BY <1>3, <2>2, <3>3, <4>1, Zenon
      <4> QED
        BY <1>3, <2>2, <3>3, <4>2, ZenonT(30)
    <3> QED
      BY <3>1, <3>2, <3>3, Zenon
  <2> QED
    BY <1>0, <2>1, <2>2, Zenon
<1>6. ASSUME NEW q \in Nat, q >= p, ~w
      PROVE  ~updateVote(y, n, w, q, pr)
  <2>1. w = FALSE
    BY <1>0, <1>6, Zenon
  <2>2. CASE y = 0
    BY <1>3, <2>1, <2>2, Zenon
  <2>3. CASE y # 0 /\ pr
    <3>1. high(FALSE, p) = FALSE
      BY <1>3, <1>5, <2>1, <2>3, Zenon
    <3>2. ~ high(FALSE, q)
      BY <1>2, <1>6, <3>1, Zenon
    <3> QED
      BY <1>3, <2>1, <2>3, <3>2, Zenon
  <2>4. CASE y # 0 /\ ~pr
    <3>1. (y > n) = FALSE
      BY <1>3, <1>5, <2>1, <2>4, ZenonT(30)
    <3> QED
      BY <1>3, <2>1, <2>4, <3>1, Zenon
  <2> QED
    BY <2>2, <2>3, <2>4, Zenon
<1> QED
  BY <1>5, <1>6, Zenon

\* Whatever votes peers cast, change and withdraw, our vote on the transaction
\* is a fixed point of updateVote at every point of the round, and later
\* points only turn it into a no.
THEOREM VotesSettle == DisputeSpec => []VoteSettles
<1>1. VotesInv => VoteSettles
  <2> SUFFICES ASSUME VotesInv, NEW percent \in Percents, NEW proposing \in BOOLEAN,
                      NEW v,
                      v = updateVote(yays_, nays_, ourVote_, percent, proposing)
               PROVE  /\ updateVote(yays_, nays_, v, percent, proposing) = v
                      /\ \A later \in Percents : later >= percent /\ ~v
                           => ~updateVote(yays_, nays_, v, later, proposing)
    BY Zenon DEF VoteSettles
  <2>1. yays_ \in Nat /\ nays_ \in Nat /\ ourVote_ \in BOOLEAN
    BY VotersFinite DEF VotesInv, CountersMatchVotes
  <2>2. \A q \in Percents : q \in Nat
    BY DisputedTxAssumption, Zenon
  <2>3. /\ updateVote(yays_, nays_, v, percent, proposing) = v
        /\ \A q \in Nat : q >= percent /\ ~v
             => ~updateVote(yays_, nays_, v, q, proposing)
    <3>1. percent \in Nat
      BY <2>2, Zenon
    <3> QED
      BY <2>1, <3>1, UpdateVoteSettles, SMTT(30)
  <2> QED
    BY <2>2, <2>3, Zenon
<1> QED
  BY InitVotesInv, NextVotesInv, <1>1, PTL DEF DisputeSpec

\* checkConsensusReached is the comparison with four fifths.
LEMMA AgreementIsExact ==
  ASSUME NEW a \in Nat, NEW b \in Nat, NEW pr \in BOOLEAN, a <= b
  PROVE  LET self == IF pr THEN 1 ELSE 0
         IN checkConsensusReached(a, b, pr)
              <=> (b = 0 \/ 5 * (a + self) >= 4 * (b + self))
<1>1. CASE b = 0
  BY <1>1 DEF checkConsensusReached
<1>2. CASE b # 0
  <2> DEFINE self == IF pr THEN 1 ELSE 0
  <2>1. self \in {0, 1}
    OBVIOUS
  <2>2. (a + self) * 100 \in Nat /\ b + self \in Nat \ {0}
    BY <1>2, <2>1, SMTT(30)
  <2>3. ((a + self) * 100) \div (b + self) >= 80
          <=> (a + self) * 100 >= 80 * (b + self)
    BY <2>2, DivAtLeast
  <2>4. checkConsensusReached(a, b, pr)
          <=> ((a + self) * 100) \div (b + self) >= 80
    BY <1>2, Zenon DEF checkConsensusReached, minCONSENSUS_PCT
  <2> HIDE DEF self
  <2>5. (a + self) * 100 >= 80 * (b + self) <=> 5 * (a + self) >= 4 * (b + self)
    BY <2>1
  <2> QED
    BY <1>2, <2>3, <2>4, <2>5, Zenon DEF self
<1> QED
  BY <1>1, <1>2, Zenon

\* participantsNeeded asks for more than half, of two for one.
LEMMA MajorityNeeded ==
  ASSUME NEW n \in Nat, n > 0
  PROVE  LET needed == participantsNeeded(n, avCT_CONSENSUS_PCT)
         IN needed <= n /\ (2 * needed > n \/ n = 2)
<1> DEFINE r == (n * 75 + 75 \div 2) \div 100
<1>1. 75 \div 2 = 37
  OBVIOUS
<1>2. r \in Nat /\ 100 * r <= n * 75 + 37 /\ n * 75 + 37 < 100 * r + 100
  BY <1>1
<1>3. participantsNeeded(n, avCT_CONSENSUS_PCT) = IF r = 0 THEN 1 ELSE r
  BY Zenon DEF participantsNeeded, avCT_CONSENSUS_PCT
<1> HIDE DEF r
<1> QED
  BY <1>2, <1>3

\* The integer arithmetic of checkConsensusReached loses nothing against the
\* rule it is for, and participantsNeeded asks for a majority (of two, one is
\* enough), for every number of peers, votes and undecided participants.
THEOREM ThresholdsAreExact == DisputeSpec => []ThresholdsExact
<1>1. VotesInv => ThresholdsExact
  <2> SUFFICES ASSUME VotesInv, NEW undecided \in 0..MaxUndecided,
                      NEW proposing \in BOOLEAN
               PROVE  LET self == IF proposing THEN 1 ELSE 0
                          peers == yays_ + nays_ + undecided
                          n == peers + self
                          needed == participantsNeeded(n, avCT_CONSENSUS_PCT)
                      IN /\ checkConsensusReached(yays_, peers, proposing)
                              <=> (peers = 0 \/ 5 * (yays_ + self) >= 4 * n)
                         /\ n > 0 => needed <= n /\ (2 * needed > n \/ n = 2)
    BY Zenon DEF ThresholdsExact
  <2> DEFINE self == IF proposing THEN 1 ELSE 0
             peers == yays_ + nays_ + undecided
             n == peers + self
  <2>1. yays_ \in Nat /\ nays_ \in Nat
    BY VotersFinite, Zenon DEF VotesInv, CountersMatchVotes
  <2>2. peers \in Nat /\ yays_ <= peers /\ n \in Nat
    BY <2>1, DisputedTxAssumption
  <2>3. checkConsensusReached(yays_, peers, proposing)
          <=> (peers = 0 \/ 5 * (yays_ + self) >= 4 * n)
    BY <2>1, <2>2, AgreementIsExact, Zenon
  <2>4. n > 0 => LET needed == participantsNeeded(n, avCT_CONSENSUS_PCT)
                 IN needed <= n /\ (2 * needed > n \/ n = 2)
    BY <2>2, MajorityNeeded, Zenon
  <2> QED
    BY <2>3, <2>4, Zenon
<1> QED
  BY InitVotesInv, NextVotesInv, <1>1, PTL DEF DisputeSpec

===============================================================================
