--------------------------- MODULE ConsensusDisputes ---------------------------
(***************************************************************************)
(* The dispute bookkeeping of the consensus engine is exact: what the      *)
(* disputes record follows from the peers' positions and the sets acquired *)
(* so far, in whatever order these arrive.  From it, what a round that has *)
(* ended agreed on: the set of transactions and the close time.            *)
(***************************************************************************)
EXTENDS ConsensusProofs

\* Without a position there are no disputes.
NoResultNoDisputes ==
  ~haveResult => disputes = {} /\ compares = {} /\ votes = NoVotes

\* A set that has been compared differs from ours on disputed transactions
\* only, however our set has changed since.
ComparedDifferencesDisputed ==
  \A S \in compares : SymDiff(txns, S) \subseteq disputes

\* Every acquired position has been compared.
AcquiredCompared ==
  haveResult =>
    \A p \in Proposers : currPeerPositions[p].pos \in acquired =>
                           currPeerPositions[p].pos \in compares

DisputeInv ==
  /\ NoResultNoDisputes
  /\ OwnPositionAcquired
  /\ OurVoteMatchesSet
  /\ ComparedDifferencesDisputed
  /\ AcquiredCompared
  /\ NoVoteWithoutPosition
  /\ DisputeVotesCurrent

LEMMA DisputeInvSuffices == DisputeInv => EveryDifferenceDisputed
  BY DEF DisputeInv, AcquiredCompared, ComparedDifferencesDisputed,
     EveryDifferenceDisputed

\* updateDisputes keeps the invariant when the peers in Ps hold S and every
\* other peer with an acquired position held that position, acquired, before.
LEMMA UpdateDisputesInv ==
  ASSUME TypeOK, TypeOK', DisputeInv, haveResult,
         NEW Ps \in SUBSET Peer, NEW S \in SUBSET Tx,
         updateDisputes(Ps, S, currPeerPositions', acquired'),
         acquired' = acquired \cup {S},
         \A p \in Ps : p \in Proposers' /\ currPeerPositions'[p].pos = S,
         Proposers \subseteq Proposers',
         \A p \in Proposers' \ Ps :
           currPeerPositions'[p].pos \in acquired' =>
             /\ p \in Proposers
             /\ currPeerPositions'[p] = currPeerPositions[p]
             /\ currPeerPositions[p].pos \in acquired,
         UNCHANGED ourPosition
  PROVE  DisputeInv'
<1> DEFINE new == IF S \in compares THEN {} ELSE SymDiff(txns, S) \ disputes
<1>0. /\ haveResult' = haveResult
      /\ txns' = txns
      /\ position' = position
  BY DEF ourPosition
<1>1. /\ compares' = compares \cup {S}
      /\ disputes' = disputes \cup new
      /\ ourVote' = [t \in Tx |-> IF t \in new THEN t \in txns ELSE ourVote[t]]
  BY DEF updateDisputes
<1>2. votes' = [t \in Tx |-> [p \in Peer |->
                 IF t \notin disputes \cup new THEN votes[t][p]
                 ELSE IF p \in Ps THEN Ballot(t \in S)
                 ELSE IF t \in new
                      THEN InitialVote(t, p, currPeerPositions', acquired')
                 ELSE votes[t][p]]]
  BY DEF updateDisputes
<1>3. new \in SUBSET Tx /\ disputes \in SUBSET Tx
  BY DEF TypeOK, PositionType, DisputeType, SymDiff
<1>4. SymDiff(txns, S) \subseteq disputes \cup new
  BY DEF DisputeInv, ComparedDifferencesDisputed
<1> HIDE DEF new
<1>5. NoResultNoDisputes' /\ OwnPositionAcquired'
  BY <1>0 DEF DisputeInv, NoResultNoDisputes, OwnPositionAcquired
<1>6. OurVoteMatchesSet'
  <2> SUFFICES ASSUME NEW t \in disputes' PROVE ourVote'[t] = (t \in txns')
    BY DEF OurVoteMatchesSet
  <2>1. CASE t \in new
    BY <1>0, <1>1, <1>3, <2>1, Zenon
  <2>2. CASE t \notin new
    <3>1. t \in disputes /\ t \in Tx /\ ourVote[t] = (t \in txns)
      BY <1>1, <1>3, <2>2, Zenon DEF DisputeInv, OurVoteMatchesSet
    <3>2. ourVote'[t] = ourVote[t]
      BY <1>1, <2>2, <3>1, Zenon
    <3> QED
      BY <1>0, <3>1, <3>2, Zenon
  <2> QED
    BY <2>1, <2>2
<1>7. ComparedDifferencesDisputed'
  BY <1>0, <1>1, <1>4, Zenon DEF DisputeInv, ComparedDifferencesDisputed, SymDiff
<1>8. AcquiredCompared'
  <2> SUFFICES ASSUME NEW p \in Proposers',
                      currPeerPositions'[p].pos \in acquired'
               PROVE  currPeerPositions'[p].pos \in compares'
    BY Zenon DEF AcquiredCompared
  <2>1. CASE p \in Ps
    BY <1>1, <2>1, Zenon
  <2>2. CASE p \notin Ps
    BY <1>1, <2>2, Zenon DEF DisputeInv, AcquiredCompared
  <2> QED
    BY <2>1, <2>2, Zenon
<1>9. NoVoteWithoutPosition'
  <2> SUFFICES ASSUME NEW t \in Tx, NEW p \in Peer, votes'[t][p] # "none"
               PROVE  p \in Proposers'
    BY DEF NoVoteWithoutPosition
  <2>1. CASE p \in Ps
    BY <2>1
  <2>2. CASE votes'[t][p] = votes[t][p]
    BY <2>2, Zenon DEF DisputeInv, NoVoteWithoutPosition
  <2>3. CASE votes'[t][p] = InitialVote(t, p, currPeerPositions', acquired')
    BY <2>3, Zenon DEF InitialVote, Proposers
  <2> QED
    BY <1>2, <2>1, <2>2, <2>3, Zenon
<1>10. DisputeVotesCurrent'
  <2> SUFFICES ASSUME NEW t \in disputes', NEW p \in Proposers',
                      currPeerPositions'[p].pos \in acquired'
               PROVE  votes'[t][p] = Ballot(t \in currPeerPositions'[p].pos)
    BY DEF DisputeVotesCurrent
  <2>1. t \in Tx /\ p \in Peer /\ t \in disputes \cup new
    BY <1>1, <1>3, Zenon DEF Proposers
  <2>2. CASE p \in Ps
    BY <1>2, <2>1, <2>2, Zenon
  <2>3. CASE p \notin Ps /\ t \in new
    <3>1. votes'[t][p] = InitialVote(t, p, currPeerPositions', acquired')
      BY <1>2, <2>1, <2>3, Zenon
    <3> QED
      BY <3>1, Zenon DEF InitialVote, Proposers
  <2>4. CASE p \notin Ps /\ t \notin new
    <3>1. votes'[t][p] = votes[t][p] /\ t \in disputes
      BY <1>2, <2>1, <2>4, Zenon
    <3>2. /\ p \in Proposers
          /\ currPeerPositions'[p] = currPeerPositions[p]
          /\ currPeerPositions[p].pos \in acquired
      BY <2>4, Zenon
    <3> QED
      BY <3>1, <3>2, Zenon DEF DisputeInv, DisputeVotesCurrent
  <2> QED
    BY <2>2, <2>3, <2>4, Zenon
<1> QED
  BY <1>5, <1>6, <1>7, <1>8, <1>9, <1>10, Zenon DEF DisputeInv

\* Nothing is disputed differently when the positions change only in sets
\* that are not acquired.
LEMMA UnchangedDisputesInv ==
  ASSUME DisputeInv, UNCHANGED <<ourPosition, disputeVars>>,
         acquired \subseteq acquired',
         Proposers \subseteq Proposers',
         haveResult => \A p \in Proposers' :
           currPeerPositions'[p].pos \in acquired' =>
             /\ p \in Proposers
             /\ currPeerPositions'[p] = currPeerPositions[p]
             /\ currPeerPositions[p].pos \in acquired
  PROVE  DisputeInv'
<1>1. UNCHANGED <<haveResult, txns, position, disputes, ourVote, votes, compares>>
  BY Zenon DEF ourPosition, disputeVars
<1>2. /\ NoResultNoDisputes'
      /\ OurVoteMatchesSet'
      /\ ComparedDifferencesDisputed'
  BY <1>1 DEF DisputeInv, NoResultNoDisputes, OurVoteMatchesSet,
     ComparedDifferencesDisputed, SymDiff
<1>3. OwnPositionAcquired'
  BY <1>1, Zenon DEF DisputeInv, OwnPositionAcquired
<1>4. NoVoteWithoutPosition'
  BY <1>1, Zenon DEF DisputeInv, NoVoteWithoutPosition
<1>5. CASE haveResult
  <2>1. AcquiredCompared'
    BY <1>1, <1>5, Zenon DEF DisputeInv, AcquiredCompared
  <2>2. DisputeVotesCurrent'
    BY <1>1, <1>5, ZenonT(30) DEF DisputeInv, DisputeVotesCurrent
  <2> QED
    BY <1>2, <1>3, <1>4, <2>1, <2>2, Zenon DEF DisputeInv
<1>6. CASE ~haveResult
  <2>1. AcquiredCompared' /\ DisputeVotesCurrent'
    BY <1>1, <1>6, Zenon DEF DisputeInv, NoResultNoDisputes, AcquiredCompared,
       DisputeVotesCurrent
  <2> QED
    BY <1>2, <1>3, <1>4, <2>1, Zenon DEF DisputeInv
<1> QED
  BY <1>5, <1>6, Zenon

\* A set arrives, perhaps with the one new position that names it.
LEMMA NewTxSetInv ==
  ASSUME TypeOK, TypeOK', DisputeInv, NEW S \in SUBSET Tx, S \notin acquired,
         NewTxSet(S, currPeerPositions'),
         Proposers \subseteq Proposers',
         \A p \in Proposers' : currPeerPositions'[p].pos # S =>
           p \in Proposers /\ currPeerPositions'[p] = currPeerPositions[p],
         UNCHANGED ourPosition
  PROVE  DisputeInv'
<1>1. PICK Ps : Ps = PeersAt(S, currPeerPositions')
  OBVIOUS
<1>2. acquired' = acquired \cup {S}
  BY DEF NewTxSet
<1>3. Ps \in SUBSET Peer
      /\ \A p \in Ps : p \in Proposers' /\ currPeerPositions'[p].pos = S
  BY <1>1 DEF PeersAt, Proposers
<1>4. \A p \in Proposers' : p \notin Ps => currPeerPositions'[p].pos # S
  BY <1>1 DEF PeersAt, Proposers
<1>5. \A x : x \in acquired' /\ x # S => x \in acquired
  BY <1>2
<1>6. \A p \in Proposers' \ Ps :
        currPeerPositions'[p].pos \in acquired' =>
          /\ p \in Proposers
          /\ currPeerPositions'[p] = currPeerPositions[p]
          /\ currPeerPositions[p].pos \in acquired
  <2> SUFFICES ASSUME NEW p \in Proposers' \ Ps,
                      currPeerPositions'[p].pos \in acquired'
               PROVE  /\ p \in Proposers
                      /\ currPeerPositions'[p] = currPeerPositions[p]
                      /\ currPeerPositions[p].pos \in acquired
    OBVIOUS
  <2>1. currPeerPositions'[p].pos # S
    BY <1>4
  <2>2. p \in Proposers /\ currPeerPositions'[p] = currPeerPositions[p]
    BY <2>1, Zenon
  <2>3. currPeerPositions'[p].pos \in acquired
    BY <1>5, <2>1, Zenon
  <2> QED
    BY <2>2, <2>3, Zenon
<1>7. CASE haveResult /\ Ps # {}
  <2>1. updateDisputes(Ps, S, currPeerPositions', acquired')
    BY <1>1, <1>7, Zenon DEF NewTxSet
  <2> QED
    BY <1>2, <1>3, <1>7, <1>6, <2>1, UpdateDisputesInv, Zenon
<1>8. CASE ~(haveResult /\ Ps # {})
  <2>1. UNCHANGED disputeVars
    BY <1>1, <1>8, Zenon DEF NewTxSet
  <2>2. haveResult => \A p \in Proposers' : p \notin Ps
    BY <1>8, Zenon
  <2>3. haveResult => \A p \in Proposers' :
          currPeerPositions'[p].pos \in acquired' =>
            /\ p \in Proposers
            /\ currPeerPositions'[p] = currPeerPositions[p]
            /\ currPeerPositions[p].pos \in acquired
    BY <1>6, <2>2, Zenon
  <2>4. acquired \subseteq acquired'
    BY <1>2, Zenon
  <2> QED
    BY <2>1, <2>3, <2>4, UnchangedDisputesInv, Zenon
<1> QED
  BY <1>7, <1>8, Zenon

LEMMA PeerTakesPositionInv ==
  ASSUME TypeOK, TypeOK', DisputeInv, NEW prop \in Proposal,
         PeerTakesPosition(prop), UNCHANGED ourPosition
  PROVE  DisputeInv'
<1> DEFINE curr == [currPeerPositions EXCEPT ![prop.node] = prop]
<1>1. currPeerPositions' = curr
  BY Zenon DEF PeerTakesPosition
<1>2. prop.node \in Peer /\ prop.pos \in SUBSET Tx /\ prop # NoProposal
  BY ProposalFields, ProposalIsSome, Zenon
<1>3. /\ currPeerPositions'[prop.node] = prop
      /\ \A p \in Peer : p # prop.node =>
           currPeerPositions'[p] = currPeerPositions[p]
  BY <1>1, <1>2, ZenonT(30) DEF TypeOK, PeerType
<1>4. /\ prop.node \in Proposers'
      /\ Proposers \subseteq Proposers'
      /\ \A p \in Proposers' : p # prop.node => p \in Proposers
      /\ Proposers' \subseteq Peer
  BY <1>2, <1>3, Zenon DEF Proposers
<1> HIDE DEF curr
<1>5. CASE prop.pos \in acquired /\ UNCHANGED acquired
           /\ (IF haveResult
               THEN updateDisputes({prop.node}, prop.pos, curr, acquired)
               ELSE UNCHANGED disputeVars)
  <2>1. CASE haveResult
    <3>1. updateDisputes({prop.node}, prop.pos, currPeerPositions', acquired')
      BY <1>1, <1>5, <2>1, Zenon
    <3>2. acquired' = acquired \cup {prop.pos}
      BY <1>5, Zenon
    <3> QED
      BY <1>2, <1>3, <1>4, <1>5, <2>1, <3>1, <3>2, UpdateDisputesInv
  <2>2. CASE ~haveResult
    BY <1>4, <1>5, <2>2, UnchangedDisputesInv, Zenon
  <2> QED
    BY <2>1, <2>2, Zenon
<1>6. CASE prop.pos \notin acquired /\ NewTxSet(prop.pos, curr)
  BY <1>1, <1>2, <1>3, <1>4, <1>6, NewTxSetInv, Zenon
<1>7. CASE prop.pos \notin acquired /\ UNCHANGED <<acquired, disputeVars>>
  BY <1>3, <1>4, <1>7, UnchangedDisputesInv, Zenon
<1> QED
  BY <1>5, <1>6, <1>7, Zenon DEF PeerTakesPosition, curr

LEMMA PeerBowsOutInv ==
  ASSUME TypeOK, DisputeInv, NEW peer \in Peer, PeerBowsOut(peer),
         UNCHANGED ourPosition
  PROVE  DisputeInv'
<1>1. UNCHANGED <<haveResult, txns, position, disputes, ourVote, compares,
                  acquired>>
  BY DEF PeerBowsOut, ourPosition
<1>2. /\ \A p \in Proposers' : /\ p \in Proposers
                               /\ p \in Peer \ {peer}
                               /\ currPeerPositions'[p] = currPeerPositions[p]
      /\ \A p \in Proposers : p # peer => p \in Proposers'
  BY DEF PeerBowsOut, Proposers, TypeOK, PeerType
<1>3. NoResultNoDisputes' /\ OwnPositionAcquired' /\ OurVoteMatchesSet'
      /\ ComparedDifferencesDisputed'
  BY <1>1, Zenon DEF PeerBowsOut, DisputeInv, NoResultNoDisputes, OwnPositionAcquired,
     OurVoteMatchesSet, ComparedDifferencesDisputed, SymDiff
<1>4. AcquiredCompared'
  BY <1>1, <1>2, Zenon DEF DisputeInv, AcquiredCompared
<1>5. \A t \in Tx : \A p \in Peer :
        votes'[t][p] = IF p = peer THEN "none" ELSE votes[t][p]
  <2>1. CASE haveResult
    BY <2>1, Zenon DEF PeerBowsOut, TypeOK, DisputeType
  <2>2. CASE ~haveResult
    BY <2>2, ZenonT(30) DEF PeerBowsOut, DisputeInv, NoResultNoDisputes, NoVotes
  <2> QED
    BY <2>1, <2>2, Zenon
<1>6. NoVoteWithoutPosition'
  BY <1>2, <1>5, Zenon DEF DisputeInv, NoVoteWithoutPosition
<1>7. DisputeVotesCurrent'
  <2> SUFFICES ASSUME NEW t \in disputes', NEW p \in Proposers',
                      currPeerPositions'[p].pos \in acquired'
               PROVE  votes'[t][p] = Ballot(t \in currPeerPositions'[p].pos)
    BY Zenon DEF DisputeVotesCurrent
  <2>1. t \in disputes /\ t \in Tx /\ p \in Peer /\ p # peer /\ p \in Proposers
    BY <1>1, <1>2, Zenon DEF TypeOK, DisputeType
  <2>2. votes'[t][p] = votes[t][p]
    BY <1>5, <2>1, Zenon
  <2>3. votes[t][p] = Ballot(t \in currPeerPositions[p].pos)
    BY <1>1, <1>2, <2>1, Zenon DEF DisputeInv, DisputeVotesCurrent
  <2> QED
    BY <1>2, <2>2, <2>3, Zenon
<1> QED
  BY <1>3, <1>4, <1>6, <1>7, Zenon DEF DisputeInv

LEMMA PeerProposalInternalInv ==
  ASSUME TypeOK, TypeOK', DisputeInv, NEW prop \in Proposal,
         peerProposalInternal(prop), UNCHANGED ourPosition
  PROVE  DisputeInv'
<1>1. CASE UNCHANGED <<peerVars, disputeVars>>
  <2>1. UNCHANGED <<currPeerPositions, acquired, disputeVars, Proposers>>
    BY <1>1, Zenon DEF peerVars, Proposers
  <2> QED
    BY <2>1, UnchangedDisputesInv, Zenon
<1>2. CASE PeerBowsOut(prop.node)
  BY <1>2, PeerBowsOutInv, ProposalFields, Zenon
<1>3. CASE PeerTakesPosition(prop)
  BY <1>3, PeerTakesPositionInv, Zenon
<1> QED
  BY <1>1, <1>2, <1>3, Zenon DEF peerProposalInternal

LEMMA CloseLedgerInv ==
  ASSUME TypeOK, NEW S \in TxSets, NEW ct \in CloseTimes, closeLedger(S, ct),
         UNCHANGED currPeerPositions
  PROVE  DisputeInv'
<1> DEFINE theirs == {currPeerPositions[p].pos : p \in Proposers} \cap acquired'
           differ == UNION {SymDiff(S, T) : T \in theirs}
<1>1. /\ haveResult' = TRUE
      /\ txns' = S
      /\ position'.pos = S
      /\ S \in acquired'
      /\ compares' = theirs
      /\ disputes' = differ
      /\ ourVote' = [t \in Tx |-> t \in differ /\ t \in S]
      /\ votes' = [t \in Tx |-> [p \in Peer |->
                     IF t \in differ
                     THEN InitialVote(t, p, currPeerPositions, acquired')
                     ELSE "none"]]
  BY DEF closeLedger, AcquireOwn
<1>2. Proposers' = Proposers /\ Proposers \subseteq Peer
  BY DEF Proposers
<1>3. \A T \in theirs : SymDiff(S, T) \subseteq differ
  OBVIOUS
<1>4. \A p \in Proposers : currPeerPositions[p].pos \in acquired' =>
                             currPeerPositions[p].pos \in theirs
  OBVIOUS
<1>5. differ \subseteq Tx
  <2>1. acquired' \subseteq SUBSET Tx
    BY ConsensusAssumption DEF closeLedger, AcquireOwn, TypeOK, PeerType
  <2>2. theirs \subseteq SUBSET Tx
    BY <2>1, ZenonT(30)
  <2> QED
    BY <2>2, ConsensusAssumption, SMTT(30) DEF SymDiff
<1> HIDE DEF theirs, differ
<1>6. NoResultNoDisputes' /\ OwnPositionAcquired'
  BY <1>1, Zenon DEF NoResultNoDisputes, OwnPositionAcquired
<1>7. OurVoteMatchesSet'
  BY <1>1, <1>5 DEF OurVoteMatchesSet
<1>8. ComparedDifferencesDisputed'
  BY <1>1, <1>3, Zenon DEF ComparedDifferencesDisputed, SymDiff
<1>9. AcquiredCompared'
  BY <1>1, <1>2, <1>4, ZenonT(30) DEF AcquiredCompared
<1>10. NoVoteWithoutPosition'
  BY <1>1, Zenon DEF NoVoteWithoutPosition, InitialVote, Proposers
<1>11. DisputeVotesCurrent'
  <2> SUFFICES ASSUME NEW t \in disputes', NEW p \in Proposers',
                      currPeerPositions'[p].pos \in acquired'
               PROVE  votes'[t][p] = Ballot(t \in currPeerPositions'[p].pos)
    BY Zenon DEF DisputeVotesCurrent
  <2>1. t \in differ /\ t \in Tx /\ p \in Peer
    BY <1>1, <1>2, <1>5, Zenon
  <2>2. votes'[t][p] = InitialVote(t, p, currPeerPositions, acquired')
    BY <1>1, <2>1, Zenon
  <2> QED
    BY <2>2, Zenon DEF InitialVote, Proposers
<1> QED
  BY <1>6, <1>7, <1>8, <1>9, <1>10, <1>11, ZenonT(30) DEF DisputeInv

\* The set we move to: the transactions whose vote flipped change sides.
LEMMA NewSet ==
  ASSUME NEW T, NEW flipped, NEW new,
         NEW S, S = {t \in T \cup flipped : t \in flipped => new[t]}
  PROVE  /\ \A t \in flipped : t \in S <=> new[t]
         /\ \A t : t \notin flipped => (t \in S <=> t \in T)
  BY Zenon

LEMMA UpdateOurPositionsInv ==
  ASSUME TypeOK, TypeOK', DisputeInv, haveResult, UNCHANGED haveResult,
         NEW percent, NEW stale, NEW ourStale, NEW curr, NEW ctResult,
         curr = [p \in Peer |-> IF p \in stale THEN NoProposal
                                               ELSE currPeerPositions[p]],
         updateOurPositions(percent, stale, ourStale, curr, ctResult)
  PROVE  DisputeInv'
<1>1. PICK fresh : fresh = FreshVotes(stale)
  OBVIOUS
<1>2. PICK new : new = NewVotes(fresh, percent)
  OBVIOUS
<1>3. PICK flipped : flipped = {t \in disputes : new[t] # ourVote[t]}
  BY Zenon
<1>4. PICK S : S = {t \in txns \cup flipped : t \in flipped => new[t]}
  BY Zenon
<1>5. /\ currPeerPositions' = curr
      /\ ourVote' = new
      /\ disputes' = disputes
      /\ IF \/ flipped # {}
            \/ ctResult.time # asCloseTime(position.ct)
            \/ ourStale
         THEN ChangePosition(S, ctResult.time, curr, fresh)
         ELSE /\ votes' = fresh
              /\ UNCHANGED <<txns, position, acquired, compares, sent>>
  BY <1>1, <1>2, <1>3, <1>4, Zenon DEF updateOurPositions
<1>6. /\ \A t \in flipped : t \in S <=> new[t]
      /\ \A t : t \notin flipped => (t \in S <=> t \in txns)
  BY <1>4, NewSet
<1>7. new \in [Tx -> BOOLEAN]
  BY <1>1, <1>2, NewVotesType, ZenonT(30)
<1>8. \A t \in Tx : \A p \in Peer :
        fresh[t][p] = IF p \in stale THEN "none" ELSE votes[t][p]
  BY <1>1, Zenon DEF FreshVotes
<1>9. /\ Proposers' \subseteq Peer
      /\ \A p \in Proposers' : /\ p \in Proposers
                               /\ p \notin stale
                               /\ currPeerPositions'[p] = currPeerPositions[p]
      /\ \A p \in Proposers : p \notin stale => p \in Proposers'
  BY <1>5, Zenon DEF Proposers
<1>10. disputes \subseteq Tx /\ flipped \subseteq disputes
  BY <1>3, Zenon DEF TypeOK, DisputeType
<1>11. \A t \in disputes : new[t] = (t \in S)
  <2> SUFFICES ASSUME NEW t \in disputes PROVE new[t] = (t \in S)
    OBVIOUS
  <2>1. new[t] \in BOOLEAN
    BY <1>7, <1>10, Zenon
  <2>2. CASE t \in flipped
    BY <1>6, <2>1, <2>2
  <2>3. CASE t \notin flipped
    BY <1>3, <1>6, <2>3 DEF DisputeInv, OurVoteMatchesSet
  <2> QED
    BY <2>2, <2>3, Zenon
<1>12. NoResultNoDisputes'
  BY DEF NoResultNoDisputes
<1>13. CASE ChangePosition(S, ctResult.time, curr, fresh)
  <2>1. /\ txns' = S
        /\ position'.pos = S
        /\ acquired' = acquired \cup {S}
    BY <1>13, Zenon DEF ChangePosition, AcquireOwn
  <2>2. PICK there : there = IF S \in acquired THEN {} ELSE PeersAt(S, curr)
    BY Zenon
  <2>3. /\ compares' = IF there = {} THEN compares ELSE compares \cup {S}
        /\ votes' = [t \in Tx |-> [p \in Peer |->
                       IF t \in disputes /\ p \in there
                       THEN Ballot(t \in S) ELSE fresh[t][p]]]
    BY <1>13, <2>2, Zenon DEF ChangePosition
  <2>4. OwnPositionAcquired'
    BY <2>1, Zenon DEF OwnPositionAcquired
  <2>5. OurVoteMatchesSet'
    BY <1>5, <1>11, <2>1, Zenon DEF OurVoteMatchesSet
  <2>6. ComparedDifferencesDisputed'
    <3> SUFFICES ASSUME NEW T \in compares', NEW t \in SymDiff(S, T)
                 PROVE  t \in disputes
      BY <1>5, <2>1, Zenon DEF ComparedDifferencesDisputed, SymDiff
    <3>1. CASE T = S
      BY <3>1, Zenon DEF SymDiff
    <3>2. CASE T \in compares
      <4>1. SymDiff(txns, T) \subseteq disputes
        BY <3>2, Zenon DEF DisputeInv, ComparedDifferencesDisputed
      <4>2. t \in SymDiff(txns, T) \/ t \in flipped
        BY <1>6, Zenon DEF SymDiff
      <4> QED
        BY <1>10, <4>1, <4>2, Zenon
    <3> QED
      BY <2>3, <3>1, <3>2, ZenonT(30)
  <2>7. AcquiredCompared'
    <3> SUFFICES ASSUME NEW p \in Proposers',
                        currPeerPositions'[p].pos \in acquired'
                 PROVE  currPeerPositions'[p].pos \in compares'
      BY Zenon DEF AcquiredCompared
    <3>1. CASE currPeerPositions'[p].pos \in acquired
      BY <1>9, <2>3, <3>1, Zenon DEF DisputeInv, AcquiredCompared
    <3>2. CASE currPeerPositions'[p].pos \notin acquired
      <4>1. currPeerPositions'[p].pos = S /\ S \notin acquired
        BY <2>1, <3>2, Zenon
      <4>2. p \in there
        BY <1>5, <2>2, <4>1, Zenon DEF PeersAt, Proposers
      <4> QED
        BY <2>3, <4>1, <4>2, ZenonT(30)
    <3> QED
      BY <3>1, <3>2, Zenon
  <2>8. there \subseteq Proposers'
        /\ \A p \in there : currPeerPositions'[p].pos = S
    BY <1>5, <2>2, Zenon DEF PeersAt, Proposers
  <2>9. NoVoteWithoutPosition'
    <3> SUFFICES ASSUME NEW t \in Tx, NEW p \in Peer, votes'[t][p] # "none"
                 PROVE  p \in Proposers'
      BY DEF NoVoteWithoutPosition
    <3>1. CASE p \in there
      BY <2>8, <3>1, ZenonT(30)
    <3>2. CASE p \notin there
      BY <1>8, <1>9, <2>3, <3>2, ZenonT(30)
         DEF DisputeInv, NoVoteWithoutPosition
    <3> QED
      BY <3>1, <3>2, Zenon
  <2>10. DisputeVotesCurrent'
    <3> SUFFICES ASSUME NEW t \in disputes', NEW p \in Proposers',
                        currPeerPositions'[p].pos \in acquired'
                 PROVE  votes'[t][p] = Ballot(t \in currPeerPositions'[p].pos)
      BY DEF DisputeVotesCurrent
    <3>1. t \in disputes /\ t \in Tx /\ p \in Peer
      BY <1>5, <1>9, <1>10, ZenonT(30)
    <3>2. CASE p \in there
      BY <2>3, <2>8, <3>1, <3>2, ZenonT(30)
    <3>3. CASE p \notin there
      <4>1. currPeerPositions'[p].pos \in acquired
        <5>1. p \in PeersAt(S, curr) \/ currPeerPositions'[p].pos # S
          BY <1>5, <3>1, ZenonT(30) DEF PeersAt, Proposers
        <5>2. currPeerPositions'[p].pos # S \/ S \in acquired
          BY <2>2, <3>3, <5>1, ZenonT(30)
        <5> QED
          BY <2>1, <5>2, ZenonT(30)
      <4>2. votes'[t][p] = votes[t][p]
        BY <1>8, <1>9, <2>3, <3>1, <3>3, ZenonT(30)
      <4>3. votes[t][p] = Ballot(t \in currPeerPositions[p].pos)
        BY <1>9, <3>1, <4>1, Zenon DEF DisputeInv, DisputeVotesCurrent
      <4> QED
        BY <1>9, <4>2, <4>3, ZenonT(30)
    <3> QED
      BY <3>2, <3>3, ZenonT(30)
  <2> QED
    BY <1>12, <2>4, <2>5, <2>6, <2>7, <2>9, <2>10, ZenonT(30) DEF DisputeInv
<1>14. CASE /\ flipped = {}
            /\ votes' = fresh
            /\ UNCHANGED <<txns, position, acquired, compares, sent>>
  <2>1. OwnPositionAcquired' /\ ComparedDifferencesDisputed'
    BY <1>5, <1>14, Zenon DEF DisputeInv, OwnPositionAcquired,
       ComparedDifferencesDisputed, SymDiff
  <2>2. OurVoteMatchesSet'
    BY <1>5, <1>6, <1>11, <1>14 DEF OurVoteMatchesSet
  <2>3. AcquiredCompared'
    BY <1>9, <1>14, Zenon DEF DisputeInv, AcquiredCompared
  <2>4. NoVoteWithoutPosition'
    <3> SUFFICES ASSUME NEW t \in Tx, NEW p \in Peer, fresh[t][p] # "none"
                 PROVE  p \in Proposers'
      BY <1>14, Zenon DEF NoVoteWithoutPosition
    <3>1. p \notin stale /\ votes[t][p] # "none"
      BY <1>8, Zenon
    <3>2. p \in Proposers
      BY <3>1, ZenonT(30) DEF DisputeInv, NoVoteWithoutPosition
    <3> QED
      BY <1>9, <3>1, <3>2, Zenon
  <2>5. DisputeVotesCurrent'
    <3> SUFFICES ASSUME NEW t \in disputes', NEW p \in Proposers',
                        currPeerPositions'[p].pos \in acquired'
                 PROVE  votes'[t][p] = Ballot(t \in currPeerPositions'[p].pos)
      BY DEF DisputeVotesCurrent
    <3>1. t \in disputes /\ t \in Tx /\ p \in Peer
      BY <1>5, <1>9, <1>10, Zenon
    <3>2. votes'[t][p] = votes[t][p]
      BY <1>8, <1>9, <1>14, <3>1, ZenonT(30)
    <3>3. votes[t][p] = Ballot(t \in currPeerPositions[p].pos)
      BY <1>9, <1>14, <3>1, Zenon DEF DisputeInv, DisputeVotesCurrent
    <3> QED
      BY <1>9, <3>2, <3>3, ZenonT(30)
  <2> QED
    BY <1>12, <2>1, <2>2, <2>3, <2>4, <2>5, ZenonT(30) DEF DisputeInv
<1> QED
  BY <1>5, <1>13, <1>14, Zenon

-----------------------------------------------------------------------------
(* Every step *)

LEMMA UnchangedPeersInv ==
  ASSUME DisputeInv, UNCHANGED <<ourPosition, disputeVars, peerVars>>
  PROVE  DisputeInv'
<1>1. UNCHANGED <<currPeerPositions, acquired, Proposers>>
  BY DEF peerVars, Proposers
<1> QED
  BY <1>1, UnchangedDisputesInv, Zenon

LEMMA StartRoundInternalInv ==
  ASSUME NEW lgrId, NEW ledger, NEW newMode, NEW recent,
         startRoundInternal(lgrId, ledger, newMode, recent)
  PROVE  DisputeInv'
  BY Zenon DEF startRoundInternal, ClearResult, ClearDisputes, DisputeInv,
     NoResultNoDisputes, OwnPositionAcquired, OurVoteMatchesSet,
     ComparedDifferencesDisputed, AcquiredCompared, NoVoteWithoutPosition,
     DisputeVotesCurrent, NoVotes

\* Bowing out changes the sequence number of our position only.
LEMMA LeaveConsensusPosition ==
  ASSUME TypeOK, leaveConsensus
  PROVE  position'.pos = position.pos
  BY DEF leaveConsensus, TypeOK, PositionType

LEMMA WaitForLedgerInv ==
  ASSUME TypeOK, DisputeInv, NEW lgrId, WaitForLedger(lgrId)
  PROVE  DisputeInv'
<1>1. /\ UNCHANGED <<haveResult, txns, acquired>>
      /\ position'.pos = position.pos
      /\ ClearDisputes
      /\ ClearPeers
  BY LeaveConsensusPosition, Zenon DEF WaitForLedger
<1>2. Proposers' = {}
  BY <1>1 DEF ClearPeers, Proposers
<1>3. OwnPositionAcquired'
  BY <1>1, ZenonT(30) DEF DisputeInv, OwnPositionAcquired
<1>4. /\ NoResultNoDisputes'
      /\ OurVoteMatchesSet'
      /\ ComparedDifferencesDisputed'
      /\ NoVoteWithoutPosition'
      /\ DisputeVotesCurrent'
  BY <1>1 DEF ClearDisputes, NoResultNoDisputes, OurVoteMatchesSet,
     ComparedDifferencesDisputed, NoVoteWithoutPosition, DisputeVotesCurrent,
     NoVotes
<1>5. AcquiredCompared'
  BY <1>2, ZenonT(30) DEF AcquiredCompared
<1> QED
  BY <1>3, <1>4, <1>5, Zenon DEF DisputeInv

LEMMA LedgerMissingInv ==
  ASSUME DisputeInv, LedgerMissing, position'.pos = position.pos
  PROVE  DisputeInv'
<1>1. UNCHANGED <<haveResult, txns, disputes, ourVote, votes, compares,
                  currPeerPositions, acquired, Proposers>>
  BY Zenon DEF LedgerMissing, disputeVars, peerVars, Proposers
<1>2. OwnPositionAcquired' /\ AcquiredCompared' /\ DisputeVotesCurrent'
  BY <1>1, Zenon DEF DisputeInv, OwnPositionAcquired, AcquiredCompared,
     DisputeVotesCurrent
<1>3. /\ NoResultNoDisputes'
      /\ OurVoteMatchesSet'
      /\ ComparedDifferencesDisputed'
      /\ NoVoteWithoutPosition'
  BY <1>1, Zenon DEF DisputeInv, NoResultNoDisputes, OurVoteMatchesSet,
     ComparedDifferencesDisputed, NoVoteWithoutPosition, SymDiff
<1> QED
  BY <1>2, <1>3, Zenon DEF DisputeInv

LEMMA DispatchInv ==
  ASSUME TypeOK, TypeOK', RoundInv, DisputeInv, dispatchPhase
  PROVE  DisputeInv'
<1>1. CASE phaseOpen
  <2>1. CASE UNCHANGED <<phase, ourPosition, disputeVars, acquired, sent>>
    <3>1. UNCHANGED <<ourPosition, disputeVars, peerVars>>
      BY <1>1, <2>1, Zenon DEF phaseOpen, peerVars
    <3> QED
      BY <3>1, UnchangedPeersInv, Zenon
  <2>2. CASE \E S \in TxSets, ct \in CloseTimes : closeLedger(S, ct)
    BY <1>1, <2>2, CloseLedgerInv, Zenon DEF phaseOpen
  <2> QED
    BY <1>1, <2>1, <2>2, Zenon DEF phaseOpen
<1>2. CASE phaseEstablish
  <2>1. haveResult /\ UNCHANGED haveResult
    BY <1>2, Zenon DEF phaseEstablish, RoundInv, PhaseMatchesResult
  <2>2. PICK rt \in RoundTimes :
          \/ UNCHANGED <<phase, prevProposers, prevRoundTime, txns, position,
                         state, disputeVars, currPeerPositions, acquired, sent>>
          \/ \E stale \in SUBSET Proposers, ourStale \in BOOLEAN :
               UpdateAndCheck(rt, stale, ourStale)
    BY <1>2, Zenon DEF phaseEstablish
  <2>3. CASE UNCHANGED <<phase, prevProposers, prevRoundTime, txns, position,
                         state, disputeVars, currPeerPositions, acquired, sent>>
    <3>1. UNCHANGED <<haveResult, txns, position, disputes, ourVote, votes,
                      compares, currPeerPositions, acquired, Proposers>>
      BY <2>1, <2>3, ZenonT(30) DEF disputeVars, Proposers
    <3>2. OwnPositionAcquired' /\ AcquiredCompared' /\ DisputeVotesCurrent'
      BY <3>1, Zenon DEF DisputeInv, OwnPositionAcquired, AcquiredCompared,
         DisputeVotesCurrent
    <3>3. /\ NoResultNoDisputes'
          /\ OurVoteMatchesSet'
          /\ ComparedDifferencesDisputed'
          /\ NoVoteWithoutPosition'
      BY <3>1, Zenon DEF DisputeInv, NoResultNoDisputes, OurVoteMatchesSet,
         ComparedDifferencesDisputed, NoVoteWithoutPosition, SymDiff
    <3> QED
      BY <3>2, <3>3, Zenon DEF DisputeInv
  <2>4. ASSUME NEW stale \in SUBSET Proposers, NEW ourStale \in BOOLEAN,
               UpdateAndCheck(rt, stale, ourStale)
        PROVE  DisputeInv'
    <3>1. PICK percent : percent = ConvergePercent(rt, prevRoundTime)
      OBVIOUS
    <3>2. PICK curr : curr = [p \in Peer |-> IF p \in stale THEN NoProposal
                                             ELSE currPeerPositions[p]]
      BY Zenon
    <3>3. PICK ctResult : ctResult = CloseTimeResult(curr, percent)
      OBVIOUS
    <3>4. updateOurPositions(percent, stale, ourStale, curr, ctResult)
      BY <2>4, <3>1, <3>2, <3>3, ZenonT(30) DEF UpdateAndCheck
    <3> QED
      BY <2>1, <3>2, <3>4, UpdateOurPositionsInv, Zenon
  <2> QED
    BY <2>2, <2>3, <2>4, Zenon
<1>3. CASE UNCHANGED <<round, ourPosition, disputeVars, peerVars, sent>>
  BY <1>3, UnchangedPeersInv, Zenon
<1> QED
  BY <1>1, <1>2, <1>3, Zenon DEF dispatchPhase

LEMMA TimerBodyInv ==
  ASSUME TypeOK, TypeOK', RoundInv, DisputeInv, NEW netLgr \in Ledger,
         timerBody(netLgr)
  PROVE  DisputeInv'
<1>1. CASE dispatchPhase
  BY <1>1, DispatchInv, Zenon
<1>2. CASE WaitForLedger(netLgr)
  BY <1>2, WaitForLedgerInv, Zenon
<1>3. CASE LedgerAcquired
  BY <1>3, StartRoundInternalInv, Zenon DEF LedgerAcquired
<1>4. CASE leaveConsensus /\ LedgerMissing
  BY <1>4, LeaveConsensusPosition, LedgerMissingInv, ZenonT(30)
<1> QED
  BY <1>1, <1>2, <1>3, <1>4, Zenon DEF timerBody

LEMMA InitDispute == Init => DisputeInv
<1> SUFFICES ASSUME Init PROVE DisputeInv
  BY Zenon
<1>1. ~ haveResult /\ disputes = {} /\ compares = {} /\ votes = NoVotes
  BY Zenon DEF Init
<1>2. NoVoteWithoutPosition
  BY <1>1, Zenon DEF NoVoteWithoutPosition, NoVotes
<1> QED
  BY <1>1, <1>2, Zenon
     DEF DisputeInv, NoResultNoDisputes, OwnPositionAcquired, OurVoteMatchesSet,
     ComparedDifferencesDisputed, AcquiredCompared, DisputeVotesCurrent

LEMMA NextDispute ==
  ASSUME TypeOK, TypeOK', RoundInv, DisputeInv, [Next]_vars
  PROVE  DisputeInv'
<1>1. CASE StartRound
  <2> USE StartRoundInternalInv
  <2> QED
    BY <1>1, Zenon DEF StartRound, startRound
<1>2. CASE PeerProposal
  BY <1>2, PeerProposalInternalInv, Zenon DEF PeerProposal, peerProposal
<1>3. CASE GotTxSet
  <2>1. PICK S \in TxSets : gotTxSet(S)
    BY <1>3, Zenon DEF GotTxSet
  <2>2. S \in SUBSET Tx
    BY ConsensusAssumption, Zenon
  <2>3. /\ S \notin acquired
        /\ NewTxSet(S, currPeerPositions')
        /\ UNCHANGED <<ourPosition, currPeerPositions, Proposers>>
    BY <2>1, Zenon DEF gotTxSet, Proposers
  <2> QED
    BY <2>2, <2>3, NewTxSetInv, Zenon
<1>4. CASE Timer
  BY <1>4, TimerBodyInv, Zenon DEF Timer, timerEntry
<1>5. CASE ResumeTimer
  BY <1>5, DispatchInv, Zenon DEF ResumeTimer
<1>6. CASE Playback
  <2>1. CASE PlaybackProposal
    <3>1. Head(replayQueue) \in Proposal
      BY <2>1 DEF PlaybackProposal, TypeOK, ControlType
    <3> QED
      BY <2>1, <3>1, PeerProposalInternalInv, ZenonT(30) DEF PlaybackProposal
  <2>2. CASE \E peer \in Peer : PlaybackPeer(peer)
    BY <2>2, UnchangedPeersInv, Zenon DEF PlaybackPeer
  <2> QED
    BY <1>6, <2>1, <2>2, Zenon DEF Playback
<1>7. CASE FinishStart
  <2>1. CASE \E netLgr \in Ledger : timerBody(netLgr)
    BY <2>1, TimerBodyInv, ZenonT(30)
  <2>2. CASE UNCHANGED <<ourPosition, disputeVars, peerVars>>
    BY <2>2, UnchangedPeersInv, ZenonT(30)
  <2> QED
    BY <1>7, <2>1, <2>2, ZenonT(30) DEF FinishStart
<1>8. CASE FinishWrongLedger
  <2>1. CASE UNCHANGED <<ourPosition, disputeVars, peerVars>>
    BY <2>1, UnchangedPeersInv, Zenon
  <2>2. CASE LedgerAcquired
    BY <2>2, StartRoundInternalInv, Zenon DEF LedgerAcquired
  <2>3. CASE LedgerMissing /\ UNCHANGED position
    BY <2>3, LedgerMissingInv, ZenonT(30)
  <2> QED
    BY <1>8, <2>1, <2>2, <2>3, ZenonT(30) DEF FinishWrongLedger
<1>9. CASE Simulate
  BY <1>9, CloseLedgerInv, ZenonT(30) DEF Simulate, simulate
<1>10. CASE UNCHANGED vars
  BY <1>10, UnchangedPeersInv, Zenon DEF vars
<1> QED
  BY <1>1, <1>2, <1>3, <1>4, <1>5, <1>6, <1>7, <1>8, <1>9, <1>10, ZenonT(30)
     DEF Next

\* In whatever order positions, transaction sets, timers and ledger switches
\* come, the disputes are exactly what the positions call for: our set is
\* acquired, every known difference is disputed, our vote follows our set,
\* and each peer's vote is its present position's or none.
THEOREM DisputesExact ==
  Spec => [](OwnSetExact /\ EveryDifferenceDisputed /\ VotesFollowPositions)
<1>1. Init => TypeOK /\ RoundInv /\ DisputeInv
  BY InitTypeOK, InitRound, InitDispute, ZenonT(30)
<1>2. TypeOK /\ RoundInv /\ DisputeInv /\ [Next]_vars
        => (TypeOK /\ RoundInv /\ DisputeInv)'
  BY NextTypeOK, NextRound, NextDispute, ZenonT(30)
<1>3. DisputeInv =>
        OwnSetExact /\ EveryDifferenceDisputed /\ VotesFollowPositions
  BY DisputeInvSuffices, Zenon DEF DisputeInv, OwnSetExact, VotesFollowPositions
<1> QED
  BY <1>1, <1>2, <1>3, PTL DEF Spec

\* Our set, the set we announce and our votes agree, and our set is acquired:
\* gotTxSet and updateOurPositions never meet their assertions.
THEOREM OwnSetIsExact == Spec => []OwnSetExact
  BY DisputesExact, PTL

\* No vote in a dispute survives a change of the peer's position, a bow-out, a
\* stale proposal or a switch of the ledger.
THEOREM VotesAreCurrent == Spec => []VotesFollowPositions
  BY DisputesExact, PTL

-----------------------------------------------------------------------------
(* How a round ends *)

LEMMA YesIsAgreement ==
  ASSUME NEW prev, NEW current, NEW agree, NEW finished, NEW prevTime, NEW rt,
         NEW proposing,
         checkConsensus(prev, current, agree, finished, prevTime, rt, proposing)
           = "Yes"
  PROVE  checkConsensusReached(agree, current, proposing)
  BY Zenon DEF checkConsensus

LEMMA UpdateAndCheckAccepts ==
  ASSUME TypeOK, NEW rt, NEW stale, NEW ourStale,
         UpdateAndCheck(rt, stale, ourStale), UNCHANGED mode,
         OwnPositionAcquired', haveResult', phase # "accepted",
         phase' = "accepted"
  PROVE  AcceptedByConsensus'
<1>1. state' # "No"
  BY ZenonT(30) DEF UpdateAndCheck
<1>2. state' \in haveConsensus(rt)
  BY DEF UpdateAndCheck
<1>3. PICK agree :
        agree = {p \in Proposers' : currPeerPositions'[p].pos = position'.pos}
  BY Zenon
<1>4. agree = PeersAt(txns, currPeerPositions)'
  BY <1>3, Zenon DEF PeersAt, Proposers, OwnPositionAcquired
<1>5. \E finished \in 0..Cardinality(Peer) :
        state' = checkConsensus(prevProposers, Cardinality(Proposers'),
                                Cardinality(agree), finished, prevRoundTime,
                                rt, mode = "proposing")
  BY <1>2, <1>3, Zenon DEF haveConsensus, Proposers
<1>6. state' = "Yes" => checkConsensusReached(Cardinality(agree),
                                              Cardinality(Proposers'),
                                              mode = "proposing")
  BY <1>5, YesIsAgreement
<1> QED
  BY <1>1, <1>4, <1>6, ZenonT(30) DEF AcceptedByConsensus

\* Only phaseEstablish and simulate accept.
LEMMA DispatchAccepts ==
  ASSUME TypeOK, DisputeInv', dispatchPhase, phase # "accepted"
  PROVE  AcceptedByConsensus'
<1>1. CASE phaseOpen
  BY <1>1 DEF phaseOpen, AcceptedByConsensus
<1>2. CASE phaseEstablish /\ phase' = "accepted" /\ haveResult'
  <2>1. \E rt \in RoundTimes, stale \in SUBSET Proposers, ourStale \in BOOLEAN :
          UpdateAndCheck(rt, stale, ourStale)
    BY <1>2, ZenonT(30) DEF phaseEstablish
  <2>2. UNCHANGED mode
    BY <1>2 DEF phaseEstablish
  <2> QED
    BY <1>2, <2>1, <2>2, UpdateAndCheckAccepts, ZenonT(30) DEF DisputeInv
<1>3. CASE phase' # "accepted" \/ ~haveResult'
  BY <1>3, ZenonT(30) DEF AcceptedByConsensus
<1> QED
  BY <1>1, <1>2, <1>3, ZenonT(30) DEF dispatchPhase

LEMMA TimerBodyAccepts ==
  ASSUME TypeOK, DisputeInv', NEW netLgr \in Ledger, timerBody(netLgr),
         phase # "accepted"
  PROVE  AcceptedByConsensus'
<1>1. CASE dispatchPhase
  BY <1>1, DispatchAccepts, ZenonT(30)
<1>2. CASE phase' = phase \/ phase' = "open"
  BY <1>2 DEF AcceptedByConsensus
<1> QED
  BY <1>1, <1>2, ZenonT(30)
     DEF timerBody, WaitForLedger, LedgerAcquired, LedgerMissing,
     startRoundInternal

LEMMA NextAccepts ==
  ASSUME TypeOK, RoundInv, DisputeInv', AcceptedByConsensus, [Next]_vars
  PROVE  AcceptedByConsensus'
<1>0. standalone' = standalone
  BY DEF Next, vars
<1>1. CASE phase = "accepted"
  <2>1. CASE phase' = "open"
    BY <2>1, ZenonT(30) DEF AcceptedByConsensus
  <2>2. CASE UNCHANGED <<phase, ourPosition, mode, currPeerPositions>>
    <3>1. UNCHANGED <<phase, haveResult, txns, state, mode, currPeerPositions,
                      Proposers, PeersAt(txns, currPeerPositions)>>
      BY <2>2 DEF ourPosition, Proposers, PeersAt
    <3> QED
      BY <1>0, <3>1, ZenonT(30) DEF AcceptedByConsensus
  <2> QED
    BY <1>1, <2>1, <2>2, AcceptedStep, ZenonT(30)
<1>2. CASE phase # "accepted"
  <2> USE <1>2
  <2>1. CASE phase' # "accepted" \/ standalone
    BY <1>0, <2>1, Zenon DEF AcceptedByConsensus
  <2>2. CASE Timer
    BY <2>2, TimerBodyAccepts, Zenon DEF Timer, timerEntry
  <2>3. CASE ResumeTimer
    BY <2>3, DispatchAccepts, Zenon DEF ResumeTimer
  <2>4. CASE FinishStart /\ phase' = "accepted"
    BY <2>4, TimerBodyAccepts, Zenon DEF FinishStart, round
  <2>5. CASE StartRound \/ FinishWrongLedger
    <3>1. phase' = "open" \/ phase' = phase
      BY <2>5, Zenon DEF StartRound, startRound, startRoundInternal,
         FinishWrongLedger, LedgerAcquired, LedgerMissing, round
    <3> QED
      BY <3>1, <2>1, Zenon
  <2>6. CASE PeerProposal \/ GotTxSet \/ Playback \/ UNCHANGED vars
    <3>1. phase' = phase
      BY <2>6, Zenon
         DEF PeerProposal, peerProposal, GotTxSet, gotTxSet, Playback,
         PlaybackPeer, PlaybackProposal, vars, round
    <3> QED
      BY <3>1, <2>1, Zenon
  <2>7. CASE Simulate
    BY <2>1, <2>7, Zenon DEF Simulate, simulate
  <2> QED
    BY <2>1, <2>2, <2>3, <2>4, <2>5, <2>6, <2>7, ZenonT(30) DEF Next
<1> QED
  BY <1>1, <1>2, ZenonT(30)

\* A networked round that has ended was decided by checkConsensus, and if
\* the outcome is Yes then the agreed share of the participants holds exactly
\* the accepted set, for as long as the node stays in the accepted phase.
THEOREM AcceptedWithAgreement == Spec => []AcceptedByConsensus
<1>1. Init => TypeOK /\ RoundInv /\ DisputeInv /\ AcceptedByConsensus
  BY InitTypeOK, InitRound, InitDispute, ZenonT(30) DEF Init, AcceptedByConsensus
<1>2. TypeOK /\ RoundInv /\ DisputeInv /\ [Next]_vars
        => (TypeOK /\ RoundInv /\ DisputeInv)'
  BY NextTypeOK, NextRound, NextDispute, Zenon
<1>3. /\ TypeOK /\ RoundInv /\ DisputeInv'
      /\ AcceptedByConsensus /\ [Next]_vars
      => AcceptedByConsensus'
  BY NextAccepts, Zenon
<1> QED
  BY <1>1, <1>2, <1>3, PTL DEF Spec

-----------------------------------------------------------------------------
(* The close time of an accepted round *)

\* A finite vote has a latest most-voted time: nothing is above a member with
\* a minimal set of members above it.
LEMMA BestExists ==
  ASSUME NEW T \in SUBSET Nat, IsFiniteSet(T), T # {},
         NEW f, \A t \in T : f[t] \in Nat
  PROVE  \E t \in T : \A u \in T : f[t] > f[u] \/ (f[t] = f[u] /\ t >= u)
<1> DEFINE above(t) == {u \in T : f[u] > f[t] \/ (f[u] = f[t] /\ u > t)}
           sets == {above(t) : t \in T}
<1>1. sets # {} /\ sets \subseteq SUBSET T
  BY ZenonT(30)
<1>2. IsWellFoundedOn(StrictSubsetOrdering(T), SUBSET T)
  BY FS_StrictSubsetOrderingWellFounded, FS_FiniteSubsetsOfFinite, Zenon
<1>3. \E x \in sets : \A y \in sets : <<y, x>> \notin StrictSubsetOrdering(T)
  BY <1>1, <1>2, WFMin, Zenon
<1>4. PICK t \in T :
        \A y \in sets : <<y, above(t)>> \notin StrictSubsetOrdering(T)
  BY <1>3, Zenon
<1>5. above(t) = {}
  <2> SUFFICES ASSUME NEW u \in above(t)
               PROVE  FALSE
    BY Zenon
  <2>1. u \in T /\ above(u) \subseteq above(t) /\ u \notin above(u)
    <3>1. u \in T /\ (f[u] > f[t] \/ (f[u] = f[t] /\ u > t))
      OBVIOUS
    <3>2. /\ u \in Nat /\ t \in Nat /\ f[u] \in Nat /\ f[t] \in Nat
          /\ \A v \in T : v \in Nat /\ f[v] \in Nat
      BY <3>1, ZenonT(30)
    <3>3. ASSUME NEW v \in T, f[v] > f[u] \/ (f[v] = f[u] /\ v > u)
          PROVE  f[v] > f[t] \/ (f[v] = f[t] /\ v > t)
      BY <3>1, <3>2, <3>3
    <3>4. ~(f[u] > f[u] \/ (f[u] = f[u] /\ u > u))
      BY <3>2
    <3> QED
      BY <3>1, <3>3, <3>4, Zenon
  <2>2. above(u) \in sets /\ above(u) # above(t)
    BY <2>1, ZenonT(30)
  <2>3. above(u) \in SUBSET T /\ above(t) \in SUBSET T
    BY <1>1, <2>2, ZenonT(30)
  <2> HIDE DEF above, sets
  <2> QED
    BY <1>4, <2>1, <2>2, <2>3, Zenon DEF StrictSubsetOrdering
<1>6. \A u \in T : ~(f[u] > f[t] \/ (f[u] = f[t] /\ u > t))
  BY <1>5, ZenonT(30)
<1>7. \A u \in T : f[t] > f[u] \/ (f[t] = f[u] /\ t >= u)
  <2> TAKE u \in T
  <2> QED
    BY <1>6
<1> QED
  BY <1>7, Zenon

\* When some time has the votes for consensus, the one chosen has them.
LEMMA ChosenTimeHasVotes ==
  ASSUME NEW D \in SUBSET Nat, IsFiniteSet(D), NEW ballot \in [D -> Nat],
         NEW tv \in Nat, NEW tc \in Nat,
         HaveCloseTimeConsensus(ballot, tv, tc)
  PROVE  /\ ConsensusCloseTime(ballot, tv) \in D
         /\ ballot[ConsensusCloseTime(ballot, tv)] >= tc
<1> DEFINE enough == {t \in DOMAIN ballot : ballot[t] >= tv}
           best(t) == \A u \in enough :
                        \/ ballot[t] > ballot[u]
                        \/ ballot[t] = ballot[u] /\ t >= u
           time == CHOOSE t \in enough : best(t)
<1>1. PICK s \in D : ballot[s] >= tv /\ ballot[s] >= tc
  BY DEF HaveCloseTimeConsensus
<1>2. /\ enough \in SUBSET Nat /\ enough \subseteq D /\ s \in enough
      /\ \A t \in enough : ballot[t] \in Nat
  BY <1>1, Zenon
<1>3. IsFiniteSet(enough)
  BY <1>2, FS_Subset, Zenon
<1>4. \E t \in enough : best(t)
  <2> HIDE DEF enough
  <2> QED
    BY <1>2, <1>3, BestExists, Zenon
<1>5. ConsensusCloseTime(ballot, tv) = time
  BY <1>4, Zenon DEF ConsensusCloseTime
<1>6. time \in enough /\ best(time)
  <2> HIDE DEF enough, best
  <2> QED
    BY <1>4
<1>7. ballot[time] > ballot[s] \/ ballot[time] = ballot[s]
  BY <1>2, <1>6, Zenon
<1>8. time \in D /\ ballot[time] \in Nat /\ ballot[s] \in Nat
  BY <1>2, <1>6, Zenon
<1> HIDE DEF time
<1>9. ballot[time] >= tc
  BY <1>1, <1>7, <1>8
<1> QED
  BY <1>5, <1>8, <1>9, Zenon

\* A rounded close time is its own rounding.
LEMMA RoundTwice ==
  ASSUME NEW ct \in Nat, NEW r \in {10, 20, 30, 60, 90, 120}
  PROVE  roundCloseTime(roundCloseTime(ct, r), r) = roundCloseTime(ct, r)
<1> USE DEF roundCloseTime
<1>1. CASE r = 10
  BY <1>1
<1>2. CASE r = 20
  BY <1>2
<1>3. CASE r = 30
  BY <1>3
<1>4. CASE r = 60
  BY <1>4
<1>5. CASE r = 90
  BY <1>5
<1>6. CASE r = 120
  BY <1>6
<1> QED
  BY <1>1, <1>2, <1>3, <1>4, <1>5, <1>6, ZenonT(30)

\* So is the close time that a round works with.
LEMMA AsCloseTimeTwice ==
  ASSUME TypeOK, useRoundedCloseTime, NEW raw \in Nat
  PROVE  asCloseTime(asCloseTime(raw)) = asCloseTime(raw)
<1> DEFINE info == LedgerInfo[previousLedger]
<1>1. /\ info.resolution \in {10, 20, 30, 60, 90, 120}
      /\ info.closeAgree \in BOOLEAN
      /\ info.seq + 1 \in Nat
  BY ConsensusAssumption DEF TypeOK, RoundType
<1>2. closeResolution \in {10, 20, 30, 60, 90, 120}
  BY <1>1, ResolutionType DEF closeResolution
<1> QED
  BY <1>2, RoundTwice, ZenonT(30) DEF asCloseTime

\* The vote of updateOurPositions on the close time: voters are the peers
\* that take part, self says whether we do, and own whether our vote is for
\* the time that came out.
CloseTimeVote(curr, percent, voters, ct, self, own) ==
  /\ curr \in [Peer -> Proposal \cup {NoProposal}]
  /\ voters = {p \in Peer : curr[p] # NoProposal}
  /\ voters # {}
  /\ ct = CloseTimeResult(curr, percent)
  /\ ct.agreed
  /\ self = IF mode = "proposing" THEN 1 ELSE 0
  /\ own = IF mode = "proposing" /\ asCloseTime(position.ct) = ct.time
           THEN 1 ELSE 0

\* The time is the rounded time of some participant, and has three quarters of
\* the votes.
TimeAgreed(curr, voters, time, self, own) ==
  /\ time \in Nat
  /\ \/ \E p \in voters : time = asCloseTime(curr[p].ct)
     \/ mode = "proposing" /\ time = asCloseTime(position.ct)
  /\ Cardinality({p \in voters : asCloseTime(curr[p].ct) = time}) + own
       >= participantsNeeded(Cardinality(voters) + self, avCT_CONSENSUS_PCT)

\* What updateOurPositions means by an agreed close time.
LEMMA AgreedTime ==
  ASSUME TypeOK, NEW curr, NEW percent, NEW voters, NEW ct, NEW self, NEW own,
         CloseTimeVote(curr, percent, voters, ct, self, own)
  PROVE  TimeAgreed(curr, voters, ct.time, self, own)
<1> USE DEF CloseTimeVote
<1> DEFINE proposing == mode = "proposing"
           of == [p \in voters |-> asCloseTime(curr[p].ct)]
           ours == asCloseTime(position.ct)
           times == {asCloseTime(curr[p].ct) : p \in voters}
           D == times \cup (IF proposing THEN {ours} ELSE {})
           ballot == closeTimeVotes(curr, proposing)
           tv == participantsNeeded(Cardinality(voters) + self,
                                    NeededWeight(percent))
           tc == participantsNeeded(Cardinality(voters) + self,
                                    avCT_CONSENSUS_PCT)
<1>1. IsFiniteSet(voters) /\ Cardinality(voters) \in Nat /\ self \in {0, 1}
  BY ConsensusAssumption, FS_Subset, FS_CardinalityType, ZenonT(30)
<1>2. Cardinality(voters) # 0
  BY <1>1, FS_EmptySet, Zenon
<1>3. IsFiniteSet(D)
  <2>1. of \in Surjection(voters, times)
    BY DEF Surjection
  <2>2. IsFiniteSet(times)
    BY <1>1, <2>1, FS_Surjection, Zenon
  <2>3. IsFiniteSet({}) /\ IsFiniteSet({ours})
    BY FS_EmptySet, FS_Singleton, Zenon
  <2>4. IsFiniteSet(times \cup {}) /\ IsFiniteSet(times \cup {ours})
    BY <2>2, <2>3, FS_Union, Zenon
  <2> QED
    BY <2>4, Zenon
<1>4. /\ DOMAIN ballot = D
      /\ \A t \in D : ballot[t] = Cardinality({p \in voters :
                                                asCloseTime(curr[p].ct) = t})
                                   + (IF proposing /\ ours = t THEN 1 ELSE 0)
  BY Zenon DEF closeTimeVotes
<1>5. D \in SUBSET Nat /\ ballot \in [D -> Nat]
  <2>1. PICK E \in SUBSET Nat : ballot \in [E -> Nat]
    BY CloseTimeVotesType, Zenon
  <2> QED
    BY <1>4, <2>1, Zenon
<1>6. /\ NeededWeight(percent) \in {50, 65, 70, 75, 95}
      /\ avCT_CONSENSUS_PCT \in {50, 65, 70, 75, 95}
  BY DEF NeededWeight, avCT_CONSENSUS_PCT
<1>7. tv \in Nat /\ tc \in Nat
  <2>1. Cardinality(voters) + self \in Nat
    BY <1>1
  <2>2. PICK n \in Nat : n = Cardinality(voters) + self
    BY <2>1, Zenon
  <2>3. PICK w \in {50, 65, 70, 75, 95} : w = NeededWeight(percent)
    BY <1>6, Zenon
  <2>4. PICK c \in {50, 65, 70, 75, 95} : c = avCT_CONSENSUS_PCT
    BY <1>6, Zenon
  <2>5. participantsNeeded(n, w) \in Nat /\ participantsNeeded(n, c) \in Nat
    BY ParticipantsNeededType, SMTT(30)
  <2> QED
    BY <2>2, <2>3, <2>4, <2>5, ZenonT(30)
<1>8. ct = [time |-> ConsensusCloseTime(ballot, tv),
            agreed |-> HaveCloseTimeConsensus(ballot, tv, tc)]
  BY <1>2, Zenon DEF CloseTimeResult
<1>9. ct.time = ConsensusCloseTime(ballot, tv)
      /\ HaveCloseTimeConsensus(ballot, tv, tc)
  <2> HIDE DEF ballot, tv, tc
  <2>1. /\ ct.time = ConsensusCloseTime(ballot, tv)
        /\ ct.agreed = HaveCloseTimeConsensus(ballot, tv, tc)
    BY <1>8
  <2> QED
    BY <2>1, Zenon
<1>10. ct.time \in D /\ ballot[ct.time] >= tc
  <2> HIDE DEF D, ballot, tv, tc
  <2> QED
    BY <1>3, <1>5, <1>7, <1>9, ChosenTimeHasVotes, Zenon
<1>11. ballot[ct.time]
         = Cardinality({p \in voters : asCloseTime(curr[p].ct) = ct.time}) + own
  BY <1>4, <1>10, Zenon
<1> QED
  BY <1>5, <1>10, <1>11, Zenon DEF TimeAgreed

\* The time we then take is the one agreed on, and our vote for it counts.
LEMMA UpdateAndCheckTime ==
  ASSUME TypeOK, NEW rt, NEW stale \in SUBSET Proposers, NEW ourStale,
         UpdateAndCheck(rt, stale, ourStale),
         UNCHANGED <<mode, previousLedger, useRoundedCloseTime>>,
         phase # "accepted", phase' = "accepted",
         useRoundedCloseTime, Proposers' # {}
  PROVE  AcceptedCloseTimeAgreed'
<1>1. PICK percent, curr, ct :
        /\ curr = [p \in Peer |-> IF p \in stale THEN NoProposal
                                                 ELSE currPeerPositions[p]]
        /\ ct = CloseTimeResult(curr, percent)
        /\ updateOurPositions(percent, stale, ourStale, curr, ct)
        /\ ct.agreed
  BY Zenon DEF UpdateAndCheck
<1>2. curr \in [Peer -> Proposal \cup {NoProposal}] /\ currPeerPositions' = curr
  BY <1>1, Zenon DEF TypeOK, PeerType, updateOurPositions
<1>3. PICK voters : voters = {p \in Peer : curr[p] # NoProposal}
  BY Zenon
<1>4. Proposers' = voters /\ voters # {}
  BY <1>2, <1>3, Zenon DEF Proposers
<1> DEFINE proposing == mode = "proposing"
<1>13. PICK self : self = IF proposing THEN 1 ELSE 0
  OBVIOUS
<1>14. PICK own : own = IF proposing /\ asCloseTime(position.ct) = ct.time
                        THEN 1 ELSE 0
  OBVIOUS
<1> DEFINE for == Cardinality({p \in voters : asCloseTime(curr[p].ct) = ct.time})
           needed == participantsNeeded(Cardinality(voters) + self,
                                        avCT_CONSENSUS_PCT)
<1>5. /\ ct.time \in Nat
      /\ \/ \E p \in voters : ct.time = asCloseTime(curr[p].ct)
         \/ proposing /\ ct.time = asCloseTime(position.ct)
      /\ for + own >= needed
  <2>1. CloseTimeVote(curr, percent, voters, ct, self, own)
    BY <1>1, <1>2, <1>3, <1>4, <1>13, <1>14, ZenonT(30) DEF CloseTimeVote
  <2>2. TimeAgreed(curr, voters, ct.time, self, own)
    BY <2>1, AgreedTime, Zenon
  <2> QED
    BY <2>2, Zenon DEF TimeAgreed
<1>6. asCloseTime(ct.time) = ct.time
  <2>1. \A p \in voters : curr[p].ct \in Nat
    <3>1. \A p \in voters : curr[p] \in Proposal
      BY <1>2, <1>3, Zenon
    <3> QED
      BY <3>1, ProposalFields, ConsensusAssumption, Zenon
  <2>2. position.ct \in Nat
    BY DEF TypeOK, PositionType
  <2>3. \E raw \in Nat : ct.time = asCloseTime(raw)
    BY <1>5, <2>1, <2>2, Zenon
  <2> QED
    BY <2>3, AsCloseTimeTwice, Zenon
<1>7. asCloseTime(position'.ct) = ct.time
  <2>1. \/ \E S, fresh : ChangePosition(S, ct.time, curr, fresh)
        \/ ct.time = asCloseTime(position.ct) /\ UNCHANGED position
    BY <1>1, Zenon DEF updateOurPositions
  <2>2. ASSUME NEW S, NEW fresh, ChangePosition(S, ct.time, curr, fresh)
        PROVE  position'.ct = ct.time
    <3>1. position' = [pos |-> S, ct |-> ct.time, seq |-> NextSeq(S)]
      BY <2>2, Zenon DEF ChangePosition
    <3> QED
      BY <3>1, Zenon
  <2> QED
    BY <1>6, <2>1, <2>2, Zenon
<1>8. \A x : asCloseTime(x)' = asCloseTime(x)
  BY DEF asCloseTime, closeResolution
<1>9. /\ asCloseTime(position.ct)' = ct.time
      /\ (mode = "proposing")' = proposing
  BY <1>7, <1>8, Zenon
<1> DEFINE ballot == closeTimeVotes(currPeerPositions, mode = "proposing")'
<1>10. /\ DOMAIN ballot = {asCloseTime(curr[p].ct) : p \in voters}
                            \cup (IF proposing THEN {ct.time} ELSE {})
       /\ ct.time \in DOMAIN ballot =>
            ballot[ct.time] = for + self
  BY <1>2, <1>3, <1>8, <1>9, <1>13, ZenonT(30) DEF closeTimeVotes
<1>11. ct.time \in DOMAIN ballot
  BY <1>5, <1>10, Zenon
<1>12. for + self >= needed
  <2>1. for \in Nat
    BY <1>3, PeerCardinality, Zenon
  <2>2. own \in {0, 1} /\ self \in {0, 1} /\ own <= self
    BY <1>13, <1>14
  <2>3. needed \in Int
    <3>1. Cardinality(voters) \in Nat
      BY <1>3, PeerCardinality, Zenon
    <3> QED
      BY <2>2, <3>1 DEF participantsNeeded, avCT_CONSENSUS_PCT
  <2> HIDE DEF for, needed
  <2> QED
    BY <1>5, <2>1, <2>2, <2>3
<1> QED
  BY <1>4, <1>9, <1>10, <1>11, <1>12, <1>13, ZenonT(30) DEF AcceptedCloseTimeAgreed

LEMMA DispatchTime ==
  ASSUME TypeOK, dispatchPhase, phase # "accepted"
  PROVE  AcceptedCloseTimeAgreed'
<1>1. CASE phase' # "accepted" \/ ~useRoundedCloseTime' \/ Proposers' = {}
  BY <1>1, Zenon DEF AcceptedCloseTimeAgreed
<1>2. CASE phaseOpen
  <2>1. phase' # "accepted"
    BY <1>2, Zenon DEF phaseOpen
  <2> QED
    BY <1>1, <2>1, Zenon
<1>3. CASE /\ phaseEstablish /\ phase' = "accepted"
           /\ useRoundedCloseTime' /\ Proposers' # {}
  <2>1. PICK rt \in RoundTimes, stale \in SUBSET Proposers,
             ourStale \in BOOLEAN : UpdateAndCheck(rt, stale, ourStale)
    BY <1>3 DEF phaseEstablish
  <2>2. UNCHANGED <<mode, previousLedger, useRoundedCloseTime>>
    BY <1>3, ZenonT(30) DEF phaseEstablish, dispatchPhase
  <2> QED
    BY <1>3, <2>1, <2>2, UpdateAndCheckTime, ZenonT(30)
<1> QED
  BY <1>1, <1>2, <1>3, Zenon DEF dispatchPhase

LEMMA TimerBodyTime ==
  ASSUME TypeOK, NEW netLgr \in Ledger, timerBody(netLgr), phase # "accepted"
  PROVE  AcceptedCloseTimeAgreed'
<1>1. CASE dispatchPhase
  BY <1>1, DispatchTime, Zenon
<1>2. CASE phase' = phase \/ phase' = "open"
  BY <1>2, Zenon DEF AcceptedCloseTimeAgreed
<1> QED
  BY <1>1, <1>2, Zenon DEF timerBody, WaitForLedger, LedgerAcquired, LedgerMissing,
     startRoundInternal

LEMMA NextTime ==
  ASSUME TypeOK, RoundInv, AcceptedCloseTimeAgreed, [Next]_vars
  PROVE  AcceptedCloseTimeAgreed'
<1>0. standalone' = standalone
  BY DEF Next, vars
<1>1. CASE phase = "accepted"
  <2>1. CASE phase' = "open"
    BY <2>1, Zenon DEF AcceptedCloseTimeAgreed
  <2>2. CASE UNCHANGED <<phase, ourPosition, mode, currPeerPositions,
                         previousLedger, useRoundedCloseTime>>
    <3>1. UNCHANGED AcceptedCloseTimeAgreed
      BY <1>0, <2>2, ZenonT(30)
         DEF AcceptedCloseTimeAgreed, ourPosition, Proposers, closeTimeVotes,
         asCloseTime, closeResolution
    <3> QED
      BY <3>1, Zenon
  <2> QED
    BY <1>1, <2>1, <2>2, AcceptedStep, ZenonT(30)
<1>2. CASE phase # "accepted"
  <2> USE <1>2
  <2>1. CASE phase' # "accepted" \/ standalone
    BY <1>0, <2>1, Zenon DEF AcceptedCloseTimeAgreed
  <2>2. CASE Timer
    BY <2>2, TimerBodyTime, Zenon DEF Timer, timerEntry
  <2>3. CASE ResumeTimer
    BY <2>3, DispatchTime, Zenon DEF ResumeTimer
  <2>4. CASE FinishStart /\ phase' = "accepted"
    BY <2>4, TimerBodyTime, Zenon DEF FinishStart, round
  <2>5. CASE StartRound \/ FinishWrongLedger
    <3>1. phase' = "open" \/ phase' = phase
      BY <2>5, Zenon DEF StartRound, startRound, startRoundInternal,
         FinishWrongLedger, LedgerAcquired, LedgerMissing, round
    <3> QED
      BY <3>1, <2>1, Zenon
  <2>6. CASE PeerProposal \/ GotTxSet \/ Playback \/ UNCHANGED vars
    <3>1. phase' = phase
      BY <2>6, Zenon
         DEF PeerProposal, peerProposal, GotTxSet, gotTxSet, Playback,
         PlaybackPeer, PlaybackProposal, vars, round
    <3> QED
      BY <3>1, <2>1, Zenon
  <2>7. CASE Simulate
    BY <2>1, <2>7, Zenon DEF Simulate, simulate
  <2> QED
    BY <2>1, <2>2, <2>3, <2>4, <2>5, <2>6, <2>7, ZenonT(30) DEF Next
<1> QED
  BY <1>1, <1>2, Zenon

\* The close time of a networked round that ended with rounded times has the
\* votes of three quarters of the participants when our own last change of
\* position is counted, and keeps them while the round stays accepted.
THEOREM CloseTimeHasConsensus == Spec => []AcceptedCloseTimeAgreed
<1>1. Init => TypeOK /\ RoundInv /\ AcceptedCloseTimeAgreed
  BY InitTypeOK, InitRound, Zenon DEF Init, AcceptedCloseTimeAgreed
<1>2. TypeOK /\ RoundInv /\ [Next]_vars => (TypeOK /\ RoundInv)'
  BY NextTypeOK, NextRound, Zenon
<1>3. TypeOK /\ RoundInv /\ AcceptedCloseTimeAgreed /\ [Next]_vars
        => AcceptedCloseTimeAgreed'
  BY NextTime
<1> QED
  BY <1>1, <1>2, <1>3, PTL DEF Spec
===============================================================================
