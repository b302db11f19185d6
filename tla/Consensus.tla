------------------------------- MODULE Consensus -------------------------------
(***************************************************************************)
(* The generic consensus engine of one node (Consensus.h), driven by its   *)
(* adaptor: rounds are started, peers' proposals and transaction sets      *)
(* arrive, and a timer closes the ledger and drives the positions towards  *)
(* agreement.  The peers, the network's view of the preferred ledger and   *)
(* the passage of time are the environment.                                *)
(*                                                                         *)
(* All handlers run under RCLConsensus's mutex.  A handler without loops   *)
(* over stored proposals is one step.  The handlers that replay proposals  *)
(* (startRoundInternal and handleWrongLedger) run their loop one proposal  *)
(* per step with pc # "idle": the lock is held, so no other handler starts *)
(* until the loop and everything after it are done.  timerEntry and        *)
(* handleWrongLedger call each other; pending counts the timerEntry frames *)
(* that still have to dispatch on the phase.                               *)
(*                                                                         *)
(* A transaction set is its own identifier.  Clock readings are choices:   *)
(* which proposals are stale, how long the round has lasted, and the       *)
(* inputs of shouldCloseLedger that the code reads from clocks and from    *)
(* the open ledger.                                                        *)
(***************************************************************************)
EXTENDS ConsensusRules, Sequences

CONSTANTS
  Tx,          \* transactions
  TxSets,      \* the transaction sets that onClose or a peer may come up with
  Ledger,      \* ledgers that can be the previous ledger of a round
  LedgerInfo,  \* what the engine reads from a previous ledger
  CloseTimes,  \* raw close times read from the network clock
  RoundTimes,  \* readings of the round timer, in milliseconds
  PeerSeqs,    \* proposal sequence numbers peers use, below seqLeave
  seqLeave,    \* the sequence number of a bow-out (0xffffffff)
  MaxSeq,      \* bound on our own sequence number
  MaxRecent,   \* length of the queue of recent positions of a peer (10)
  MaxPending,  \* bound on nested timerEntry frames
  MaxReports   \* bound on the close times counted in a round

ASSUME ConsensusAssumption ==
  /\ IsFiniteSet(Peer)
  /\ TxSets \subseteq SUBSET Tx
  /\ LedgerInfo \in [Ledger -> [seq : Nat, closeTime : Nat,
                                resolution : {10, 20, 30, 60, 90, 120},
                                closeAgree : BOOLEAN, rounded : BOOLEAN]]
  /\ CloseTimes \subseteq Nat
  /\ RoundTimes \subseteq Nat
  /\ MaxSeq \in Nat
  /\ seqLeave \in Nat /\ seqLeave > MaxSeq
  /\ PeerSeqs \subseteq Nat /\ \A s \in PeerSeqs : s < seqLeave
  /\ MaxRecent \in Nat \ {0}
  /\ MaxPending \in Nat \ {0}
  /\ MaxReports \in Nat

VARIABLES
  \* the lock, the replay in progress and the suspended timerEntry frames
  pc, pending, replayPeers, replayQueue,
  \* the round
  phase, mode, firstRound, prevLedgerID, previousLedger,
  prevProposers, prevRoundTime, useRoundedCloseTime,
  \* result_: our transaction set, our position, the disputes and the outcome
  haveResult, txns, position, disputes, ourVote, votes, compares,
  roundTime, state,
  \* the peers
  currPeerPositions, recentPeerPositions, deadNodes, acquired, rawCloseTimes,
  \* the sequence numbers we have broadcast in this round (history)
  sent,
  \* whether the node was started to run without a network
  standalone

control == <<pc, pending, replayPeers, replayQueue>>
round == <<phase, mode, firstRound, prevLedgerID, previousLedger,
           prevProposers, prevRoundTime, useRoundedCloseTime>>
disputeVars == <<disputes, ourVote, votes, compares>>
ourPosition == <<haveResult, txns, position, roundTime, state>>
peerVars == <<currPeerPositions, deadNodes, acquired, rawCloseTimes>>

vars == <<control, round, ourPosition, disputeVars, peerVars,
          recentPeerPositions, sent, standalone>>

NoProposal == [node |-> "none"]

Proposal ==
  [node : Peer, prev : Ledger, seq : PeerSeqs \cup {seqLeave},
   pos : TxSets, ct : CloseTimes]

NoVotes == [t \in Tx |-> [p \in Peer |-> "none"]]

\* The peers that currently hold a position.
Proposers == {p \in Peer : currPeerPositions[p] # NoProposal}

ControlType ==
  /\ pc \in {"idle", "replayStart", "replayWrong", "dispatch"}
  /\ pending \in Nat
  /\ replayPeers \subseteq Peer
  /\ replayQueue \in Seq(Proposal)

RoundType ==
  /\ phase \in {"open", "establish", "accepted"}
  /\ mode \in {"proposing", "observing", "wrongLedger", "switchedLedger"}
  /\ firstRound \in BOOLEAN
  /\ prevLedgerID \in Ledger
  /\ previousLedger \in Ledger
  /\ prevProposers \in Nat
  /\ prevRoundTime \in Nat
  /\ useRoundedCloseTime \in BOOLEAN

PositionType ==
  /\ haveResult \in BOOLEAN
  /\ txns \in SUBSET Tx
  /\ position \in [pos : SUBSET Tx, seq : 0..MaxSeq \cup {seqLeave}, ct : Nat]
  /\ roundTime \in Nat
  /\ state \in {"No", "MovedOn", "Yes"}
  /\ sent \in Seq(0..MaxSeq \cup {seqLeave})

DisputeType ==
  /\ disputes \in SUBSET Tx
  /\ ourVote \in [Tx -> BOOLEAN]
  /\ votes \in [Tx -> [Peer -> {"yes", "no", "none"}]]
  /\ compares \in SUBSET SUBSET Tx

PeerType ==
  /\ currPeerPositions \in [Peer -> Proposal \cup {NoProposal}]
  /\ deadNodes \in SUBSET Peer
  /\ acquired \in SUBSET SUBSET Tx
  /\ rawCloseTimes \in [CloseTimes -> Nat]

TypeOK ==
  /\ ControlType
  /\ RoundType
  /\ PositionType
  /\ DisputeType
  /\ PeerType
  /\ recentPeerPositions \in [Peer -> Seq(Proposal)]

-----------------------------------------------------------------------------
(* Starting and leaving a round *)

\* getNextLedgerTimeResolution on the ledger before ours.
closeResolution ==
  getNextLedgerTimeResolution(LedgerInfo[previousLedger].resolution,
                              LedgerInfo[previousLedger].closeAgree,
                              LedgerInfo[previousLedger].seq + 1)

asCloseTime(raw) ==
  IF useRoundedCloseTime
  THEN roundCloseTime(raw, closeResolution)
  ELSE effCloseTime(raw, closeResolution, LedgerInfo[previousLedger].closeTime)

\* Mutant: the compared sets are remembered.
M_ClearDisputes ==
  /\ disputes' = {}
  /\ votes' = NoVotes
  /\ ourVote' = [t \in Tx |-> FALSE]
  /\ UNCHANGED compares

ClearDisputes ==
  /\ disputes' = {}
  /\ compares' = {}
  /\ votes' = NoVotes
  /\ ourVote' = [t \in Tx |-> FALSE]

ClearPeers ==
  /\ currPeerPositions' = [p \in Peer |-> NoProposal]
  /\ deadNodes' = {}
  /\ rawCloseTimes' = [t \in CloseTimes |-> 0]

\* Mutant: the old position is kept.
M_ClearResult == UNCHANGED ourPosition

ClearResult ==
  /\ haveResult' = FALSE
  /\ txns' = {}
  /\ position' = [pos |-> {}, seq |-> 0, ct |-> 0]
  /\ roundTime' = 0
  /\ state' = "No"

\* The beginning of playbackProposals: every peer with stored positions is
\* due; PlaybackPeer and PlaybackProposal take them one after the other.
StartPlayback(kind, recent) ==
  /\ pc' = kind
  /\ recentPeerPositions' = recent
  /\ replayPeers' = {p \in Peer : recent[p] # <<>>}
  /\ replayQueue' = <<>>

\* startRoundInternal up to the playback; FinishStart is the rest of it.
startRoundInternal(lgrId, ledger, newMode, recent) ==
  /\ phase' = "open"
  /\ mode' = newMode
  /\ prevLedgerID' = lgrId
  /\ previousLedger' = ledger
  /\ ClearResult
  /\ ClearDisputes
  /\ ClearPeers
  /\ acquired' = {}
  /\ sent' = <<>>
  /\ StartPlayback("replayStart", recent)
  /\ UNCHANGED prevProposers

\* The adaptor has the ledger: from now on its close-time rules are used.  A
\* round on a ledger that need not be acquired keeps the rules of the last
\* one that was.
acquireLedger(lgrId) == useRoundedCloseTime' = LedgerInfo[lgrId].rounded

\* The adaptor starts a round on prevLedger although the network may already
\* prefer prevID; acquireLedger gives the right ledger or the mode says it is
\* missing.  The stored positions of peers no longer trusted are dropped.
startRound(prevID, prevLedger, nowUntrusted, proposing) ==
  /\ pc = "idle"
  /\ phase = "accepted" \/ (standalone /\ phase = "open")
  /\ firstRound' = FALSE
  /\ prevRoundTime' = IF firstRound THEN ledgerIDLE_INTERVAL ELSE prevRoundTime
  /\ LET startMode == IF proposing THEN "proposing" ELSE "observing"
         recent == [p \in Peer |-> IF p \in nowUntrusted
                                   THEN <<>> ELSE recentPeerPositions[p]]
     IN \/ /\ startRoundInternal(prevID, prevID, startMode, recent)
           /\ IF prevLedger = prevID THEN UNCHANGED useRoundedCloseTime
                                     ELSE acquireLedger(prevID)
        \/ /\ prevLedger # prevID
           /\ startRoundInternal(prevID, prevLedger, "wrongLedger", recent)
           /\ UNCHANGED useRoundedCloseTime
  /\ UNCHANGED pending

ModeAfterLeaving == IF mode = "proposing" THEN "observing" ELSE mode

\* leaveConsensus: a proposer with a position bows out and says so; the
\* callers set the mode.
leaveConsensus ==
  LET announce == /\ mode = "proposing"
                  /\ haveResult
                  /\ position.seq # seqLeave
  IN /\ position' = IF announce THEN [position EXCEPT !.seq = seqLeave]
                                ELSE position
     /\ sent' = IF announce THEN Append(sent, seqLeave) ELSE sent

-----------------------------------------------------------------------------
(* Disputes *)

SymDiff(S, T) == (S \ T) \cup (T \ S)

\* What a peer is recorded to vote when a dispute over t is created: its
\* position's content, if that set has been acquired.
InitialVote(t, p, curr, acq) ==
  IF curr[p] # NoProposal /\ curr[p].pos \in acq
  THEN Ballot(t \in curr[p].pos)
  ELSE "none"

\* Mutant: a new dispute starts with our vote no.
M_updateDisputes(Ps, S, curr, acq) ==
  LET new == IF S \in compares THEN {} ELSE SymDiff(txns, S) \ disputes
  IN /\ compares' = compares \cup {S}
     /\ disputes' = disputes \cup new
     /\ ourVote' = ourVote
     /\ votes' =
          [t \in Tx |-> [p \in Peer |->
             IF t \notin disputes \cup new THEN votes[t][p]
             ELSE IF p \in Ps THEN Ballot(t \in S)
             ELSE IF t \in new THEN InitialVote(t, p, curr, acq)
             ELSE votes[t][p]]]

\* updateDisputes for every peer in Ps, whose position is the set S: a set
\* not compared before gives rise to disputes (createDisputes), and then
\* every dispute gets the votes of Ps.
updateDisputes(Ps, S, curr, acq) ==
  LET new == IF S \in compares THEN {} ELSE SymDiff(txns, S) \ disputes
  IN /\ compares' = compares \cup {S}
     /\ disputes' = disputes \cup new
     /\ ourVote' = [t \in Tx |-> IF t \in new THEN t \in txns ELSE ourVote[t]]
     /\ votes' =
          [t \in Tx |-> [p \in Peer |->
             IF t \notin disputes \cup new THEN votes[t][p]
             ELSE IF p \in Ps THEN Ballot(t \in S)
             ELSE IF t \in new THEN InitialVote(t, p, curr, acq)
             ELSE votes[t][p]]]

\* The peers whose position is S.
PeersAt(S, curr) == {p \in Peer : curr[p] # NoProposal /\ curr[p].pos = S}

\* Mutant: the peers waiting for the set are not looked up.
M_NewTxSet(S, curr) ==
  /\ acquired' = acquired \cup {S}
  /\ UNCHANGED disputeVars

\* gotTxSet on a set that is new to acquired_.
NewTxSet(S, curr) ==
  /\ acquired' = acquired \cup {S}
  /\ IF haveResult /\ PeersAt(S, curr) # {}
     THEN updateDisputes(PeersAt(S, curr), S, curr, acquired')
     ELSE UNCHANGED disputeVars

-----------------------------------------------------------------------------
(* Peers' proposals and transaction sets *)

\* Mutant: dead nodes are heard again.
M_IgnoredDead(prop) ==
  \/ phase = "accepted"
  \/ prop.prev # prevLedgerID
  \/ /\ currPeerPositions[prop.node] # NoProposal
     /\ prop.seq <= currPeerPositions[prop.node].seq

\* Mutant: a proposal with the same sequence number replaces the position.
M_IgnoredSeq(prop) ==
  \/ phase = "accepted"
  \/ prop.prev # prevLedgerID
  \/ prop.node \in deadNodes
  \/ /\ currPeerPositions[prop.node] # NoProposal
     /\ prop.seq < currPeerPositions[prop.node].seq

\* The early returns of peerProposalInternal.
Ignored(prop) ==
  \/ phase = "accepted"
  \/ prop.prev # prevLedgerID
  \/ prop.node \in deadNodes
  \/ /\ currPeerPositions[prop.node] # NoProposal
     /\ prop.seq <= currPeerPositions[prop.node].seq

PeerBowsOut(peer) ==
  /\ votes' = IF haveResult
              THEN [t \in Tx |-> [votes[t] EXCEPT ![peer] = "none"]]
              ELSE votes
  /\ currPeerPositions' = [currPeerPositions EXCEPT ![peer] = NoProposal]
  /\ deadNodes' = deadNodes \cup {peer}
  /\ UNCHANGED <<disputes, ourVote, compares, acquired, rawCloseTimes>>

\* The position is taken; the set is known, or acquireTxSet returns it at
\* once, or it is requested and gotTxSet will bring it.
PeerTakesPosition(prop) ==
  LET curr == [currPeerPositions EXCEPT ![prop.node] = prop]
  IN /\ currPeerPositions' = curr
     /\ rawCloseTimes' = IF prop.seq = 0
                         THEN [rawCloseTimes EXCEPT ![prop.ct] = @ + 1]
                         ELSE rawCloseTimes
     /\ \/ /\ prop.pos \in acquired
           /\ IF haveResult
              THEN updateDisputes({prop.node}, prop.pos, curr, acquired)
              ELSE UNCHANGED disputeVars
           /\ UNCHANGED acquired
        \/ prop.pos \notin acquired /\ NewTxSet(prop.pos, curr)
        \/ prop.pos \notin acquired /\ UNCHANGED <<acquired, disputeVars>>
     /\ UNCHANGED deadNodes

peerProposalInternal(prop) ==
  \/ Ignored(prop) /\ UNCHANGED <<peerVars, disputeVars>>
  \/ /\ ~Ignored(prop)
     /\ prop.seq = seqLeave
     /\ PeerBowsOut(prop.node)
  \/ /\ ~Ignored(prop)
     /\ prop.seq # seqLeave
     /\ PeerTakesPosition(prop)

\* A proposal arrives: it is stored for later rounds, the oldest one making
\* room, and then applied to this one.
peerProposal(prop) ==
  /\ pc = "idle"
  /\ ~standalone
  /\ Ignored(prop) \/ prop.seq # 0 \/ rawCloseTimes[prop.ct] < MaxReports
  /\ LET props == recentPeerPositions[prop.node]
         kept == IF Len(props) >= MaxRecent THEN Tail(props) ELSE props
     IN recentPeerPositions' =
          [recentPeerPositions EXCEPT ![prop.node] = Append(kept, prop)]
  /\ peerProposalInternal(prop)
  /\ UNCHANGED <<control, round, ourPosition, sent>>

\* Mutant: sets are taken after the ledger is accepted.
M_gotTxSet(S) ==
  /\ pc = "idle"
  /\ ~standalone
  /\ S \notin acquired
  /\ NewTxSet(S, currPeerPositions)
  /\ UNCHANGED <<control, round, ourPosition, recentPeerPositions, sent,
                 currPeerPositions, deadNodes, rawCloseTimes>>

\* A requested transaction set arrives.
gotTxSet(S) ==
  /\ pc = "idle"
  /\ ~standalone
  /\ phase # "accepted"
  /\ S \notin acquired
  /\ NewTxSet(S, currPeerPositions)
  /\ UNCHANGED <<control, round, ourPosition, recentPeerPositions, sent,
                 currPeerPositions, deadNodes, rawCloseTimes>>

-----------------------------------------------------------------------------
(* Closing the ledger *)

AcquireOwn(S) == acquired' = acquired \cup {S}

\* closeLedger: onClose turns the open ledger into our position <<S, ct>>;
\* every acquired position of a peer is compared with it.  The callers set
\* the phase and the round timer.
closeLedger(S, ct) ==
  LET theirs == {currPeerPositions[p].pos : p \in Proposers} \cap acquired'
      differ == UNION {SymDiff(S, T) : T \in theirs}
  IN /\ haveResult' = TRUE
     /\ txns' = S
     /\ position' = [pos |-> S, seq |-> 0, ct |-> ct]
     /\ state' = "No"
     /\ AcquireOwn(S)
     /\ sent' = IF mode = "proposing" THEN Append(sent, 0) ELSE sent
     /\ compares' = theirs
     /\ disputes' = differ
     /\ ourVote' = [t \in Tx |-> t \in differ /\ t \in S]
     /\ votes' = [t \in Tx |-> [p \in Peer |->
                    IF t \in differ
                    THEN InitialVote(t, p, currPeerPositions, acquired')
                    ELSE "none"]]

\* Readings of the clocks that shouldCloseLedger compares with its limits:
\* below and above every one of them, in milliseconds.
SinceCloses == {0, 240000, 600001}
OpenTimes == {0, 600000}

idleInterval ==
  LET twice == 2000 * LedgerInfo[previousLedger].resolution
  IN IF twice > ledgerIDLE_INTERVAL THEN twice ELSE ledgerIDLE_INTERVAL

\* The answers shouldCloseLedger may give now.
CloseDecisions ==
  {shouldCloseLedger(any, prevProposers, Cardinality(Proposers), validated,
                     prevRoundTime, since, open, idleInterval) :
     any \in BOOLEAN, validated \in 0..Cardinality(Peer),
     since \in SinceCloses, open \in OpenTimes}

phaseOpen ==
  /\ phase = "open"
  /\ \/ FALSE \in CloseDecisions /\ UNCHANGED <<phase, ourPosition,
                                                disputeVars, acquired, sent>>
     \/ /\ TRUE \in CloseDecisions
        /\ \E S \in TxSets, ct \in CloseTimes : closeLedger(S, ct)
        /\ phase' = "establish"
        /\ roundTime' = 0
  /\ UNCHANGED <<mode, prevLedgerID, previousLedger, prevProposers,
                 prevRoundTime, currPeerPositions, deadNodes, rawCloseTimes>>

-----------------------------------------------------------------------------
(* Establishing agreement *)

\* closeTimeVotes: the fresh positions' times, and ours while we propose.
closeTimeVotes(curr, proposing) ==
  LET voters == {p \in Peer : curr[p] # NoProposal}
      of(p) == asCloseTime(curr[p].ct)
      ours == asCloseTime(position.ct)
  IN [t \in {of(p) : p \in voters} \cup (IF proposing THEN {ours} ELSE {}) |->
        Cardinality({p \in voters : of(p) = t})
          + (IF proposing /\ ours = t THEN 1 ELSE 0)]

\* consensusCloseTime and haveCloseTimeConsensus_ for the fresh positions.
CloseTimeResult(curr, percent) ==
  LET voters == Cardinality({p \in Peer : curr[p] # NoProposal})
      proposing == mode = "proposing"
      participants == voters + (IF proposing THEN 1 ELSE 0)
      ballot == closeTimeVotes(curr, proposing)
      threshVote == participantsNeeded(participants, NeededWeight(percent))
      threshConsensus == participantsNeeded(participants, avCT_CONSENSUS_PCT)
  IN IF voters = 0
     THEN [time |-> asCloseTime(position.ct), agreed |-> TRUE]
     ELSE [time |-> ConsensusCloseTime(ballot, threshVote),
           agreed |-> HaveCloseTimeConsensus(ballot, threshVote,
                                             threshConsensus)]

\* Mutant: stale peers keep their votes.
M_FreshVotes(stale) == votes

\* The votes that are left when the stale positions are dropped (unVote).
FreshVotes(stale) ==
  [t \in Tx |-> [p \in Peer |-> IF p \in stale THEN "none" ELSE votes[t][p]]]

\* Our vote on each disputed transaction, given the fresh votes.
NewVotes(fresh, percent) ==
  [t \in Tx |->
     IF t \in disputes
     THEN updateVote(Cardinality({p \in Peer : fresh[t][p] = "yes"}),
                     Cardinality({p \in Peer : fresh[t][p] = "no"}),
                     ourVote[t], percent, mode = "proposing")
     ELSE ourVote[t]]

\* Mutant: only a new set gets a new sequence number.
M_NextSeqSame(S) ==
  IF position.seq = seqLeave \/ S = txns THEN position.seq ELSE position.seq + 1

\* changePosition: the sequence number, unless we have bowed out.
NextSeq(S) == IF position.seq = seqLeave THEN seqLeave ELSE position.seq + 1

\* changePosition to the set S, and what follows from a set that is new to
\* acquired_: the peers already there vote with it.
ChangePosition(S, ct, curr, fresh) ==
  LET bowedOut == position.seq = seqLeave
      there == IF S \in acquired THEN {} ELSE PeersAt(S, curr)
  IN /\ bowedOut \/ position.seq < MaxSeq
     /\ txns' = S
     /\ position' = [pos |-> S, ct |-> ct, seq |-> NextSeq(S)]
     /\ AcquireOwn(S)
     /\ compares' = IF there = {} THEN compares ELSE compares \cup {S}
     /\ votes' = [t \in Tx |-> [p \in Peer |->
                    IF t \in disputes /\ p \in there
                    THEN Ballot(t \in S) ELSE fresh[t][p]]]
     /\ sent' = IF ~bowedOut /\ mode = "proposing"
                THEN Append(sent, NextSeq(S)) ELSE sent

\* updateOurPositions: drop stale positions, vote on the disputes, find the
\* close time, and take a new position if anything changed or ours is old.
updateOurPositions(percent, stale, ourStale, curr, ctResult) ==
  LET fresh == FreshVotes(stale)
      new == NewVotes(fresh, percent)
      flipped == {t \in disputes : new[t] # ourVote[t]}
      S == {t \in txns \cup flipped : t \in flipped => new[t]}
  IN /\ currPeerPositions' = curr
     /\ ourVote' = new
     /\ IF \/ flipped # {}
           \/ ctResult.time # asCloseTime(position.ct)
           \/ ourStale
        THEN ChangePosition(S, ctResult.time, curr, fresh)
        ELSE /\ votes' = fresh
             /\ UNCHANGED <<txns, position, acquired, compares, sent>>
     /\ UNCHANGED disputes

\* The outcomes of haveConsensus on the positions as they are after
\* updateOurPositions, one for every number of peers that may be known to
\* have validated a later ledger (proposersFinished).
haveConsensus(rt) ==
  LET current == {p \in Peer : currPeerPositions'[p] # NoProposal}
      agree == {p \in current : currPeerPositions'[p].pos = position'.pos}
  IN {checkConsensus(prevProposers, Cardinality(current), Cardinality(agree),
                     finished, prevRoundTime, rt, mode = "proposing") :
        finished \in 0..Cardinality(Peer)}

\* phaseEstablish after the minimum time: the result is accepted when both
\* the transactions and the close time are agreed.
UpdateAndCheck(rt, stale, ourStale) ==
  LET percent == ConvergePercent(rt, prevRoundTime)
      curr == [p \in Peer |-> IF p \in stale THEN NoProposal
                                             ELSE currPeerPositions[p]]
      ctResult == CloseTimeResult(curr, percent)
  IN /\ updateOurPositions(percent, stale, ourStale, curr, ctResult)
     /\ state' \in haveConsensus(rt)
     /\ IF state' # "No" /\ ctResult.agreed
        THEN /\ phase' = "accepted"
             /\ prevProposers' = Cardinality(Proposers \ stale)
             /\ prevRoundTime' = rt
        ELSE UNCHANGED <<phase, prevProposers, prevRoundTime>>

phaseEstablish ==
  /\ phase = "establish"
  /\ \E rt \in RoundTimes :
       /\ rt >= roundTime
       /\ roundTime' = rt
       /\ \/ /\ rt < ledgerMIN_CONSENSUS
             /\ UNCHANGED <<phase, prevProposers, prevRoundTime, txns,
                            position, state, disputeVars, currPeerPositions,
                            acquired, sent>>
          \/ /\ rt >= ledgerMIN_CONSENSUS
             /\ \E stale \in SUBSET Proposers, ourStale \in BOOLEAN :
                  UpdateAndCheck(rt, stale, ourStale)
  /\ UNCHANGED <<mode, prevLedgerID, previousLedger, haveResult, deadNodes,
                 rawCloseTimes>>

-----------------------------------------------------------------------------
(* The timer and the wrong-ledger handling *)

\* A handler is done: a suspended timerEntry frame continues, or the lock is
\* released.
Return ==
  /\ IF pending > 0
     THEN pc' = "dispatch" /\ pending' = pending - 1
     ELSE pc' = "idle" /\ UNCHANGED pending
  /\ replayPeers' = {}
  /\ replayQueue' = <<>>

\* timerEntry after checkLedger: what the phase calls for.
dispatchPhase ==
  /\ \/ phaseOpen
     \/ phaseEstablish
     \/ phase = "accepted" /\ UNCHANGED <<round, ourPosition, disputeVars,
                                          peerVars, sent>>
  /\ UNCHANGED <<firstRound, useRoundedCloseTime, recentPeerPositions>>

\* The first half of handleWrongLedger when the network's ledger is not even
\* the one we are waiting for: forget the peers and replay their positions.
WaitForLedger(lgrId) ==
  /\ leaveConsensus
  /\ mode' = ModeAfterLeaving
  /\ prevLedgerID' = lgrId
  /\ ClearDisputes
  /\ ClearPeers
  /\ StartPlayback("replayWrong", recentPeerPositions)
  /\ UNCHANGED <<phase, firstRound, previousLedger, prevProposers,
                 prevRoundTime, useRoundedCloseTime, haveResult, txns,
                 roundTime, state, acquired>>

\* The second half: acquireLedger has the ledger and a round starts on it, or
\* it is not there yet and the suspended timerEntry frame continues.
LedgerAcquired ==
  /\ startRoundInternal(prevLedgerID, prevLedgerID, "switchedLedger",
                        recentPeerPositions)
  /\ acquireLedger(prevLedgerID)
  /\ UNCHANGED <<firstRound, prevRoundTime>>

LedgerMissing ==
  /\ mode' = "wrongLedger"
  /\ UNCHANGED <<phase, firstRound, prevLedgerID, previousLedger,
                 prevProposers, prevRoundTime, useRoundedCloseTime,
                 haveResult, txns, roundTime, state, disputeVars, peerVars,
                 recentPeerPositions>>

\* timerEntry: checkLedger asks for the network's ledger and, if it is not
\* the one this round builds on, handles that before the dispatch.
timerBody(netLgr) ==
  \/ /\ netLgr = prevLedgerID
     /\ previousLedger = prevLedgerID
     /\ dispatchPhase
     /\ Return
  \/ /\ netLgr # prevLedgerID
     /\ pending < MaxPending
     /\ WaitForLedger(netLgr)
     /\ pending' = pending + 1
  \/ /\ netLgr = prevLedgerID
     /\ previousLedger # prevLedgerID
     /\ pending < MaxPending
     /\ LedgerAcquired
     /\ pending' = pending + 1
  \/ /\ netLgr = prevLedgerID
     /\ previousLedger # prevLedgerID
     /\ leaveConsensus
     /\ LedgerMissing
     /\ pc' = "dispatch"
     /\ UNCHANGED <<pending, replayPeers, replayQueue>>

timerEntry(netLgr) ==
  /\ pc = "idle"
  /\ ~standalone
  /\ phase # "accepted"
  /\ timerBody(netLgr)

\* A suspended timerEntry frame goes on to its dispatch.
ResumeTimer ==
  /\ pc = "dispatch"
  /\ dispatchPhase
  /\ Return

-----------------------------------------------------------------------------
(* Replaying stored proposals *)

PlaybackPeer(peer) ==
  /\ pc \in {"replayStart", "replayWrong"}
  /\ replayQueue = <<>>
  /\ peer \in replayPeers
  /\ replayPeers' = replayPeers \ {peer}
  /\ replayQueue' = recentPeerPositions[peer]
  /\ UNCHANGED <<pc, pending, round, ourPosition, disputeVars, peerVars,
                 recentPeerPositions, sent>>

PlaybackProposal ==
  /\ pc \in {"replayStart", "replayWrong"}
  /\ replayQueue # <<>>
  /\ replayQueue' = Tail(replayQueue)
  /\ peerProposalInternal(Head(replayQueue))
  /\ UNCHANGED <<pc, pending, replayPeers, round, ourPosition,
                 recentPeerPositions, sent>>

PlaybackDone == replayQueue = <<>> /\ replayPeers = {}

\* The end of startRoundInternal: with enough proposers already here the
\* timer handler runs at once.
FinishStart ==
  /\ pc = "replayStart"
  /\ PlaybackDone
  /\ IF Cardinality(Proposers) > prevProposers \div 2
     THEN \E netLgr \in Ledger : timerBody(netLgr)
     ELSE /\ Return
          /\ UNCHANGED <<round, ourPosition, disputeVars, peerVars,
                         recentPeerPositions, sent>>

\* The rest of handleWrongLedger.
FinishWrongLedger ==
  /\ pc = "replayWrong"
  /\ PlaybackDone
  /\ \/ /\ previousLedger = prevLedgerID
        /\ Return
        /\ UNCHANGED <<round, ourPosition, disputeVars, peerVars,
                       recentPeerPositions, sent>>
     \/ /\ previousLedger # prevLedgerID
        /\ LedgerAcquired
        /\ UNCHANGED pending
     \/ /\ previousLedger # prevLedgerID
        /\ LedgerMissing
        /\ UNCHANGED <<position, sent>>
        /\ Return

-----------------------------------------------------------------------------
(* Standalone mode *)

\* simulate: close the ledger and accept it, without peers or agreement.
simulate(S, ct) ==
  /\ pc = "idle"
  /\ standalone
  /\ phase = "open"
  /\ closeLedger(S, ct)
  /\ \E consensusDelay \in RoundTimes \cup {100} :
       /\ roundTime' = consensusDelay
       /\ prevRoundTime' = consensusDelay
  /\ prevProposers' = Cardinality(Proposers)
  /\ phase' = "accepted"
  /\ UNCHANGED <<control, mode, firstRound, prevLedgerID, previousLedger,
                 useRoundedCloseTime, currPeerPositions, deadNodes,
                 rawCloseTimes, recentPeerPositions>>

-----------------------------------------------------------------------------

Init ==
  /\ pc = "idle"
  /\ pending = 0
  /\ replayPeers = {}
  /\ replayQueue = <<>>
  /\ phase = "accepted"
  /\ mode = "observing"
  /\ firstRound = TRUE
  /\ prevLedgerID \in Ledger
  /\ previousLedger = prevLedgerID
  /\ prevProposers = 0
  /\ prevRoundTime = 0
  /\ useRoundedCloseTime = TRUE
  /\ haveResult = FALSE
  /\ txns = {}
  /\ position = [pos |-> {}, seq |-> 0, ct |-> 0]
  /\ roundTime = 0
  /\ state = "No"
  /\ disputes = {}
  /\ ourVote = [t \in Tx |-> FALSE]
  /\ votes = NoVotes
  /\ compares = {}
  /\ currPeerPositions = [p \in Peer |-> NoProposal]
  /\ deadNodes = {}
  /\ acquired = {}
  /\ rawCloseTimes = [t \in CloseTimes |-> 0]
  /\ recentPeerPositions = [p \in Peer |-> <<>>]
  /\ sent = <<>>
  /\ standalone \in BOOLEAN

StartRound ==
  \E prevID, prevLedger \in Ledger, nowUntrusted \in SUBSET Peer,
     proposing \in BOOLEAN :
    startRound(prevID, prevLedger, nowUntrusted, proposing)

PeerProposal == \E prop \in Proposal : peerProposal(prop)

GotTxSet == \E S \in TxSets : gotTxSet(S)

Timer == \E netLgr \in Ledger : timerEntry(netLgr)

Playback == PlaybackProposal \/ \E peer \in Peer : PlaybackPeer(peer)

Simulate == \E S \in TxSets, ct \in CloseTimes : simulate(S, ct)

Next ==
  /\ \/ StartRound
     \/ PeerProposal
     \/ GotTxSet
     \/ Timer
     \/ ResumeTimer
     \/ Playback
     \/ FinishStart
     \/ FinishWrongLedger
     \/ Simulate
  /\ UNCHANGED standalone

Spec == Init /\ [][Next]_vars

-----------------------------------------------------------------------------
(* Properties *)

\* There is no position while the ledger is open and there is one while it
\* is being established, whatever ledger switches happen in between: the
\* assertions of closeLedger, phaseEstablish and updateOurPositions.
PhaseMatchesResult ==
  /\ phase = "open" => ~haveResult
  /\ phase = "establish" => haveResult

\* Our own set is among the acquired ones and is the one we announce, so a
\* set that gotTxSet adds later is never ours (its assertion).
OwnPositionAcquired ==
  haveResult => txns \in acquired /\ position.pos = txns

\* The vote recorded for a peer on every dispute is the content of the
\* peer's present position, as soon as that set is known: no vote survives
\* a change of position, in whatever order positions and sets arrive.
DisputeVotesCurrent ==
  \A t \in disputes : \A p \in Proposers :
    currPeerPositions[p].pos \in acquired =>
      votes[t][p] = Ballot(t \in currPeerPositions[p].pos)

\* Every transaction on which an acquired position of a peer differs from
\* our set is disputed, so that the vote can bring the sets together.
EveryDifferenceDisputed ==
  haveResult =>
    \A p \in Proposers :
      currPeerPositions[p].pos \in acquired =>
        SymDiff(txns, currPeerPositions[p].pos) \subseteq disputes

\* Our vote on a dispute says whether our set holds the transaction.
OurVoteMatchesSet == \A t \in disputes : ourVote[t] = (t \in txns)

\* Peers that bowed out, went stale or left with a ledger switch have no
\* vote left in any dispute.
NoVoteWithoutPosition ==
  \A t \in Tx : \A p \in Peer : votes[t][p] # "none" => p \in Proposers

\* The votes on the disputes are those of the positions held now: no vote
\* survives a change of position or a peer that bowed out, went stale or left
\* with a ledger switch, in whatever order positions and sets arrive.
VotesFollowPositions == DisputeVotesCurrent /\ NoVoteWithoutPosition

\* Our set, the one we announce and our votes on the disputes agree, and our
\* set is acquired: a set that gotTxSet adds later is never ours (the
\* assertions of gotTxSet and updateOurPositions).
OwnSetExact == OwnPositionAcquired /\ OurVoteMatchesSet

\* A peer that bowed out holds no position for the rest of the round, and
\* the positions that count all build on the ledger this round is for.
PositionsBelongToRound ==
  \A p \in Proposers : p \notin deadNodes
                         /\ currPeerPositions[p].prev = prevLedgerID

\* The mode wrongLedger says that the right ledger is missing: "We have the
\* wrong ledger and are attempting to acquire it" (ConsensusTypes.h).
WrongLedgerMeansMissing ==
  pc = "idle" /\ mode = "wrongLedger" => previousLedger # prevLedgerID

\* We only propose on the ledger that the network prefers and we have.
ProposingOnOwnLedger == mode = "proposing" => previousLedger = prevLedgerID

\* A round keeps its shape through every nesting of timer, replay and ledger
\* switch: a position exactly when the phase has one, and proposals only on
\* the ledger the network prefers (the assertions on result_).
RoundConsistent == PhaseMatchesResult /\ ProposingOnOwnLedger

\* The sequence numbers we broadcast in a round strictly increase, and
\* nothing follows a bow-out (seqLeave, the largest number).
OwnProposalsAdvance ==
  \A i, j \in DOMAIN sent : i < j => sent[i] < sent[j]

\* A networked round ends only as checkConsensus allows: with the outcome
\* Yes, four fifths of the participants hold exactly the set we accepted.
AcceptedByConsensus ==
  phase = "accepted" /\ haveResult /\ ~standalone =>
    /\ state # "No"
    /\ state = "Yes" =>
         checkConsensusReached(Cardinality(PeersAt(txns, currPeerPositions)),
                               Cardinality(Proposers), mode = "proposing")

\* With rounded close times the accepted time has the votes of three
\* quarters of the participants, our own final vote included.
AcceptedCloseTimeAgreed ==
  /\ phase = "accepted"
  /\ haveResult
  /\ ~standalone
  /\ useRoundedCloseTime
  /\ Proposers # {}
  => LET ballot == closeTimeVotes(currPeerPositions, mode = "proposing")
         participants == Cardinality(Proposers)
                           + (IF mode = "proposing" THEN 1 ELSE 0)
         time == asCloseTime(position.ct)
     IN /\ time \in DOMAIN ballot
        /\ ballot[time] >= participantsNeeded(participants,
                                              avCT_CONSENSUS_PCT)

\* Once accepted, the result and all that was handed to onAccept by
\* reference stay as they are until the next startRound: the job that
\* builds the ledger reads them without a lock (RCLConsensus.cpp onAccept).
AcceptedFrozen ==
  [][phase = "accepted" =>
       \/ phase' = "open"
       \/ UNCHANGED <<phase, ourPosition, disputeVars, previousLedger, mode,
                      rawCloseTimes>>]_vars

\* A peer's position is only ever replaced by a later one: replays and
\* reordered messages cannot bring an old position back.
PeerPositionsAdvance ==
  [][\A p \in Peer :
       \/ currPeerPositions[p] = NoProposal
       \/ currPeerPositions'[p] = NoProposal
       \/ currPeerPositions'[p] = currPeerPositions[p]
       \/ currPeerPositions'[p].seq > currPeerPositions[p].seq]_vars
===============================================================================
