------------------------------ MODULE Validations ------------------------------
(***************************************************************************)
(* The store of validations a node keeps (consensus/Validations.h), with   *)
(* what drives it: handleNewValidation on the job queue's threads and the  *)
(* trust update at the start of a consensus round.  Every method runs      *)
(* under mutex_, so an action is one method; reading the signer's trust    *)
(* and adding the validation are two steps, as are updating the list of    *)
(* trusted validators and telling this store.                              *)
(*                                                                         *)
(* A ledger has one sequence number, LedgerSeq[l], which its validations   *)
(* report, so the key (seq, id) of acquiring_ is the ledger.  The ancestry *)
(* trie is the bag of ledgers that LedgerTrie implements (LedgerSupport).  *)
(* A validation is without its signature, its load fee and the full flag,  *)
(* which only select what the read-only queries report.                    *)
(***************************************************************************)
EXTENDS Integers, FiniteSets

CONSTANTS
    NodeID, Ledger,
    LedgerSeq,       \* the sequence number of each ledger
    NoLedger, NoValidation,
    validationCURRENT_WALL, validationCURRENT_LOCAL, validationCURRENT_EARLY,
    validationSET_EXPIRES,
    Remote,          \* the ledgers that may be missing from the node
    TrustSets,       \* the sets of validators that may be trusted
    LocalSeqs,       \* the sequence numbers this node may try to validate
    ShutsDown,       \* whether the server may be stopped
    MaxPending,      \* bound on the validations being handled at once
    MaxTime,         \* bound on the clock
    MaxSkew          \* bound on the offset of the network close time

Validation ==
    [ledgerID : Ledger, signTime : Nat, seenTime : Nat, trusted : BOOLEAN]

ASSUME ValidationsAssumption ==
    /\ IsFiniteSet(NodeID)
    /\ LedgerSeq \in [Ledger -> Nat]
    /\ Remote \subseteq Ledger
    /\ TrustSets \subseteq SUBSET NodeID /\ LocalSeqs \subseteq Nat
    /\ NoLedger \notin Ledger
    /\ NoValidation \notin Validation
    /\ validationCURRENT_WALL \in Nat
    /\ validationCURRENT_LOCAL \in Nat
    /\ validationCURRENT_EARLY \in Nat
    /\ validationSET_EXPIRES \in Nat
    /\ ShutsDown \in BOOLEAN
    /\ MaxPending \in Nat /\ MaxTime \in Nat /\ MaxSkew \in Nat

\* A validation is current for less than validationCURRENT_WALL +
\* validationCURRENT_EARLY (480 s), and its sequence number is remembered for
\* validationSET_EXPIRES (600 s), which leaves 120 s for the close time offset
\* to change in.
ASSUME WindowAssumption ==
    validationCURRENT_WALL + validationCURRENT_EARLY + MaxSkew
        <= validationSET_EXPIRES

VARIABLES
    \* the store
    current_, seqEnforcers_, localSeqEnforcer_,
    byLedger_, touched,   \* touched: the last use of each set of byLedger_
    trie_, lastLedger_, acquiring_,
    \* what it depends on
    steady, skew,         \* the steady clock; network time is steady + skew
    trusted,              \* the trusted validators (ValidatorList)
    changes,              \* the trust changes this store has not heard of
    pending,              \* validations between the trust lookup and add
    available,            \* the ledgers adaptor_.acquire finds
    \* history
    stale,                \* validations handed to adaptor_.onStale or flush
    detached              \* nodes whose support need not follow current_:
                          \* a validation was added with outdated trust, or
                          \* the store was flushed

clocks == <<steady, skew>>
store == <<current_, byLedger_>>
support == <<trie_, lastLedger_, acquiring_>>
trust == <<trusted, changes>>

vars == <<current_, seqEnforcers_, localSeqEnforcer_, byLedger_, touched,
          trie_, lastLedger_, acquiring_, steady, skew, trusted, changes,
          pending, available, stale, detached>>

MaybeLedger == Ledger \cup {NoLedger}
MaybeValidation == Validation \cup {NoValidation}

netNow == steady + skew

\* What this store has been told about trust.
applied == (trusted \ changes.added) \cup changes.removed

\* The identity of a validation, which outlives its trust.
Issued(n, v) == [node |-> n, ledgerID |-> v.ledgerID, signTime |-> v.signTime]

\* onStale and flush: the current validations of the nodes ns are handed to the
\* adaptor.
HandedOver(ns) == {Issued(n, current_[n]) : n \in ns}

-------------------------------------------------------------------------------
(* Helpers. *)

\* isCurrent.  A seenTime of zero is no seen time.
isCurrent(now, v) ==
    /\ v.signTime > now - validationCURRENT_EARLY
    /\ v.signTime < now + validationCURRENT_WALL
    /\ v.seenTime = 0 \/ v.seenTime < now + validationCURRENT_LOCAL

\* Mutant: sequence numbers expire with the validations.
M_inForce(e) == IF steady > e.when + validationCURRENT_EARLY THEN 0 ELSE e.seq

\* SeqEnforcer: the largest sequence number still in force, whether s is
\* beyond it, and the enforcer after the attempt.
inForce(e) == IF steady > e.when + validationSET_EXPIRES THEN 0 ELSE e.seq
\* Mutant: the last sequence number may be validated again.
M_permits(e, s) == s >= inForce(e)

permits(e, s) == s > inForce(e)
enforced(e, s) ==
    IF permits(e, s) THEN [seq |-> s, when |-> steady]
                     ELSE [e EXCEPT !.seq = inForce(e)]

\* The trie, lastLedger_ and acquiring_ go together, in a record T.
Support == [trie |-> trie_, last |-> lastLedger_, acq |-> acquiring_]

\* Support of the nodes ns is taken from the ledgers that last gives them.
withdrawn(trie, last, ns) ==
    [l \in Ledger |-> trie[l] - Cardinality({n \in ns : last[n] = l})]
given(trie, last, ns) ==
    [l \in Ledger |-> trie[l] + Cardinality({n \in ns : last[n] = l})]

\* removeTrie for the nodes ns and their validations vals: support is removed
\* only where the last acquired ledger is the one validated.
removeTrie(T, ns, vals) ==
    LET gone == {n \in ns : T.last[n] = vals[n].ledgerID}
    IN  [trie |-> withdrawn(T.trie, T.last, gone),
         last |-> [n \in NodeID |-> IF n \in gone THEN NoLedger ELSE T.last[n]],
         acq  |-> [l \in Ledger |->
                      T.acq[l] \ {n \in ns : vals[n].ledgerID = l}]]

\* Mutant: the support of the ledger the node had before stays.
M_updateTrie(T, ns, to) ==
    [T EXCEPT !.trie = given(T.trie, to, ns),
              !.last = [n \in NodeID |-> IF n \in ns THEN to[n] ELSE T.last[n]]]

\* updateTrie for the nodes ns and the acquired ledgers `to' gives them.
updateTrie(T, ns, to) ==
    [T EXCEPT !.trie = given(withdrawn(T.trie, T.last, ns), to, ns),
              !.last = [n \in NodeID |-> IF n \in ns THEN to[n] ELSE T.last[n]]]

\* checkAcquired: the nodes of every entry whose ledger is now available move
\* to it.  `to' is where the nodes end up when the entries are visited in some
\* order.
ready(T, n) == {l \in available : n \in T.acq[l]}
arrived(T) == {n \in NodeID : ready(T, n) # {}}
arrivals(T) ==
    {to \in [NodeID -> MaybeLedger] :
        \A n \in NodeID : IF n \in arrived(T) THEN to[n] \in ready(T, n)
                                              ELSE to[n] = T.last[n]}
checkAcquired(T, to) ==
    [updateTrie(T, arrived(T), to) EXCEPT
        !.acq = [l \in Ledger |-> IF l \in available THEN {} ELSE T.acq[l]]]

\* The end of updateTrie(nodeID, val, prior), after checkAcquired: the nodes ns
\* get their validated ledger at once, or wait for it.
settle(T, ns, vals) ==
    LET now == {n \in ns : vals[n].ledgerID \in available}
    IN  [updateTrie(T, now, [n \in NodeID |->
                IF n \in now THEN vals[n].ledgerID ELSE NoLedger]) EXCEPT
            !.acq = [l \in Ledger |->
                       T.acq[l] \cup {n \in ns \ now : vals[n].ledgerID = l}]]

SetSupport(T) ==
    /\ trie_' = T.trie
    /\ lastLedger_' = T.last
    /\ acquiring_' = T.acq

-------------------------------------------------------------------------------
Init ==
    /\ current_ = [n \in NodeID |-> NoValidation]
    /\ seqEnforcers_ = [n \in NodeID |-> [seq |-> 0, when |-> 0]]
    /\ localSeqEnforcer_ = [seq |-> 0, when |-> 0]
    /\ byLedger_ = [l \in Ledger |-> [n \in NodeID |-> NoValidation]]
    /\ touched = [l \in Ledger |-> 0]
    /\ trie_ = [l \in Ledger |-> 0]
    /\ lastLedger_ = [n \in NodeID |-> NoLedger]
    /\ acquiring_ = [l \in Ledger |-> {}]
    /\ steady = 1 /\ skew = 0
    /\ trusted \in TrustSets
    /\ changes = [added |-> {}, removed |-> {}]
    /\ pending = [n \in NodeID |-> NoValidation]
    /\ available = Ledger \ Remote
    /\ stale = {}
    /\ detached = {}

\* The overlay: a validation that is current and not yet being handled, with
\* the trust handleNewValidation finds for its signer.
Receive(n, l, signTime) ==
    LET v == [ledgerID |-> l, signTime |-> signTime, seenTime |-> netNow,
              trusted |-> n \in trusted]
    IN  /\ pending[n] = NoValidation
        /\ Cardinality({m \in NodeID : pending[m] # NoValidation}) < MaxPending
        /\ isCurrent(netNow, v)
        /\ pending' = [pending EXCEPT ![n] = v]
        /\ UNCHANGED <<store, seqEnforcers_, localSeqEnforcer_, touched, support,
                       clocks, trust, available, stale, detached>>

\* add: the validation is no longer current.
AddStale(n) ==
    /\ pending[n] # NoValidation
    /\ ~isCurrent(netNow, pending[n])
    /\ pending' = [pending EXCEPT ![n] = NoValidation]
    /\ UNCHANGED <<store, seqEnforcers_, localSeqEnforcer_, touched, support,
                   clocks, trust, available, stale, detached>>

\* The start of add for a current validation: its sequence number is tried.
TryAdd(n) ==
    /\ pending[n] # NoValidation
    /\ isCurrent(netNow, pending[n])
    /\ pending' = [pending EXCEPT ![n] = NoValidation]
    /\ seqEnforcers_' = [seqEnforcers_ EXCEPT
            ![n] = enforced(@, LedgerSeq[pending[n].ledgerID])]
    /\ UNCHANGED <<localSeqEnforcer_, clocks, trust, available>>

Permitted(n) == permits(seqEnforcers_[n], LedgerSeq[pending[n].ledgerID])

AddBadSeq(n) ==
    /\ TryAdd(n)
    /\ ~Permitted(n)
    /\ UNCHANGED <<store, touched, support, stale, detached>>

\* The validation joins the set of its ledger, created if there is none.
Index(n, v) ==
    /\ byLedger_' = [byLedger_ EXCEPT ![v.ledgerID][n] = v]
    /\ touched' = IF \A m \in NodeID : byLedger_[v.ledgerID][m] = NoValidation
                  THEN [touched EXCEPT ![v.ledgerID] = steady] ELSE touched
    /\ detached' = IF v.trusted # (n \in applied)
                   THEN detached \cup {n} ELSE detached

Newer(n) ==
    current_[n] # NoValidation => pending[n].signTime > current_[n].signTime

\* The validation the node is known by was signed no earlier.
AddOutdated(n) ==
    /\ TryAdd(n)
    /\ Permitted(n)
    /\ ~Newer(n)
    /\ Index(n, pending[n])
    /\ UNCHANGED <<current_, support, stale>>

\* Mutant: the prior ledger goes on being acquired for the node.
M_Reflect(n, v) ==
    IF v.trusted
    THEN \E to \in arrivals(Support) :
            SetSupport(settle(checkAcquired(Support, to), {n},
                              [current_ EXCEPT ![n] = v]))
    ELSE UNCHANGED support

\* updateTrie(nodeID, val, prior) for a trusted validation: a prior ledger is
\* not acquired for this node any more.
Reflect(n, v) ==
    LET prior == IF current_[n] = NoValidation THEN NoLedger
                 ELSE current_[n].ledgerID
        T == [Support EXCEPT !.acq = [l \in Ledger |->
                 IF l = prior THEN acquiring_[l] \ {n} ELSE acquiring_[l]]]
    IN  IF v.trusted
        THEN \E to \in arrivals(T) :
                SetSupport(settle(checkAcquired(T, to), {n},
                                  [current_ EXCEPT ![n] = v]))
        ELSE UNCHANGED support

AddCurrent(n) ==
    LET v == pending[n]
    IN  /\ TryAdd(n)
        /\ Permitted(n)
        /\ Newer(n)
        /\ Index(n, v)
        /\ current_' = [current_ EXCEPT ![n] = v]
        /\ stale' = stale \cup
                HandedOver({m \in {n} : current_[m] # NoValidation})
        /\ Reflect(n, v)

\* NetworkOPs::beginConsensus updates the list of trusted validators and then,
\* when something changed, tells this store.
UpdateTrusted(new) ==
    /\ changes.added \cup changes.removed = {}
    /\ new # trusted
    /\ trusted' = new
    /\ changes' = [added |-> new \ trusted, removed |-> trusted \ new]
    /\ UNCHANGED <<store, seqEnforcers_, localSeqEnforcer_, touched, support,
                   clocks, pending, available, stale, detached>>

\* Mutant: validations of removed nodes stay trusted.
M_withTrust(n, v) ==
    IF v # NoValidation /\ n \in changes.added THEN [v EXCEPT !.trusted = TRUE]
    ELSE v

withTrust(n, v) ==
    IF v = NoValidation THEN v
    ELSE IF n \in changes.added THEN [v EXCEPT !.trusted = TRUE]
    ELSE IF n \in changes.removed THEN [v EXCEPT !.trusted = FALSE]
    ELSE v

\* trustChanged visits current_ in some order: the nodes in `early' lose their
\* trust before the first node that gains it, whose updateTrie checks for
\* acquired ledgers.
Retrust ==
    LET present == {n \in NodeID : current_[n] # NoValidation}
        up   == changes.added \cap present
        down == changes.removed \cap present
    IN  \/ /\ up = {}
           /\ SetSupport(removeTrie(Support, down, current_))
        \/ /\ up # {}
           /\ \E early \in SUBSET down :
                LET T == removeTrie(Support, early, current_)
                IN  \E to \in arrivals(T) :
                        SetSupport(settle(removeTrie(checkAcquired(T, to),
                                                     down \ early, current_),
                                          up, current_))

TrustChanged ==
    /\ changes.added \cup changes.removed # {}
    /\ changes' = [added |-> {}, removed |-> {}]
    /\ current_' = [n \in NodeID |-> withTrust(n, current_[n])]
    /\ byLedger_' = [l \in Ledger |->
            [n \in NodeID |-> withTrust(n, byLedger_[l][n])]]
    /\ Retrust
    /\ UNCHANGED <<seqEnforcers_, localSeqEnforcer_, touched, clocks, trusted,
                   pending, available, stale, detached>>

\* current(): validations that have aged out are handed to the adaptor.
Aged == {n \in NodeID :
            current_[n] # NoValidation /\ ~isCurrent(netNow, current_[n])}
Sweep ==
    /\ current_' = [n \in NodeID |->
            IF n \in Aged THEN NoValidation ELSE current_[n]]
    /\ stale' = stale \cup HandedOver(Aged)
    /\ UNCHANGED <<seqEnforcers_, localSeqEnforcer_, byLedger_, touched, clocks,
                   trust, pending, available, detached>>

\* currentTrusted and getCurrentNodeIDs.
Current ==
    /\ Sweep
    /\ SetSupport(removeTrie(Support, Aged, current_))

\* withTrie: getPreferred, getPreferredLCL and getNodesAfter.
WithTrie ==
    LET T == removeTrie(Support, Aged, current_)
    IN  /\ Sweep
        /\ \E to \in arrivals(T) : SetSupport(checkAcquired(T, to))

\* numTrustedForLedger, getTrustedForLedger and fees keep the set they read.
ByLedger(l) ==
    /\ \E n \in NodeID : byLedger_[l][n] # NoValidation
    /\ touched' = [touched EXCEPT ![l] = steady]
    /\ UNCHANGED <<store, seqEnforcers_, localSeqEnforcer_, support, clocks,
                   trust, pending, available, stale, detached>>

CanValidateSeq(s) ==
    /\ localSeqEnforcer_' = enforced(localSeqEnforcer_, s)
    /\ UNCHANGED <<store, seqEnforcers_, touched, support, clocks, trust,
                   pending, available, stale, detached>>

Expire ==
    /\ byLedger_' = [l \in Ledger |->
            IF touched[l] + validationSET_EXPIRES <= steady
            THEN [n \in NodeID |-> NoValidation] ELSE byLedger_[l]]
    /\ UNCHANGED <<current_, seqEnforcers_, localSeqEnforcer_, touched, support,
                   clocks, trust, pending, available, stale, detached>>

\* Mutant: nothing is handed over.
M_Flush ==
    /\ ShutsDown
    /\ current_' = [n \in NodeID |-> NoValidation]
    /\ detached' = NodeID
    /\ UNCHANGED <<seqEnforcers_, localSeqEnforcer_, byLedger_, touched, support,
                   clocks, trust, pending, available, stale>>

\* At shutdown everything current goes to the adaptor; the trie stays.
Flush ==
    /\ ShutsDown
    /\ stale' = stale \cup HandedOver({n \in NodeID :
                                       current_[n] # NoValidation})
    /\ current_' = [n \in NodeID |-> NoValidation]
    /\ detached' = NodeID
    /\ UNCHANGED <<seqEnforcers_, localSeqEnforcer_, byLedger_, touched, support,
                   clocks, trust, pending, available>>

-------------------------------------------------------------------------------
(* The environment: time, and the ledgers the node has at hand. *)

Tick ==
    /\ steady < MaxTime
    /\ steady' = steady + 1
    /\ UNCHANGED <<store, seqEnforcers_, localSeqEnforcer_, touched, support,
                   skew, trust, pending, available, stale, detached>>

AdjustCloseTime(offset) ==
    /\ skew' = offset
    /\ UNCHANGED <<store, seqEnforcers_, localSeqEnforcer_, touched, support,
                   steady, trust, pending, available, stale, detached>>

\* A ledger arrives from the network, or leaves the ledger cache.
LedgerAvailability(l) ==
    /\ available' = IF l \in available THEN available \ {l}
                                       ELSE available \cup {l}
    /\ UNCHANGED <<store, seqEnforcers_, localSeqEnforcer_, touched, support,
                   clocks, trust, pending, stale, detached>>

\* All the signing times that can be current before the clock stops.
SignTimes == 0 .. MaxTime + MaxSkew + validationCURRENT_WALL

Next ==
    \/ \E n \in NodeID :
        \/ \E l \in Ledger, t \in SignTimes : Receive(n, l, t)
        \/ AddStale(n) \/ AddBadSeq(n) \/ AddOutdated(n) \/ AddCurrent(n)
    \/ \E new \in TrustSets : UpdateTrusted(new)
    \/ TrustChanged
    \/ Current \/ WithTrie
    \/ \E l \in Ledger : ByLedger(l)
    \/ \E l \in Remote : LedgerAvailability(l)
    \/ \E s \in LocalSeqs : CanValidateSeq(s)
    \/ Expire \/ Flush \/ Tick
    \/ \E offset \in 0 .. MaxSkew : AdjustCloseTime(offset)

Spec == Init /\ [][Next]_vars

-------------------------------------------------------------------------------
(* Properties. *)

Enforcer == [seq : Nat, when : Nat]

TypeOK ==
    /\ current_ \in [NodeID -> MaybeValidation]
    /\ seqEnforcers_ \in [NodeID -> Enforcer] /\ localSeqEnforcer_ \in Enforcer
    /\ byLedger_ \in [Ledger -> [NodeID -> MaybeValidation]]
    /\ touched \in [Ledger -> Nat]
    /\ trie_ \in [Ledger -> Nat]
    /\ lastLedger_ \in [NodeID -> MaybeLedger]
    /\ acquiring_ \in [Ledger -> SUBSET NodeID]
    /\ steady \in Nat /\ skew \in 0 .. MaxSkew
    /\ trusted \in SUBSET NodeID
    /\ changes \in [added : SUBSET NodeID, removed : SUBSET NodeID]
    /\ pending \in [NodeID -> MaybeValidation]
    /\ available \in SUBSET Ledger
    /\ stale \subseteq [node : NodeID, ledgerID : Ledger, signTime : Nat]
    /\ detached \in SUBSET NodeID

\* The comment on lastLedger_: a node in this map accounts for exactly one
\* unit of support in the trie, and nothing else does, however validations,
\* arriving ledgers, sweeps and trust changes interleave.
TrieCountsLastLedgers ==
    \A l \in Ledger :
        trie_[l] = Cardinality({n \in NodeID : lastLedger_[n] = l})

\* The trust recorded with a validation, in current_ and in the sets that
\* numTrustedForLedger counts for the quorum, is the trust this store was last
\* told of, except for nodes whose validation overtook a trust change.
TrustIsApplied ==
    \A n \in NodeID \ detached :
        /\ current_[n] # NoValidation
              => current_[n].trusted = (n \in applied)
        /\ \A l \in Ledger : byLedger_[l][n] # NoValidation
              => byLedger_[l][n].trusted = (n \in applied)

\* acquiring_ waits exactly for what is needed: a node is in the entry of at
\* most the ledger of its current trusted validation, and a current trusted
\* validation is either reflected by lastLedger_ or waiting there.
AcquiringFollowsCurrent ==
    \A n \in NodeID \ detached :
        /\ \A l \in Ledger : n \in acquiring_[l] =>
              /\ current_[n] # NoValidation
              /\ current_[n].trusted
              /\ current_[n].ledgerID = l
        /\ current_[n] # NoValidation /\ current_[n].trusted =>
              \/ lastLedger_[n] = current_[n].ledgerID
              \/ n \in acquiring_[current_[n].ledgerID]

\* A validation handed to the adaptor to be written does not come back, even if
\* the network delivers it again after the sequence enforcer has expired, so
\* none is written twice.
StaleNeverCurrent ==
    \A n \in NodeID : current_[n] # NoValidation
        => Issued(n, current_[n]) \notin stale

\* The same validator's validations of two ledgers with one sequence number are
\* kept side by side only when they were signed further apart than the slack
\* between the lifetime of a validation and that of the sequence enforcer.
ConflictsFarApart ==
    \A n \in NodeID : \A k, l \in Ledger :
        LET v == byLedger_[k][n]
            w == byLedger_[l][n]
            slack == validationSET_EXPIRES - validationCURRENT_WALL
                        - validationCURRENT_EARLY - MaxSkew
        IN  k # l /\ LedgerSeq[k] = LedgerSeq[l]
                /\ v # NoValidation /\ w # NoValidation
            => \/ v.signTime > w.signTime + slack
               \/ w.signTime > v.signTime + slack

\* Whatever leaves current_ is handed to the adaptor (onStale or flush).
NothingLost ==
    [][\A n \in NodeID : current_[n] # NoValidation =>
        \/ Issued(n, current_[n]) \in stale'
        \/ /\ current_'[n] # NoValidation
           /\ Issued(n, current_'[n]) = Issued(n, current_[n])]_vars

\* The validation a node is known by is only ever replaced by one signed later,
\* with a larger sequence number unless the node's enforcer had expired.
CurrentAdvances ==
    [][\A n \in NodeID :
        LET v == current_[n]
            w == current_'[n]
        IN  /\ v # NoValidation /\ w # NoValidation
            /\ Issued(n, v) # Issued(n, w)
            => /\ w.signTime > v.signTime
               /\ \/ LedgerSeq[w.ledgerID] > LedgerSeq[v.ledgerID]
                  \/ steady > seqEnforcers_[n].when + validationSET_EXPIRES]_vars

-------------------------------------------------------------------------------
(* What comments of the code say and the code does not do. *)

\* withTrie (Validations.h): access through it flushes all stale validations
\* from the trie, so a node without a current validation supports no ledger.
OnlyCurrentSupport ==
    \A n \in NodeID : lastLedger_[n] # NoLedger => current_[n] # NoValidation

===============================================================================
