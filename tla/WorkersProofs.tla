---------------------------- MODULE WorkersProofs ----------------------------
(***************************************************************************)
(* What module Workers guarantees for every number of threads, of tasks    *)
(* and of calls that resize the pool: the type invariant, that a drained   *)
(* pool implements TaskPool, and the number of threads that serve.         *)
(***************************************************************************)
EXTENDS Workers, FiniteSetTheorems, TLAPS

Label == {"none", "exited"} \cup Running

-------------------------------------------------------------------------------
(* Counting threads. *)

Members(f, S) == {v \in Worker : f[v] \in S}

\* The threads are finitely many, and so are those of any kind (the lists of
\* threads in Workers).
LEMMA MembersFinite ==
  ASSUME NEW f, NEW S
  PROVE  /\ IsFiniteSet(Members(f, S))
         /\ Cardinality(Members(f, S)) \in Nat
         /\ Cardinality(Members(f, S)) <= MaxWorkers
<1>1. /\ IsFiniteSet(Worker)
      /\ Cardinality(Worker) = MaxWorkers
  <2>1. MaxWorkers \in Nat
    BY WorkersAssumption
  <2>2. Cardinality(1..MaxWorkers) = IF 1 > MaxWorkers THEN 0 ELSE MaxWorkers - 1 + 1
    BY <2>1, FS_Interval
  <2>3. IsFiniteSet(1..MaxWorkers)
    BY <2>1, FS_Interval
  <2> QED
    BY <2>1, <2>2, <2>3 DEF Worker
<1>2. Members(f, S) \subseteq Worker
  BY DEF Members
<1>3. /\ IsFiniteSet(Members(f, S))
      /\ Cardinality(Members(f, S)) <= Cardinality(Worker)
  BY <1>1, <1>2, FS_Subset
<1>4. Cardinality(Members(f, S)) \in Nat
  BY <1>3, FS_CardinalityType
<1> QED
  BY <1>1, <1>3, <1>4

\* A thread that moves leaves one count and joins another (Worker::run).
LEMMA MembersMove ==
  ASSUME NEW f, f \in [Worker -> Label], NEW w \in Worker, NEW l \in Label,
         NEW g, g \in [Worker -> Label], g[w] = l,
         \A v \in Worker : v # w => g[v] = f[v],
         NEW S
  PROVE  /\ l \in S /\ f[w] \in S =>
              Cardinality(Members(g, S)) = Cardinality(Members(f, S))
         /\ l \in S /\ f[w] \notin S =>
              Cardinality(Members(g, S)) = Cardinality(Members(f, S)) + 1
         /\ l \notin S /\ f[w] \in S =>
              Cardinality(Members(g, S)) = Cardinality(Members(f, S)) - 1
         /\ l \notin S /\ f[w] \notin S =>
              Cardinality(Members(g, S)) = Cardinality(Members(f, S))
<1>f. IsFiniteSet(Members(f, S))
  BY MembersFinite
<1>1. ASSUME l \in S, f[w] \in S
      PROVE  Members(g, S) = Members(f, S)
  BY <1>1 DEF Members
<1>2. ASSUME l \in S, f[w] \notin S
      PROVE  Cardinality(Members(g, S)) = Cardinality(Members(f, S)) + 1
  <2>1. Members(g, S) = Members(f, S) \cup {w}
    BY <1>2 DEF Members
  <2>2. w \notin Members(f, S)
    BY <1>2 DEF Members
  <2>3. Cardinality(Members(f, S) \cup {w}) = Cardinality(Members(f, S)) + 1
    BY <1>f, <2>2, FS_AddElement, Zenon
  <2> QED
    BY <2>1, <2>3, Zenon
<1>3. ASSUME l \notin S, f[w] \in S
      PROVE  Cardinality(Members(g, S)) = Cardinality(Members(f, S)) - 1
  <2>1. Members(g, S) = Members(f, S) \ {w}
    BY <1>3 DEF Members
  <2>2. w \in Members(f, S)
    BY <1>3 DEF Members
  <2>3. Cardinality(Members(f, S) \ {w}) = Cardinality(Members(f, S)) - 1
    BY <1>f, <2>2, FS_RemoveElement, Zenon
  <2> QED
    BY <2>1, <2>3, Zenon
<1>4. ASSUME l \notin S, f[w] \notin S
      PROVE  Members(g, S) = Members(f, S)
  BY <1>4 DEF Members
<1> QED
  BY <1>1, <1>2, <1>3, <1>4, Zenon

\* The same for the threads of the pool.
LEMMA PcMove ==
  ASSUME pc \in [Worker -> Label], NEW w \in Worker, NEW l \in Label,
         Goto(w, l), NEW S
  PROVE  /\ l \in S /\ pc[w] \in S =>
              Cardinality(Members(pc', S)) = Cardinality(Members(pc, S))
         /\ l \in S /\ pc[w] \notin S =>
              Cardinality(Members(pc', S)) = Cardinality(Members(pc, S)) + 1
         /\ l \notin S /\ pc[w] \in S =>
              Cardinality(Members(pc', S)) = Cardinality(Members(pc, S)) - 1
         /\ l \notin S /\ pc[w] \notin S =>
              Cardinality(Members(pc', S)) = Cardinality(Members(pc, S))
<1>1. /\ pc' \in [Worker -> Label]
      /\ pc'[w] = l
      /\ \A v \in Worker : v # w => pc'[v] = pc[v]
  BY DEF Goto
<1> QED
  BY <1>1, MembersMove

\* Counts of threads at one place.
LEMMA CountType ==
  ASSUME NEW k
  PROVE  /\ Count(k) = Cardinality(Members(pc, {k}))
         /\ Count(k) \in Nat
         /\ Count(k) <= MaxWorkers
<1>1. At(k) = Members(pc, {k})
  BY DEF At, Members
<1> QED
  BY <1>1, MembersFinite DEF Count

\* A thread that moves changes the counts of the places it leaves and reaches.
LEMMA CountMove ==
  ASSUME pc \in [Worker -> Label], NEW w \in Worker, NEW l \in Label,
         Goto(w, l), NEW k
  PROVE  /\ l = k /\ pc[w] = k => Count(k)' = Count(k)
         /\ l = k /\ pc[w] # k => Count(k)' = Count(k) + 1
         /\ l # k /\ pc[w] = k => Count(k)' = Count(k) - 1
         /\ l # k /\ pc[w] # k => Count(k)' = Count(k)
<1>1. Count(k) = Cardinality(Members(pc, {k}))
  BY CountType
<1>2. Count(k)' = Cardinality(Members(pc', {k}))
  <2>1. At(k)' = Members(pc', {k})
    BY DEF At, Members
  <2> QED
    BY <2>1 DEF Count
<1>3. /\ l \in {k} /\ pc[w] \in {k} =>
           Cardinality(Members(pc', {k})) = Cardinality(Members(pc, {k}))
      /\ l \in {k} /\ pc[w] \notin {k} =>
           Cardinality(Members(pc', {k})) = Cardinality(Members(pc, {k})) + 1
      /\ l \notin {k} /\ pc[w] \in {k} =>
           Cardinality(Members(pc', {k})) = Cardinality(Members(pc, {k})) - 1
      /\ l \notin {k} /\ pc[w] \notin {k} =>
           Cardinality(Members(pc', {k})) = Cardinality(Members(pc, {k}))
  BY PcMove
<1> QED
  BY <1>1, <1>2, <1>3

-------------------------------------------------------------------------------
(* Types. *)

\* Where a thread is counted as active.
Active == {"unpause", "wait", "got", "decrement", "undo", "start", "task",
           "pause", "leave"}

\* The counters count what they are named for, and a thread that was not
\* created does nothing.
CountInv ==
  /\ m_activeCount = Cardinality(Members(pc, Active))
  /\ m_runningTaskCount = Count("task")
  /\ owner = "signal" => amount > 0
  /\ owner = "joining" => everyone > 0
  /\ owner \notin {"paused", "joining"} =>
       \A w \in Worker : w > everyone => pc[w] = "none"

\* A step of a thread leaves the other threads where they are.
LEMMA RunMoves ==
  ASSUME TypeOK, CountInv, NEW w \in Worker, NEW l \in Label, Goto(w, l),
         pc[w] # "none", UNCHANGED <<everyone, owner, amount>>
  PROVE  /\ pc' \in [Worker -> Label]
         /\ owner' = "signal" => amount' > 0
         /\ owner' = "joining" => everyone' > 0
         /\ owner' \notin {"paused", "joining"} =>
              \A v \in Worker : v > everyone' => pc'[v] = "none"
<1>1. pc \in [Worker -> Label]
  BY DEF TypeOK, Label
<1>2. /\ pc' \in [Worker -> Label]
      /\ \A v \in Worker : v # w => pc'[v] = pc[v]
  BY <1>1 DEF Goto
<1> QED
  BY <1>2 DEF CountInv

\* What the owner's steps leave alone.
LEMMA OwnerCounts ==
  ASSUME CountInv, UNCHANGED <<m_activeCount, m_runningTaskCount, pc>>
  PROVE  /\ m_activeCount' = Cardinality(Members(pc', Active))
         /\ m_runningTaskCount' = Count("task")'
<1>1. Count("task")' = Count("task")
  BY DEF Count, At
<1> QED
  BY <1>1 DEF CountInv

\* The steps of the owner, and addTask, keep the counters.
LEMMA OwnerTypes ==
  ASSUME TypeOK, CountInv,
         \/ addTask \/ Destroy \/ OwnerStep
         \/ \E n \in Worker \cup {0} : setNumberOfThreads(n)
  PROVE  TypeOK' /\ CountInv'
<1> USE WorkersAssumption
<1>1. CASE addTask
  <2>1. TypeOK'
    BY <1>1 DEF TypeOK, CountInv, addTask, Worker, pool, threads
  <2>2. UNCHANGED <<m_activeCount, m_runningTaskCount, pc>>
    BY <1>1 DEF addTask, pool, threads
  <2>3. /\ m_activeCount' = Cardinality(Members(pc', Active))
        /\ m_runningTaskCount' = Count("task")'
    BY <2>2, OwnerCounts
  <2>4. /\ owner' = "signal" => amount' > 0
        /\ owner' = "joining" => everyone' > 0
        /\ owner' \notin {"paused", "joining"} =>
             \A w \in Worker : w > everyone' => pc'[w] = "none"
    BY <1>1 DEF TypeOK, CountInv, addTask, pool, threads
  <2> QED
    BY <2>1, <2>3, <2>4 DEF CountInv
<1>2. CASE Destroy
  <2>1. TypeOK'
    BY <1>2 DEF TypeOK, CountInv, Destroy, resizeTo, Worker, pool, threads
  <2>2. UNCHANGED <<m_activeCount, m_runningTaskCount, pc>>
    BY <1>2 DEF Destroy, pool, threads
  <2>3. /\ m_activeCount' = Cardinality(Members(pc', Active))
        /\ m_runningTaskCount' = Count("task")'
    BY <2>2, OwnerCounts
  <2>4. /\ owner' = "signal" => amount' > 0
        /\ owner' = "joining" => everyone' > 0
        /\ owner' \notin {"paused", "joining"} =>
             \A w \in Worker : w > everyone' => pc'[w] = "none"
    BY <1>2 DEF TypeOK, CountInv, Destroy, resizeTo, pool, threads
  <2> QED
    BY <2>1, <2>3, <2>4 DEF CountInv
<1>3. CASE RequestPause
  <2>1. TypeOK'
    BY <1>3 DEF TypeOK, CountInv, RequestPause, Worker, pool, threads
  <2>2. UNCHANGED <<m_activeCount, m_runningTaskCount, pc>>
    BY <1>3 DEF RequestPause, pool, threads
  <2>3. /\ m_activeCount' = Cardinality(Members(pc', Active))
        /\ m_runningTaskCount' = Count("task")'
    BY <2>2, OwnerCounts
  <2>4. /\ owner' = "signal" => amount' > 0
        /\ owner' = "joining" => everyone' > 0
        /\ owner' \notin {"paused", "joining"} =>
             \A w \in Worker : w > everyone' => pc'[w] = "none"
    BY <1>3 DEF TypeOK, CountInv, RequestPause, pool, threads
  <2> QED
    BY <2>1, <2>3, <2>4 DEF CountInv
<1>4. CASE SignalPause
  <2>1. TypeOK'
    BY <1>4 DEF TypeOK, CountInv, SignalPause, Worker, pool, threads
  <2>2. UNCHANGED <<m_activeCount, m_runningTaskCount, pc>>
    BY <1>4 DEF SignalPause, pool, threads
  <2>3. /\ m_activeCount' = Cardinality(Members(pc', Active))
        /\ m_runningTaskCount' = Count("task")'
    BY <2>2, OwnerCounts
  <2>4. /\ owner' = "signal" => amount' > 0
        /\ owner' = "joining" => everyone' > 0
        /\ owner' \notin {"paused", "joining"} =>
             \A w \in Worker : w > everyone' => pc'[w] = "none"
    BY <1>4 DEF TypeOK, CountInv, SignalPause, pool, threads
  <2> QED
    BY <2>1, <2>3, <2>4 DEF CountInv
<1>5. CASE ResizeDone
  <2>1. TypeOK'
    BY <1>5, Zenon DEF TypeOK, CountInv, ResizeDone, Worker, pool, threads
  <2>2. UNCHANGED <<m_activeCount, m_runningTaskCount, pc>>
    BY <1>5 DEF ResizeDone, pool, threads
  <2>3. /\ m_activeCount' = Cardinality(Members(pc', Active))
        /\ m_runningTaskCount' = Count("task")'
    BY <2>2, OwnerCounts
  <2>4. /\ owner' = "signal" => amount' > 0
        /\ owner' = "joining" => everyone' > 0
        /\ owner' \notin {"paused", "joining"} =>
             \A w \in Worker : w > everyone' => pc'[w] = "none"
    BY <1>5 DEF TypeOK, CountInv, ResizeDone, pool, threads
  <2> QED
    BY <2>1, <2>3, <2>4 DEF CountInv
<1>6. CASE AllPaused
  <2>1. TypeOK'
    BY <1>6 DEF TypeOK, CountInv, AllPaused, Worker, pool, threads
  <2>2. UNCHANGED <<m_activeCount, m_runningTaskCount, pc>>
    BY <1>6 DEF AllPaused, pool, threads
  <2>3. /\ m_activeCount' = Cardinality(Members(pc', Active))
        /\ m_runningTaskCount' = Count("task")'
    BY <2>2, OwnerCounts
  <2>4. /\ owner' = "signal" => amount' > 0
        /\ owner' = "joining" => everyone' > 0
        /\ owner' \notin {"paused", "joining"} =>
             \A w \in Worker : w > everyone' => pc'[w] = "none"
    BY <1>6 DEF TypeOK, CountInv, AllPaused, pool, threads
  <2> QED
    BY <2>1, <2>3, <2>4 DEF CountInv
<1>7. CASE deleteWorker
  <2>1. TypeOK'
    BY <1>7 DEF TypeOK, CountInv, deleteWorker, Worker, pool, threads
  <2>2. UNCHANGED <<m_activeCount, m_runningTaskCount, pc>>
    BY <1>7 DEF deleteWorker, pool, threads
  <2>3. /\ m_activeCount' = Cardinality(Members(pc', Active))
        /\ m_runningTaskCount' = Count("task")'
    BY <2>2, OwnerCounts
  <2>4. /\ owner' = "signal" => amount' > 0
        /\ owner' = "joining" => everyone' > 0
        /\ owner' \notin {"paused", "joining"} =>
             \A w \in Worker : w > everyone' => pc'[w] = "none"
    BY <1>7 DEF TypeOK, CountInv, deleteWorker, pool, threads
  <2> QED
    BY <2>1, <2>3, <2>4 DEF CountInv
<1>8. CASE Joined
  <2>1. TypeOK'
    BY <1>8 DEF TypeOK, CountInv, Joined, Worker, pool, threads
  <2>2. UNCHANGED <<m_activeCount, m_runningTaskCount, pc>>
    BY <1>8 DEF Joined, pool, threads
  <2>3. /\ m_activeCount' = Cardinality(Members(pc', Active))
        /\ m_runningTaskCount' = Count("task")'
    BY <2>2, OwnerCounts
  <2>4. /\ owner' = "signal" => amount' > 0
        /\ owner' = "joining" => everyone' > 0
        /\ owner' \notin {"paused", "joining"} =>
             \A w \in Worker : w > everyone' => pc'[w] = "none"
    BY <1>8 DEF TypeOK, CountInv, Joined, pool, threads
  <2> QED
    BY <2>1, <2>3, <2>4 DEF CountInv
<1>9. ASSUME NEW n \in Worker \cup {0}, setNumberOfThreads(n)
      PROVE  TypeOK' /\ CountInv'
  <2>1. TypeOK'
    BY <1>9 DEF TypeOK, setNumberOfThreads, resizeTo, Worker, pool, threads
  <2>2. UNCHANGED <<m_activeCount, m_runningTaskCount, pc>>
    BY <1>9 DEF setNumberOfThreads, pool, threads
  <2>3. /\ m_activeCount' = Cardinality(Members(pc', Active))
        /\ m_runningTaskCount' = Count("task")'
    BY <2>2, OwnerCounts
  <2>4. /\ owner' = "signal" => amount' > 0
        /\ owner' = "joining" => everyone' > 0
        /\ owner' \notin {"paused", "joining"} =>
             \A w \in Worker : w > everyone' => pc'[w] = "none"
    BY <1>9 DEF CountInv, setNumberOfThreads, resizeTo, pool, threads
  <2> QED
    BY <2>1, <2>3, <2>4 DEF CountInv
<1>10. CASE AddThread
  <2>1. CASE m_paused # << >>
    <3>1. TypeOK'
      <4>1. Head(m_paused) \in Worker /\ Tail(m_paused) \in Seq(Worker)
        BY <2>1 DEF TypeOK
      <4>2. wakeCount_' = [wakeCount_ EXCEPT ![Head(m_paused)] = @ + 1]
        BY <1>10, <2>1 DEF AddThread
      <4>3. wakeCount_' \in [Worker -> Nat]
        BY <4>1, <4>2 DEF TypeOK
      <4>4. m_paused' \in Seq(Worker)
        BY <1>10, <2>1, <4>1 DEF AddThread
      <4>5. UNCHANGED <<semaphore, m_numberOfThreads, m_activeCount,
                        m_pauseCount, m_runningTaskCount, m_allPaused,
                        everyone, pc, shouldExit_, owner, destroying, target,
                        tasks, resizes>>
        BY <1>10, <2>1 DEF AddThread
      <4>6. amount' \in 0..MaxWorkers
        BY <1>10 DEF TypeOK, AddThread
      <4> QED
        BY <4>3, <4>4, <4>5, <4>6 DEF TypeOK
    <3>2. UNCHANGED <<m_activeCount, m_runningTaskCount, pc>>
      BY <1>10, <2>1 DEF AddThread
    <3>3. /\ m_activeCount' = Cardinality(Members(pc', Active))
          /\ m_runningTaskCount' = Count("task")'
      BY <3>2, OwnerCounts
    <3>4. /\ owner' = "signal" => amount' > 0
          /\ owner' = "joining" => everyone' > 0
          /\ owner' \notin {"paused", "joining"} =>
               \A w \in Worker : w > everyone' => pc'[w] = "none"
      BY <1>10, <2>1 DEF CountInv, AddThread
    <3> QED
      BY <3>1, <3>3, <3>4 DEF CountInv
  <2>2. CASE m_paused = << >>
    <3> DEFINE w == everyone + 1
    <3>1. w \in Worker /\ everyone' = w /\ owner = "grow" /\ owner' = owner
      BY <1>10, <2>2 DEF TypeOK, AddThread, Worker
    <3>2. pc[w] = "none"
      BY <3>1 DEF CountInv, TypeOK
    <3>3. Goto(w, "enter")
      BY <1>10, <2>2 DEF AddThread, Goto
    <3>4. pc \in [Worker -> Label] /\ "enter" \in Label
      BY DEF TypeOK, Label, Running
    <3>5. /\ pc' \in [Worker -> Label]
          /\ \A v \in Worker : v # w => pc'[v] = pc[v]
      BY <3>3, <3>4, <3>1 DEF Goto
    <3> HIDE DEF w
    <3>6. Cardinality(Members(pc', Active)) = Cardinality(Members(pc, Active))
      BY <3>1, <3>2, <3>3, <3>4, PcMove, ZenonT(30) DEF Active
    <3>7. Count("task")' = Count("task")
      BY <3>1, <3>2, <3>3, <3>4, CountMove, Zenon
    <3>8. TypeOK'
      BY <1>10, <2>2, <3>1, <3>5 DEF TypeOK, AddThread, Label, Worker
    <3>9. UNCHANGED <<m_activeCount, m_runningTaskCount>>
      BY <1>10 DEF AddThread
    <3>10. \A v \in Worker : v > everyone' => pc'[v] = "none"
      <4>1. everyone' = everyone + 1 /\ everyone \in Nat
        BY <3>1 DEF w, TypeOK
      <4> QED
        BY <4>1, <3>1, <3>5 DEF CountInv, Worker
    <3> QED
      BY <3>1, <3>6, <3>7, <3>8, <3>9, <3>10 DEF CountInv
  <2> QED
    BY <2>1, <2>2
<1> QED
  BY <1>1, <1>2, <1>3, <1>4, <1>5, <1>6, <1>7, <1>8, <1>9, <1>10, Zenon DEF OwnerStep

\* The steps of a thread keep the counters.
LEMMA RunTypes ==
  ASSUME TypeOK, CountInv, NEW w \in Worker, run(w)
  PROVE  TypeOK' /\ CountInv'
<1>p. pc \in [Worker -> Label]
  BY DEF TypeOK, Label
<1>n. /\ Cardinality(Members(pc', Active)) \in 0..MaxWorkers
      /\ Count("task")' \in 0..MaxWorkers
  <2>1. /\ Cardinality(Members(pc', Active)) \in Nat
        /\ Cardinality(Members(pc', Active)) <= MaxWorkers
    BY MembersFinite
  <2>2. /\ Cardinality(Members(pc', {"task"})) \in Nat
        /\ Cardinality(Members(pc', {"task"})) <= MaxWorkers
    BY MembersFinite
  <2>3. At("task")' = Members(pc', {"task"})
    BY DEF At, Members
  <2>4. Count("task")' = Cardinality(Members(pc', {"task"}))
    BY <2>3 DEF Count
  <2> QED
    BY <2>1, <2>2, <2>4, WorkersAssumption
<1>m. m_activeCount \in Int /\ m_runningTaskCount \in Int
  BY WorkersAssumption DEF TypeOK
<1>1. CASE Enter(w)
  <2>1. PICK l \in {"unpause", "wait"} : Goto(w, l)
    BY <1>1 DEF Enter
  <2>2. /\ l \in Label
        /\ pc[w] # "none"
        /\ UNCHANGED <<everyone, owner, amount>>
    BY <1>1 DEF Enter, Label, Running, callers, pool
  <2>3. Cardinality(Members(pc', Active)) = Cardinality(Members(pc, Active)) + 1
    BY <1>1, <1>p, <2>1, <2>2, PcMove DEF Enter, Active
  <2>4. Count("task")' = Count("task")
    BY <1>1, <1>p, <2>1, <2>2, CountMove DEF Enter
  <2>5. /\ pc' \in [Worker -> Label]
        /\ owner' = "signal" => amount' > 0
        /\ owner' = "joining" => everyone' > 0
        /\ owner' \notin {"paused", "joining"} =>
             \A v \in Worker : v > everyone' => pc'[v] = "none"
    BY <2>1, <2>2, RunMoves
  <2>6. /\ m_activeCount' = Cardinality(Members(pc', Active))
        /\ m_runningTaskCount' = Count("task")'
    BY <1>1, <2>3, <2>4, Zenon DEF Enter, CountInv, pool
  <2>7. TypeOK'
    BY <1>1, <1>n, <2>5, <2>6, Zenon DEF TypeOK, Enter, Label, pool, callers
  <2> QED
    BY <2>5, <2>6, <2>7 DEF CountInv
<1>2. CASE ClearAllPaused(w)
  <2>1. PICK l \in {"wait"} : Goto(w, l)
    BY <1>2 DEF ClearAllPaused
  <2>2. /\ l \in Label
        /\ pc[w] # "none"
        /\ UNCHANGED <<everyone, owner, amount>>
    BY <1>2 DEF ClearAllPaused, Label, Running, callers, pool
  <2>3. Cardinality(Members(pc', Active)) = Cardinality(Members(pc, Active))
    BY <1>2, <1>p, <2>1, <2>2, PcMove DEF ClearAllPaused, Active
  <2>4. Count("task")' = Count("task")
    BY <1>2, <1>p, <2>1, <2>2, CountMove DEF ClearAllPaused
  <2>5. /\ pc' \in [Worker -> Label]
        /\ owner' = "signal" => amount' > 0
        /\ owner' = "joining" => everyone' > 0
        /\ owner' \notin {"paused", "joining"} =>
             \A v \in Worker : v > everyone' => pc'[v] = "none"
    BY <2>1, <2>2, RunMoves
  <2>6. /\ m_activeCount' = Cardinality(Members(pc', Active))
        /\ m_runningTaskCount' = Count("task")'
    BY <1>2, <2>3, <2>4 DEF ClearAllPaused, CountInv, pool
  <2>7. TypeOK'
    BY <1>2, <1>n, <2>5, <2>6, Zenon
       DEF TypeOK, ClearAllPaused, Label, pool, callers
  <2> QED
    BY <2>5, <2>6, <2>7 DEF CountInv
<1>3. CASE Wait(w)
  <2>1. PICK l \in {"got"} : Goto(w, l)
    BY <1>3 DEF Wait
  <2>2. /\ l \in Label
        /\ pc[w] # "none"
        /\ UNCHANGED <<everyone, owner, amount>>
    BY <1>3 DEF Wait, Label, Running, callers, pool
  <2>3. Cardinality(Members(pc', Active)) = Cardinality(Members(pc, Active))
    BY <1>3, <1>p, <2>1, <2>2, PcMove DEF Wait, Active
  <2>4. Count("task")' = Count("task")
    BY <1>3, <1>p, <2>1, <2>2, CountMove DEF Wait
  <2>5. /\ pc' \in [Worker -> Label]
        /\ owner' = "signal" => amount' > 0
        /\ owner' = "joining" => everyone' > 0
        /\ owner' \notin {"paused", "joining"} =>
             \A v \in Worker : v > everyone' => pc'[v] = "none"
    BY <2>1, <2>2, RunMoves
  <2>6. /\ m_activeCount' = Cardinality(Members(pc', Active))
        /\ m_runningTaskCount' = Count("task")'
    BY <1>3, <2>3, <2>4, Zenon DEF Wait, CountInv, pool
  <2>7. TypeOK'
    BY <1>3, <1>n, <2>5, <2>6 DEF TypeOK, Wait, Label, pool, callers
  <2> QED
    BY <2>5, <2>6, <2>7 DEF CountInv
<1>4. CASE LoadPauseCount(w)
  <2>1. PICK l \in {"decrement", "start"} : Goto(w, l)
    BY <1>4 DEF LoadPauseCount
  <2>2. /\ l \in Label
        /\ pc[w] # "none"
        /\ UNCHANGED <<everyone, owner, amount>>
    BY <1>4 DEF LoadPauseCount, Label, Running, callers, pool
  <2>3. Cardinality(Members(pc', Active)) = Cardinality(Members(pc, Active))
    BY <1>4, <1>p, <2>1, <2>2, PcMove DEF LoadPauseCount, Active
  <2>4. Count("task")' = Count("task")
    BY <1>4, <1>p, <2>1, <2>2, CountMove DEF LoadPauseCount
  <2>5. /\ pc' \in [Worker -> Label]
        /\ owner' = "signal" => amount' > 0
        /\ owner' = "joining" => everyone' > 0
        /\ owner' \notin {"paused", "joining"} =>
             \A v \in Worker : v > everyone' => pc'[v] = "none"
    BY <2>1, <2>2, RunMoves
  <2>6. /\ m_activeCount' = Cardinality(Members(pc', Active))
        /\ m_runningTaskCount' = Count("task")'
    BY <1>4, <2>3, <2>4 DEF LoadPauseCount, CountInv, pool
  <2>7. TypeOK'
    BY <1>4, <1>n, <2>5, <2>6, Zenon DEF TypeOK, LoadPauseCount, Label, pool, callers
  <2> QED
    BY <2>5, <2>6, <2>7 DEF CountInv
<1>5. CASE Decrement(w)
  <2>1. PICK l \in {"pause", "undo"} : Goto(w, l)
    BY <1>5 DEF Decrement
  <2>2. /\ l \in Label
        /\ pc[w] # "none"
        /\ UNCHANGED <<everyone, owner, amount>>
    BY <1>5 DEF Decrement, Label, Running, callers, pool
  <2>3. Cardinality(Members(pc', Active)) = Cardinality(Members(pc, Active))
    BY <1>5, <1>p, <2>1, <2>2, PcMove DEF Decrement, Active
  <2>4. Count("task")' = Count("task")
    BY <1>5, <1>p, <2>1, <2>2, CountMove DEF Decrement
  <2>5. /\ pc' \in [Worker -> Label]
        /\ owner' = "signal" => amount' > 0
        /\ owner' = "joining" => everyone' > 0
        /\ owner' \notin {"paused", "joining"} =>
             \A v \in Worker : v > everyone' => pc'[v] = "none"
    BY <2>1, <2>2, RunMoves
  <2>6. /\ m_activeCount' = Cardinality(Members(pc', Active))
        /\ m_runningTaskCount' = Count("task")'
    BY <1>5, <2>3, <2>4, Zenon DEF Decrement, CountInv, pool
  <2>7. TypeOK'
    BY <1>5, <1>n, <2>5, <2>6 DEF TypeOK, Decrement, Label, pool, callers
  <2> QED
    BY <2>5, <2>6, <2>7 DEF CountInv
<1>6. CASE Undo(w)
  <2>1. PICK l \in {"start"} : Goto(w, l)
    BY <1>6 DEF Undo
  <2>2. /\ l \in Label
        /\ pc[w] # "none"
        /\ UNCHANGED <<everyone, owner, amount>>
    BY <1>6 DEF Undo, Label, Running, callers, pool
  <2>3. Cardinality(Members(pc', Active)) = Cardinality(Members(pc, Active))
    BY <1>6, <1>p, <2>1, <2>2, PcMove DEF Undo, Active
  <2>4. Count("task")' = Count("task")
    BY <1>6, <1>p, <2>1, <2>2, CountMove DEF Undo
  <2>5. /\ pc' \in [Worker -> Label]
        /\ owner' = "signal" => amount' > 0
        /\ owner' = "joining" => everyone' > 0
        /\ owner' \notin {"paused", "joining"} =>
             \A v \in Worker : v > everyone' => pc'[v] = "none"
    BY <2>1, <2>2, RunMoves
  <2>6. /\ m_activeCount' = Cardinality(Members(pc', Active))
        /\ m_runningTaskCount' = Count("task")'
    BY <1>6, <2>3, <2>4 DEF Undo, CountInv, pool
  <2>7. TypeOK'
    BY <1>6, <1>n, <2>5, <2>6 DEF TypeOK, Undo, Label, pool, callers
  <2> QED
    BY <2>5, <2>6, <2>7 DEF CountInv
<1>7. CASE StartTask(w)
  <2>1. PICK l \in {"task"} : Goto(w, l)
    BY <1>7 DEF StartTask
  <2>2. /\ l \in Label
        /\ pc[w] # "none"
        /\ UNCHANGED <<everyone, owner, amount>>
    BY <1>7 DEF StartTask, Label, Running, callers, pool
  <2>3. Cardinality(Members(pc', Active)) = Cardinality(Members(pc, Active))
    BY <1>7, <1>p, <2>1, <2>2, PcMove, ZenonT(30) DEF StartTask, Active
  <2>4. Count("task")' = Count("task") + 1
    BY <1>7, <1>p, <2>1, <2>2, CountMove, Zenon DEF StartTask
  <2>5. /\ pc' \in [Worker -> Label]
        /\ owner' = "signal" => amount' > 0
        /\ owner' = "joining" => everyone' > 0
        /\ owner' \notin {"paused", "joining"} =>
             \A v \in Worker : v > everyone' => pc'[v] = "none"
    BY <2>1, <2>2, RunMoves
  <2>6. /\ m_activeCount' = Cardinality(Members(pc', Active))
        /\ m_runningTaskCount' = Count("task")'
    BY <1>7, <2>3, <2>4, Zenon DEF StartTask, CountInv, pool
  <2>7. TypeOK'
    BY <1>7, <1>n, <2>5, <2>6, Zenon DEF TypeOK, StartTask, Label, pool, callers
  <2> QED
    BY <2>5, <2>6, <2>7 DEF CountInv
<1>8. CASE FinishTask(w)
  <2>1. PICK l \in {"wait"} : Goto(w, l)
    BY <1>8 DEF FinishTask
  <2>2. /\ l \in Label
        /\ pc[w] # "none"
        /\ UNCHANGED <<everyone, owner, amount>>
    BY <1>8 DEF FinishTask, Label, Running, callers, pool
  <2>3. Cardinality(Members(pc', Active)) = Cardinality(Members(pc, Active))
    BY <1>8, <1>p, <2>1, <2>2, PcMove DEF FinishTask, Active
  <2>4. Count("task")' = Count("task") - 1
    BY <1>8, <1>p, <2>1, <2>2, CountMove, Zenon DEF FinishTask
  <2>5. /\ pc' \in [Worker -> Label]
        /\ owner' = "signal" => amount' > 0
        /\ owner' = "joining" => everyone' > 0
        /\ owner' \notin {"paused", "joining"} =>
             \A v \in Worker : v > everyone' => pc'[v] = "none"
    BY <2>1, <2>2, RunMoves
  <2>6. /\ m_activeCount' = Cardinality(Members(pc', Active))
        /\ m_runningTaskCount' = Count("task")'
    BY <1>8, <2>3, <2>4, Zenon DEF FinishTask, CountInv, pool
  <2>7. TypeOK'
    BY <1>8, <1>n, <2>5, <2>6, Zenon DEF TypeOK, FinishTask, Label, pool, callers
  <2> QED
    BY <2>5, <2>6, <2>7 DEF CountInv
<1>9. CASE PushPaused(w)
  <2>1. PICK l \in {"leave"} : Goto(w, l)
    BY <1>9 DEF PushPaused
  <2>2. /\ l \in Label
        /\ pc[w] # "none"
        /\ UNCHANGED <<everyone, owner, amount>>
    BY <1>9 DEF PushPaused, Label, Running, callers, pool
  <2>3. Cardinality(Members(pc', Active)) = Cardinality(Members(pc, Active))
    BY <1>9, <1>p, <2>1, <2>2, PcMove DEF PushPaused, Active
  <2>4. Count("task")' = Count("task")
    BY <1>9, <1>p, <2>1, <2>2, CountMove DEF PushPaused
  <2>5. /\ pc' \in [Worker -> Label]
        /\ owner' = "signal" => amount' > 0
        /\ owner' = "joining" => everyone' > 0
        /\ owner' \notin {"paused", "joining"} =>
             \A v \in Worker : v > everyone' => pc'[v] = "none"
    BY <2>1, <2>2, RunMoves
  <2>6. /\ m_activeCount' = Cardinality(Members(pc', Active))
        /\ m_runningTaskCount' = Count("task")'
    BY <1>9, <2>3, <2>4, Zenon DEF PushPaused, CountInv, pool
  <2>7. TypeOK'
    BY <1>9, <1>n, <2>5, <2>6 DEF TypeOK, PushPaused, Label, pool, callers
  <2> QED
    BY <2>5, <2>6, <2>7 DEF CountInv
<1>10. CASE Leave(w)
  <2>1. PICK l \in {"signal", "sleep"} : Goto(w, l)
    BY <1>10 DEF Leave
  <2>2. /\ l \in Label
        /\ pc[w] # "none"
        /\ UNCHANGED <<everyone, owner, amount>>
    BY <1>10 DEF Leave, Label, Running, callers, pool
  <2>3. Cardinality(Members(pc', Active)) = Cardinality(Members(pc, Active)) - 1
    BY <1>10, <1>p, <2>1, <2>2, PcMove, ZenonT(30) DEF Leave, Active
  <2>4. Count("task")' = Count("task")
    BY <1>10, <1>p, <2>1, <2>2, CountMove DEF Leave
  <2>5. /\ pc' \in [Worker -> Label]
        /\ owner' = "signal" => amount' > 0
        /\ owner' = "joining" => everyone' > 0
        /\ owner' \notin {"paused", "joining"} =>
             \A v \in Worker : v > everyone' => pc'[v] = "none"
    BY <2>1, <2>2, RunMoves
  <2>6. /\ m_activeCount' = Cardinality(Members(pc', Active))
        /\ m_runningTaskCount' = Count("task")'
    BY <1>10, <2>3, <2>4, Zenon DEF Leave, CountInv, pool
  <2>7. TypeOK'
    BY <1>10, <1>n, <2>5, <2>6, Zenon DEF TypeOK, Leave, Label, pool, callers
  <2> QED
    BY <2>5, <2>6, <2>7 DEF CountInv
<1>11. CASE SetAllPaused(w)
  <2>1. PICK l \in {"sleep"} : Goto(w, l)
    BY <1>11 DEF SetAllPaused
  <2>2. /\ l \in Label
        /\ pc[w] # "none"
        /\ UNCHANGED <<everyone, owner, amount>>
    BY <1>11 DEF SetAllPaused, Label, Running, callers, pool
  <2>3. Cardinality(Members(pc', Active)) = Cardinality(Members(pc, Active))
    BY <1>11, <1>p, <2>1, <2>2, PcMove DEF SetAllPaused, Active
  <2>4. Count("task")' = Count("task")
    BY <1>11, <1>p, <2>1, <2>2, CountMove DEF SetAllPaused
  <2>5. /\ pc' \in [Worker -> Label]
        /\ owner' = "signal" => amount' > 0
        /\ owner' = "joining" => everyone' > 0
        /\ owner' \notin {"paused", "joining"} =>
             \A v \in Worker : v > everyone' => pc'[v] = "none"
    BY <2>1, <2>2, RunMoves
  <2>6. /\ m_activeCount' = Cardinality(Members(pc', Active))
        /\ m_runningTaskCount' = Count("task")'
    BY <1>11, <2>3, <2>4, Zenon DEF SetAllPaused, CountInv, pool
  <2>7. TypeOK'
    BY <1>11, <1>n, <2>5, <2>6, Zenon DEF TypeOK, SetAllPaused, Label, pool, callers
  <2> QED
    BY <2>5, <2>6, <2>7 DEF CountInv
<1>12. CASE Wake(w)
  <2>1. PICK l \in {"exited", "enter"} : Goto(w, l)
    BY <1>12, Zenon DEF Wake
  <2>2. /\ l \in Label
        /\ pc[w] # "none"
        /\ UNCHANGED <<everyone, owner, amount>>
    BY <1>12 DEF Wake, Label, Running, callers, pool
  <2>3. Cardinality(Members(pc', Active)) = Cardinality(Members(pc, Active))
    BY <1>12, <1>p, <2>1, <2>2, PcMove, ZenonT(30) DEF Wake, Active
  <2>4. Count("task")' = Count("task")
    BY <1>12, <1>p, <2>1, <2>2, CountMove, Zenon DEF Wake
  <2>5. /\ pc' \in [Worker -> Label]
        /\ owner' = "signal" => amount' > 0
        /\ owner' = "joining" => everyone' > 0
        /\ owner' \notin {"paused", "joining"} =>
             \A v \in Worker : v > everyone' => pc'[v] = "none"
    BY <2>1, <2>2, RunMoves, Zenon
  <2>6. /\ m_activeCount' = Cardinality(Members(pc', Active))
        /\ m_runningTaskCount' = Count("task")'
    BY <1>12, <2>3, <2>4, Zenon DEF Wake, CountInv, pool
  <2>7. wakeCount_' \in [Worker -> Nat]
    BY <1>12 DEF TypeOK, Wake
  <2>8. TypeOK'
    BY <1>12, <1>n, <2>7, <2>5, <2>6, Zenon DEF TypeOK, Wake, Label, pool, callers
  <2> QED
    BY <2>5, <2>6, <2>8 DEF CountInv
<1> QED
  BY <1>1, <1>2, <1>3, <1>4, <1>5, <1>6, <1>7, <1>8, <1>9, <1>10, <1>11, <1>12, Zenon DEF run

\* The type invariant with the counters is inductive.
LEMMA TypeStep == TypeOK /\ CountInv /\ [Next]_vars => TypeOK' /\ CountInv'
<1> SUFFICES ASSUME TypeOK, CountInv, [Next]_vars
             PROVE  TypeOK' /\ CountInv'
  OBVIOUS
<1>1. CASE \/ addTask \/ Destroy \/ OwnerStep
           \/ \E n \in Worker \cup {0} : setNumberOfThreads(n)
  BY <1>1, OwnerTypes
<1>2. CASE \E w \in Worker : run(w)
  BY <1>2, RunTypes
<1>3. CASE UNCHANGED vars
  <2>1. TypeOK'
    BY <1>3 DEF vars, pool, threads, callers, TypeOK
  <2>2. Count("task")' = Count("task")
    BY <1>3, Zenon DEF vars, threads, Count, At
  <2>3. CountInv'
    BY <1>3, <2>2 DEF vars, pool, threads, callers, CountInv
  <2> QED
    BY <2>1, <2>3
<1> QED
  BY <1>1, <1>2, <1>3 DEF Next

\* The initial state has its types and its counts.
LEMMA TypeInit == Init => TypeOK /\ CountInv
<1> SUFFICES ASSUME Init
             PROVE  TypeOK /\ CountInv
  OBVIOUS
<1>1. Members(pc, Active) = {}
  BY DEF Init, Members, Active
<1>2. At("task") = {}
  BY DEF Init, At
<1>3. Cardinality(Members(pc, Active)) = 0 /\ Count("task") = 0
  BY <1>1, <1>2, FS_EmptySet DEF Count
<1>4. TypeOK
  <2>1. m_paused \in Seq(Worker)
    BY DEF Init
  <2>2. pc \in [Worker -> {"none", "exited"} \cup Running]
    BY DEF Init
  <2>3. /\ wakeCount_ \in [Worker -> Nat]
        /\ shouldExit_ \in [Worker -> BOOLEAN]
    BY DEF Init
  <2>4. 0 \in 0..MaxWorkers /\ 0 \in 0..MaxTasks /\ 0 \in 0..MaxResizes
    BY WorkersAssumption
  <2>5. /\ semaphore = 0 /\ m_numberOfThreads = 0 /\ m_activeCount = 0
        /\ m_pauseCount = 0 /\ m_runningTaskCount = 0 /\ everyone = 0
        /\ target = 0 /\ amount = 0 /\ tasks = 0 /\ resizes = 0
        /\ owner = "idle"
    BY DEF Init
  <2>6. m_allPaused \in BOOLEAN /\ destroying \in BOOLEAN
    BY Zenon DEF Init
  <2> QED
    BY <2>1, <2>2, <2>3, <2>4, <2>5, <2>6 DEF TypeOK
<1> QED
  BY <1>3, <1>4 DEF Init, CountInv

\* Every variable has its type: the counters of active threads and of running
\* tasks in particular stay within the number of threads, whatever the
\* threads and the owner do at the same time (Worker::run).
THEOREM PoolTypeCorrect == Spec => []TypeOK
<1>1. Init => TypeOK /\ CountInv
  BY TypeInit
<1>2. (TypeOK /\ CountInv) /\ [Next]_vars => (TypeOK /\ CountInv)'
  BY TypeStep
<1> QED
  BY <1>1, <1>2, PTL DEF Spec

-------------------------------------------------------------------------------
(* Tasks and tokens. *)

\* The requests to pause are signalled, and no thread has taken one that is
\* not there while the pool is made smaller.
TokenInv ==
  /\ \/ Count("undo") = 0 /\ m_pauseCount >= 0
     \/ m_pauseCount = 0 - Count("undo")
  /\ semaphore + Count("got") + Count("decrement") + Owed >= Outstanding
  /\ (owner = "shrink" /\ amount > 0) \/ owner = "signal" => Unstarted = 0

\* The counts are numbers.
LEMMA CountsAre ==
  ASSUME TypeOK
  PROVE  /\ Count("got") \in Nat /\ Count("decrement") \in Nat
         /\ Count("undo") \in Nat /\ Count("start") \in Nat
         /\ semaphore \in Nat /\ m_pauseCount \in Int /\ Owed \in {0, 1}
BY CountType, Zenon DEF TypeOK, Owed

\* A thread that holds a token is one of them.
LEMMA CountPositive ==
  ASSUME NEW w \in Worker, NEW k, pc[w] = k
  PROVE  Count(k) >= 1
<1>1. w \in Members(pc, {k}) /\ IsFiniteSet(Members(pc, {k}))
  BY MembersFinite, Zenon DEF Members
<1>2. Cardinality(Members(pc, {k})) # 0
  BY <1>1, FS_EmptySet
<1> QED
  BY <1>2, CountType

\* Tokens that are with threads, or in the semaphore, for a task: what
\* TokenInv says of them.
LEMMA UnstartedBound ==
  ASSUME TypeOK, TokenInv
  PROVE  /\ Unstarted \in Nat
         /\ Unstarted >= Count("start") + Count("undo")
BY CountsAre DEF TokenInv, Unstarted, Outstanding

\* A step that leaves the threads alone leaves the counts alone.
LEMMA CountsStay ==
  ASSUME UNCHANGED pc
  PROVE  /\ Count("got")' = Count("got")
         /\ Count("decrement")' = Count("decrement")
         /\ Count("undo")' = Count("undo")
         /\ Count("start")' = Count("start")
BY DEF Count, At

\* The map of a step to a step of TaskPool.
PoolStep == [Pool!Next]_<<Unstarted, m_runningTaskCount>>

\* The steps of the owner, and addTask, keep the tokens.
LEMMA OwnerTokens ==
  ASSUME Drained, TypeOK, CountInv, TokenInv,
         \/ addTask \/ Destroy \/ OwnerStep
         \/ \E n \in Worker \cup {0} : setNumberOfThreads(n)
  PROVE  TokenInv' /\ PoolStep
<1>c. /\ Count("got") \in Nat /\ Count("decrement") \in Nat
      /\ Count("undo") \in Nat /\ Count("start") \in Nat
      /\ semaphore \in Nat /\ m_pauseCount \in Int /\ Owed \in {0, 1}
  BY CountsAre
<1>u. Unstarted \in Nat /\ Unstarted >= Count("start") + Count("undo")
  BY UnstartedBound
<1>1. CASE addTask
  <2>1. UNCHANGED pc
    BY <1>1 DEF addTask, threads
  <2>2. /\ Count("got")' = Count("got")
        /\ Count("decrement")' = Count("decrement")
        /\ Count("undo")' = Count("undo")
        /\ Count("start")' = Count("start")
    BY <2>1, CountsStay, Zenon
  <2>3. /\ semaphore' = semaphore + 1 /\ owner \in {"idle", "grow"}
        /\ UNCHANGED <<m_pauseCount, m_runningTaskCount, owner, amount>>
    BY <1>1 DEF addTask, threads
  <2>4. Unstarted' = Unstarted + 1
    BY <1>c, <2>2, <2>3 DEF Unstarted, Outstanding, Owed
  <2>5. TokenInv'
    BY <1>c, <2>2, <2>3, <2>4 DEF TokenInv, Outstanding, Owed
  <2>6. PoolStep
    BY <2>3, <2>4 DEF PoolStep, Pool!Next, Pool!AddTask
  <2> QED
    BY <2>5, <2>6
<1>2. CASE Destroy
  <2>1. UNCHANGED pc
    BY <1>2, Zenon DEF Destroy, resizeTo, pool, threads
  <2>2. /\ Count("got")' = Count("got")
        /\ Count("decrement")' = Count("decrement")
        /\ Count("undo")' = Count("undo")
        /\ Count("start")' = Count("start")
    BY <2>1, CountsStay
  <2>3. /\ UNCHANGED <<semaphore, m_pauseCount, m_runningTaskCount>>
        /\ owner = "idle" /\ owner' \in {"grow", "shrink"}
        /\ owner' = "shrink" /\ amount' > 0 => Unstarted = 0
    BY <1>2, WorkersAssumption DEF TypeOK, Worker, Destroy, resizeTo, pool, threads
  <2>4. Unstarted' = Unstarted
    BY <1>c, <2>2, <2>3, Zenon DEF Unstarted, Outstanding, Owed
  <2>5. TokenInv'
    BY <1>c, <2>2, <2>3, <2>4 DEF TokenInv, Outstanding, Owed
  <2>6. PoolStep
    BY <2>3, <2>4 DEF PoolStep, Pool!Next, Pool!AddTask
  <2> QED
    BY <2>5, <2>6
<1>3. CASE RequestPause
  <2>1. UNCHANGED pc
    BY <1>3 DEF RequestPause, threads
  <2>2. /\ Count("got")' = Count("got")
        /\ Count("decrement")' = Count("decrement")
        /\ Count("undo")' = Count("undo")
        /\ Count("start")' = Count("start")
    BY <2>1, CountsStay
  <2>3. /\ owner = "shrink" /\ amount > 0 /\ owner' = "signal"
        /\ m_pauseCount' = m_pauseCount + 1
        /\ UNCHANGED <<semaphore, m_runningTaskCount, amount>>
    BY <1>3 DEF RequestPause, threads
  <2>4. Unstarted' = Unstarted
    BY <1>c, <2>2, <2>3 DEF Unstarted, Outstanding, Owed
  <2>5. Unstarted = 0 /\ Count("undo") = 0 /\ m_pauseCount >= 0
    <3>1. Unstarted = 0
      BY <2>3 DEF TokenInv
    <3>2. Count("undo") = 0
      BY <1>c, <1>u, <3>1
    <3> QED
      BY <1>c, <3>1, <3>2 DEF TokenInv
  <2>6. TokenInv'
    BY <1>c, <2>2, <2>3, <2>4, <2>5 DEF TokenInv, Outstanding, Owed
  <2>7. PoolStep
    BY <2>3, <2>4, Zenon DEF PoolStep, Pool!Next, Pool!AddTask
  <2> QED
    BY <2>6, <2>7
<1>4. CASE SignalPause
  <2>1. UNCHANGED pc
    BY <1>4, Zenon DEF SignalPause, threads
  <2>2. /\ Count("got")' = Count("got")
        /\ Count("decrement")' = Count("decrement")
        /\ Count("undo")' = Count("undo")
        /\ Count("start")' = Count("start")
    BY <2>1, CountsStay
  <2>3. /\ owner = "signal" /\ owner' = "shrink"
        /\ semaphore' = semaphore + 1
        /\ UNCHANGED <<m_pauseCount, m_runningTaskCount>>
    BY <1>4 DEF SignalPause, threads
  <2>4. Unstarted' = Unstarted
    BY <1>c, <2>2, <2>3 DEF Unstarted, Outstanding, Owed
  <2>5. TokenInv'
    BY <1>c, <2>2, <2>3, <2>4 DEF TokenInv, Outstanding, Owed
  <2>6. PoolStep
    BY <2>3, <2>4 DEF PoolStep, Pool!Next, Pool!AddTask
  <2> QED
    BY <2>5, <2>6
<1>5. CASE ResizeDone
  <2>1. UNCHANGED pc
    BY <1>5 DEF ResizeDone, threads
  <2>2. /\ Count("got")' = Count("got")
        /\ Count("decrement")' = Count("decrement")
        /\ Count("undo")' = Count("undo")
        /\ Count("start")' = Count("start")
    BY <2>1, CountsStay
  <2>3. /\ UNCHANGED <<semaphore, m_pauseCount, m_runningTaskCount>>
        /\ owner \in {"grow", "shrink"} /\ owner' \in {"waiting", "idle"}
    BY <1>5 DEF ResizeDone, threads
  <2>4. Unstarted' = Unstarted
    BY <1>c, <2>2, <2>3 DEF Unstarted, Outstanding, Owed
  <2>5. TokenInv'
    BY <1>c, <2>2, <2>3, <2>4 DEF TokenInv, Outstanding, Owed
  <2>6. PoolStep
    BY <2>3, <2>4 DEF PoolStep, Pool!Next, Pool!AddTask
  <2> QED
    BY <2>5, <2>6
<1>6. CASE AllPaused
  <2>1. UNCHANGED pc
    BY <1>6 DEF AllPaused, pool, threads
  <2>2. /\ Count("got")' = Count("got")
        /\ Count("decrement")' = Count("decrement")
        /\ Count("undo")' = Count("undo")
        /\ Count("start")' = Count("start")
    BY <2>1, CountsStay
  <2>3. /\ UNCHANGED <<semaphore, m_pauseCount, m_runningTaskCount>>
        /\ owner = "waiting" /\ owner' = "paused"
    BY <1>6 DEF AllPaused, pool, threads
  <2>4. Unstarted' = Unstarted
    BY <1>c, <2>2, <2>3 DEF Unstarted, Outstanding, Owed
  <2>5. TokenInv'
    BY <1>c, <2>2, <2>3, <2>4 DEF TokenInv, Outstanding, Owed
  <2>6. PoolStep
    BY <2>3, <2>4, Zenon DEF PoolStep, Pool!Next, Pool!AddTask
  <2> QED
    BY <2>5, <2>6
<1>7. CASE deleteWorker
  <2>1. UNCHANGED pc
    BY <1>7 DEF deleteWorker, pool
  <2>2. /\ Count("got")' = Count("got")
        /\ Count("decrement")' = Count("decrement")
        /\ Count("undo")' = Count("undo")
        /\ Count("start")' = Count("start")
    BY <2>1, CountsStay
  <2>3. /\ UNCHANGED <<semaphore, m_pauseCount, m_runningTaskCount>>
        /\ owner = "paused" /\ owner' = "joining"
    BY <1>7 DEF deleteWorker, pool
  <2>4. Unstarted' = Unstarted
    BY <1>c, <2>2, <2>3, Zenon DEF Unstarted, Outstanding, Owed
  <2>5. TokenInv'
    BY <1>c, <2>2, <2>3, <2>4 DEF TokenInv, Outstanding, Owed
  <2>6. PoolStep
    BY <2>3, <2>4 DEF PoolStep, Pool!Next, Pool!AddTask
  <2> QED
    BY <2>5, <2>6
<1>8. CASE Joined
  <2>1. UNCHANGED pc
    BY <1>8 DEF Joined, threads
  <2>2. /\ Count("got")' = Count("got")
        /\ Count("decrement")' = Count("decrement")
        /\ Count("undo")' = Count("undo")
        /\ Count("start")' = Count("start")
    BY <2>1, CountsStay
  <2>3. /\ UNCHANGED <<semaphore, m_pauseCount, m_runningTaskCount>>
        /\ owner = "joining" /\ owner' = "paused"
    BY <1>8 DEF Joined, threads
  <2>4. Unstarted' = Unstarted
    BY <1>c, <2>2, <2>3 DEF Unstarted, Outstanding, Owed
  <2>5. TokenInv'
    BY <1>c, <2>2, <2>3, <2>4 DEF TokenInv, Outstanding, Owed
  <2>6. PoolStep
    BY <2>3, <2>4 DEF PoolStep, Pool!Next, Pool!AddTask
  <2> QED
    BY <2>5, <2>6
<1>9. ASSUME NEW n \in Worker \cup {0}, setNumberOfThreads(n)
      PROVE  TokenInv' /\ PoolStep
  <2>1. UNCHANGED pc
    BY <1>9 DEF setNumberOfThreads, resizeTo, pool, threads
  <2>2. /\ Count("got")' = Count("got")
        /\ Count("decrement")' = Count("decrement")
        /\ Count("undo")' = Count("undo")
        /\ Count("start")' = Count("start")
    BY <2>1, CountsStay, Zenon
  <2>3. /\ UNCHANGED <<semaphore, m_pauseCount, m_runningTaskCount>>
        /\ owner = "idle" /\ owner' \in {"grow", "shrink"}
        /\ owner' = "shrink" /\ amount' > 0 => Unstarted = 0
    BY <1>9, WorkersAssumption DEF TypeOK, Worker, setNumberOfThreads, resizeTo, pool, threads
  <2>4. Unstarted' = Unstarted
    BY <1>c, <2>2, <2>3 DEF Unstarted, Outstanding, Owed
  <2>5. TokenInv'
    BY <1>c, <2>2, <2>3, <2>4 DEF TokenInv, Outstanding, Owed
  <2>6. PoolStep
    BY <2>3, <2>4 DEF PoolStep, Pool!Next, Pool!AddTask
  <2> QED
    BY <2>5, <2>6
<1>10. CASE AddThread
  <2>1. /\ Count("got")' = Count("got")
        /\ Count("decrement")' = Count("decrement")
        /\ Count("undo")' = Count("undo")
        /\ Count("start")' = Count("start")
    <3>1. CASE m_paused # << >>
      <4>1. UNCHANGED pc
        BY <1>10, <3>1 DEF AddThread
      <4> QED
        BY <4>1, CountsStay
    <3>2. CASE m_paused = << >>
      <4> DEFINE w == everyone + 1
      <4>1. w \in Worker /\ owner = "grow"
        BY <1>10, <3>2, WorkersAssumption DEF TypeOK, AddThread, Worker
      <4>2. pc[w] = "none"
        BY <4>1 DEF CountInv, TypeOK
      <4>3. Goto(w, "enter")
        BY <1>10, <3>2 DEF AddThread, Goto
      <4>4. pc \in [Worker -> Label] /\ "enter" \in Label
        BY DEF TypeOK, Label, Running
      <4> HIDE DEF w
      <4> QED
        BY <4>1, <4>2, <4>3, <4>4, CountMove, ZenonT(30)
    <3> QED
      BY <3>1, <3>2
  <2>2. /\ UNCHANGED <<semaphore, m_pauseCount, m_runningTaskCount, owner>>
        /\ owner = "grow"
    BY <1>10 DEF AddThread
  <2>3. Unstarted' = Unstarted
    BY <2>1, <2>2, Zenon DEF Unstarted, Outstanding, Owed
  <2>4. TokenInv'
    BY <1>c, <2>1, <2>2, <2>3 DEF TokenInv, Outstanding, Owed
  <2>5. PoolStep
    BY <2>2, <2>3, Zenon DEF PoolStep
  <2> QED
    BY <2>4, <2>5
<1> QED
  BY <1>1, <1>2, <1>3, <1>4, <1>5, <1>6, <1>7, <1>8, <1>9, <1>10, Zenon DEF OwnerStep

\* The steps of a thread keep the tokens.
LEMMA RunTokens ==
  ASSUME Drained, TypeOK, CountInv, TokenInv, NEW w \in Worker, run(w)
  PROVE  TokenInv' /\ PoolStep
<1>c. /\ Count("got") \in Nat /\ Count("decrement") \in Nat
      /\ Count("undo") \in Nat /\ Count("start") \in Nat
      /\ semaphore \in Nat /\ m_pauseCount \in Int /\ Owed \in {0, 1}
  BY CountsAre
<1>u. Unstarted \in Nat /\ Unstarted >= Count("start") + Count("undo")
  BY UnstartedBound
<1>p. pc \in [Worker -> Label]
  BY DEF TypeOK, Label
<1>t. m_runningTaskCount = Count("task") /\ Count("task") \in Nat
  BY CountType, Zenon DEF CountInv
<1>1. CASE Enter(w)
  <2>1. PICK l \in {"unpause", "wait"} : Goto(w, l)
    BY <1>1 DEF Enter
  <2>2. l \in Label /\ pc[w] = "enter"
    BY <1>1 DEF Enter, Label, Running
  <2>3. /\ Count("got")' = Count("got")
        /\ Count("decrement")' = Count("decrement")
        /\ Count("undo")' = Count("undo")
        /\ Count("start")' = Count("start")
    BY <1>p, <2>1, <2>2, CountMove, Zenon
  <2>5. Unstarted' = Unstarted /\ m_runningTaskCount' = m_runningTaskCount
    BY <1>c, <1>1, <2>3, Zenon DEF Unstarted, Outstanding, Owed, Enter, callers, pool
  <2>6. TokenInv'
    BY <1>c, <1>1, <2>3, <2>5 DEF TokenInv, Outstanding, Owed, Enter, callers, pool
  <2>7. PoolStep
    BY <2>5 DEF PoolStep
  <2> QED
    BY <2>6, <2>7
<1>2. CASE ClearAllPaused(w)
  <2>1. PICK l \in {"wait"} : Goto(w, l)
    BY <1>2 DEF ClearAllPaused
  <2>2. l \in Label /\ pc[w] = "unpause"
    BY <1>2 DEF ClearAllPaused, Label, Running
  <2>3. /\ Count("got")' = Count("got")
        /\ Count("decrement")' = Count("decrement")
        /\ Count("undo")' = Count("undo")
        /\ Count("start")' = Count("start")
    BY <1>p, <2>1, <2>2, CountMove, Zenon
  <2>5. Unstarted' = Unstarted /\ m_runningTaskCount' = m_runningTaskCount
    BY <1>c, <1>2, <2>3, Zenon DEF Unstarted, Outstanding, Owed, ClearAllPaused, callers, pool
  <2>6. TokenInv'
    BY <1>c, <1>2, <2>3, <2>5 DEF TokenInv, Outstanding, Owed, ClearAllPaused, callers, pool
  <2>7. PoolStep
    BY <2>5 DEF PoolStep
  <2> QED
    BY <2>6, <2>7
<1>3. CASE Wait(w)
  <2>1. PICK l \in {"got"} : Goto(w, l)
    BY <1>3 DEF Wait
  <2>2. l \in Label /\ pc[w] = "wait"
    BY <1>3 DEF Wait, Label, Running
  <2>3. /\ Count("got")' = Count("got") + 1
        /\ Count("decrement")' = Count("decrement")
        /\ Count("undo")' = Count("undo")
        /\ Count("start")' = Count("start")
    BY <1>p, <2>1, <2>2, CountMove, Zenon
  <2>5. Unstarted' = Unstarted /\ m_runningTaskCount' = m_runningTaskCount
    BY <1>c, <1>3, <2>3 DEF Unstarted, Outstanding, Owed, Wait, callers, pool
  <2>6. TokenInv'
    BY <1>c, <1>3, <2>3, <2>5 DEF TokenInv, Outstanding, Owed, Wait, callers, pool
  <2>7. PoolStep
    BY <2>5 DEF PoolStep
  <2> QED
    BY <2>6, <2>7
<1>4. CASE LoadPauseCount(w)
  <2>1. pc[w] = "got"
    BY <1>4 DEF LoadPauseCount
  <2>2. Count("got") >= 1
    BY <2>1, CountPositive
  <2>3. UNCHANGED <<semaphore, m_runningTaskCount, owner, amount>>
    BY <1>4 DEF LoadPauseCount, callers, pool
  <2>4. CASE m_pauseCount > 0
    <3>1. Goto(w, "decrement") /\ m_pauseCount' = m_pauseCount
      BY <1>4, <2>4, Zenon DEF LoadPauseCount, TypeOK, pool
    <3>2. /\ Count("got")' = Count("got") - 1
          /\ Count("decrement")' = Count("decrement") + 1
          /\ Count("undo")' = Count("undo")
          /\ Count("start")' = Count("start")
      <4>1. "decrement" \in Label
        BY Zenon DEF Label, Running
      <4> QED
        BY <1>p, <2>1, <3>1, <4>1, CountMove
    <3>3. Unstarted' = Unstarted
      BY <1>c, <2>3, <3>1, <3>2 DEF Unstarted, Outstanding, Owed
    <3>4. TokenInv'
      BY <1>c, <2>2, <2>3, <2>4, <3>1, <3>2, <3>3 DEF TokenInv, Outstanding, Owed
    <3> QED
      BY <2>3, <3>3, <3>4, Zenon DEF PoolStep
  <2>5. CASE m_pauseCount <= 0
    <3>1. Goto(w, "start") /\ m_pauseCount' = m_pauseCount
      BY <1>4, <2>5 DEF LoadPauseCount, TypeOK, pool
    <3>2. /\ Count("got")' = Count("got") - 1
          /\ Count("decrement")' = Count("decrement")
          /\ Count("undo")' = Count("undo")
          /\ Count("start")' = Count("start") + 1
      <4>1. "start" \in Label
        BY Zenon DEF Label, Running
      <4> QED
        BY <1>p, <2>1, <3>1, <4>1, CountMove
    <3>3. Unstarted' = Unstarted
      BY <1>c, <2>3, <3>1, <3>2 DEF Unstarted, Outstanding, Owed
    <3>4. TokenInv'
      BY <1>c, <2>2, <2>3, <2>5, <3>1, <3>2, <3>3 DEF TokenInv, Outstanding, Owed
    <3> QED
      BY <2>3, <3>3, <3>4 DEF PoolStep
  <2> QED
    BY <2>4, <2>5 DEF TypeOK
<1>5. CASE Decrement(w)
  <2>1. pc[w] = "decrement"
    BY <1>5 DEF Decrement
  <2>2. Count("decrement") >= 1
    BY <2>1, CountPositive, Zenon
  <2>3. UNCHANGED <<semaphore, m_runningTaskCount, owner, amount>>
    BY <1>5, Zenon DEF Decrement, callers, pool
  <2>4. CASE m_pauseCount >= 1
    <3>1. Goto(w, "pause") /\ m_pauseCount' = m_pauseCount - 1
      BY <1>5, <2>4 DEF Decrement, TypeOK, pool
    <3>2. /\ Count("got")' = Count("got")
          /\ Count("decrement")' = Count("decrement") - 1
          /\ Count("undo")' = Count("undo")
          /\ Count("start")' = Count("start")
      <4>1. "pause" \in Label
        BY DEF Label, Running
      <4> QED
        BY <1>p, <2>1, <3>1, <4>1, CountMove
    <3>3. Unstarted' = Unstarted
      BY <1>c, <2>3, <3>1, <3>2 DEF Unstarted, Outstanding, Owed
    <3>4. TokenInv'
      BY <1>c, <2>2, <2>3, <2>4, <3>1, <3>2, <3>3 DEF TokenInv, Outstanding, Owed
    <3> QED
      BY <2>3, <3>3, <3>4 DEF PoolStep
  <2>5. CASE m_pauseCount < 1
    <3>1. Goto(w, "undo") /\ m_pauseCount' = m_pauseCount - 1
      BY <1>5, <2>5 DEF Decrement, TypeOK, pool
    <3>2. /\ Count("got")' = Count("got")
          /\ Count("decrement")' = Count("decrement") - 1
          /\ Count("undo")' = Count("undo") + 1
          /\ Count("start")' = Count("start")
      <4>1. "undo" \in Label
        BY Zenon DEF Label, Running
      <4> QED
        BY <1>p, <2>1, <3>1, <4>1, CountMove, Zenon
    <3>3. Unstarted' = Unstarted
      BY <1>c, <2>3, <3>1, <3>2 DEF Unstarted, Outstanding, Owed
    <3>4. TokenInv'
      BY <1>c, <2>2, <2>3, <2>5, <3>1, <3>2, <3>3 DEF TokenInv, Outstanding, Owed
    <3> QED
      BY <2>3, <3>3, <3>4 DEF PoolStep
  <2> QED
    BY <2>4, <2>5 DEF TypeOK
<1>6. CASE Undo(w)
  <2>1. PICK l \in {"start"} : Goto(w, l)
    BY <1>6 DEF Undo
  <2>2. l \in Label /\ pc[w] = "undo"
    BY <1>6 DEF Undo, Label, Running
  <2>3. /\ Count("got")' = Count("got")
        /\ Count("decrement")' = Count("decrement")
        /\ Count("undo")' = Count("undo") - 1
        /\ Count("start")' = Count("start") + 1
    BY <1>p, <2>1, <2>2, CountMove, Zenon
  <2>4. Count("undo") >= 1
    BY <2>2, CountPositive, Zenon
  <2>5. Unstarted' = Unstarted /\ m_runningTaskCount' = m_runningTaskCount
    BY <1>c, <1>6, <2>3 DEF Unstarted, Outstanding, Owed, Undo, callers, pool
  <2>6. TokenInv'
    BY <1>c, <1>6, <2>3, <2>4, <2>5 DEF TokenInv, Outstanding, Owed, Undo, callers, pool
  <2>7. PoolStep
    BY <2>5 DEF PoolStep
  <2> QED
    BY <2>6, <2>7
<1>7. CASE StartTask(w)
  <2>1. PICK l \in {"task"} : Goto(w, l)
    BY <1>7 DEF StartTask
  <2>2. l \in Label /\ pc[w] = "start"
    BY <1>7 DEF StartTask, Label, Running
  <2>3. /\ Count("got")' = Count("got")
        /\ Count("decrement")' = Count("decrement")
        /\ Count("undo")' = Count("undo")
        /\ Count("start")' = Count("start") - 1
    BY <1>p, <2>1, <2>2, CountMove
  <2>4. Count("start") >= 1
    BY <2>2, CountPositive, Zenon
  <2>5. Unstarted' = Unstarted - 1 /\ m_runningTaskCount' = m_runningTaskCount + 1
    BY <1>c, <1>7, <2>3 DEF Unstarted, Outstanding, Owed, StartTask, callers, pool
  <2>6. TokenInv'
    BY <1>c, <1>u, <1>7, <2>3, <2>4, <2>5 DEF TokenInv, Outstanding, Owed, StartTask, callers, pool
  <2>7. PoolStep
    BY <1>c, <1>u, <2>4, <2>5 DEF PoolStep, Pool!Next, Pool!StartTask
  <2> QED
    BY <2>6, <2>7
<1>8. CASE FinishTask(w)
  <2>1. PICK l \in {"wait"} : Goto(w, l)
    BY <1>8 DEF FinishTask
  <2>2. l \in Label /\ pc[w] = "task"
    BY <1>8 DEF FinishTask, Label, Running
  <2>3. /\ Count("got")' = Count("got")
        /\ Count("decrement")' = Count("decrement")
        /\ Count("undo")' = Count("undo")
        /\ Count("start")' = Count("start")
    BY <1>p, <2>1, <2>2, CountMove
  <2>4. Count("task") >= 1
    BY <2>2, CountPositive, Zenon
  <2>5. Unstarted' = Unstarted /\ m_runningTaskCount' = m_runningTaskCount - 1
    BY <1>c, <1>8, <2>3, Zenon DEF Unstarted, Outstanding, Owed, FinishTask, callers, pool
  <2>6. TokenInv'
    BY <1>c, <1>8, <2>3, <2>4, <2>5, Zenon DEF TokenInv, Outstanding, Owed, FinishTask, callers, pool
  <2>7. PoolStep
    BY <1>t, <2>4, <2>5 DEF PoolStep, Pool!Next, Pool!FinishTask
  <2> QED
    BY <2>6, <2>7
<1>9. CASE PushPaused(w)
  <2>1. PICK l \in {"leave"} : Goto(w, l)
    BY <1>9, Zenon DEF PushPaused
  <2>2. l \in Label /\ pc[w] = "pause"
    BY <1>9, Zenon DEF PushPaused, Label, Running
  <2>3. /\ Count("got")' = Count("got")
        /\ Count("decrement")' = Count("decrement")
        /\ Count("undo")' = Count("undo")
        /\ Count("start")' = Count("start")
    BY <1>p, <2>1, <2>2, CountMove, Zenon
  <2>5. Unstarted' = Unstarted /\ m_runningTaskCount' = m_runningTaskCount
    BY <1>c, <1>9, <2>3, Zenon DEF Unstarted, Outstanding, Owed, PushPaused, callers, pool
  <2>6. TokenInv'
    BY <1>c, <1>9, <2>3, <2>5, Zenon DEF TokenInv, Outstanding, Owed, PushPaused, callers, pool
  <2>7. PoolStep
    BY <2>5 DEF PoolStep
  <2> QED
    BY <2>6, <2>7
<1>10. CASE Leave(w)
  <2>1. PICK l \in {"signal", "sleep"} : Goto(w, l)
    BY <1>10 DEF Leave
  <2>2. l \in Label /\ pc[w] = "leave"
    BY <1>10, Zenon DEF Leave, Label, Running
  <2>3. /\ Count("got")' = Count("got")
        /\ Count("decrement")' = Count("decrement")
        /\ Count("undo")' = Count("undo")
        /\ Count("start")' = Count("start")
    BY <1>p, <2>1, <2>2, CountMove, Zenon
  <2>5. Unstarted' = Unstarted /\ m_runningTaskCount' = m_runningTaskCount
    BY <1>c, <1>10, <2>3, Zenon DEF Unstarted, Outstanding, Owed, Leave, callers, pool
  <2>6. TokenInv'
    BY <1>c, <1>10, <2>3, <2>5, Zenon DEF TokenInv, Outstanding, Owed, Leave, callers, pool
  <2>7. PoolStep
    BY <2>5 DEF PoolStep
  <2> QED
    BY <2>6, <2>7, Zenon
<1>11. CASE SetAllPaused(w)
  <2>1. PICK l \in {"sleep"} : Goto(w, l)
    BY <1>11 DEF SetAllPaused
  <2>2. l \in Label /\ pc[w] = "signal"
    BY <1>11, Zenon DEF SetAllPaused, Label, Running
  <2>3. /\ Count("got")' = Count("got")
        /\ Count("decrement")' = Count("decrement")
        /\ Count("undo")' = Count("undo")
        /\ Count("start")' = Count("start")
    BY <1>p, <2>1, <2>2, CountMove, Zenon
  <2>5. Unstarted' = Unstarted /\ m_runningTaskCount' = m_runningTaskCount
    BY <1>c, <1>11, <2>3, Zenon DEF Unstarted, Outstanding, Owed, SetAllPaused, callers, pool
  <2>6. TokenInv'
    BY <1>c, <1>11, <2>3, <2>5 DEF TokenInv, Outstanding, Owed, SetAllPaused, callers, pool
  <2>7. PoolStep
    BY <2>5 DEF PoolStep
  <2> QED
    BY <2>6, <2>7
<1>12. CASE Wake(w)
  <2>1. PICK l \in {"exited", "enter"} : Goto(w, l)
    BY <1>12, Zenon DEF Wake
  <2>2. l \in Label /\ pc[w] = "sleep"
    BY <1>12, Zenon DEF Wake, Label, Running
  <2>3. /\ Count("got")' = Count("got")
        /\ Count("decrement")' = Count("decrement")
        /\ Count("undo")' = Count("undo")
        /\ Count("start")' = Count("start")
    BY <1>p, <2>1, <2>2, CountMove, Zenon
  <2>5. Unstarted' = Unstarted /\ m_runningTaskCount' = m_runningTaskCount
    BY <1>c, <1>12, <2>3, Zenon DEF Unstarted, Outstanding, Owed, Wake, callers, pool
  <2>6. TokenInv'
    BY <1>c, <1>12, <2>3, <2>5 DEF TokenInv, Outstanding, Owed, Wake, callers, pool
  <2>7. PoolStep
    BY <2>5 DEF PoolStep
  <2> QED
    BY <2>6, <2>7, Zenon
<1> QED
  BY <1>1, <1>2, <1>3, <1>4, <1>5, <1>6, <1>7, <1>8, <1>9, <1>10, <1>11, <1>12, Zenon DEF run

\* Every step of a drained pool keeps the tokens and is a step of TaskPool.
LEMMA TokenStep ==
  ASSUME Drained, TypeOK, CountInv, TokenInv, [Next]_vars
  PROVE  TokenInv' /\ PoolStep
<1>1. CASE \/ addTask \/ Destroy \/ OwnerStep
           \/ \E n \in Worker \cup {0} : setNumberOfThreads(n)
  BY <1>1, OwnerTokens
<1>2. CASE \E w \in Worker : run(w)
  BY <1>2, RunTokens
<1>3. CASE UNCHANGED vars
  <2>1. UNCHANGED <<pc, semaphore, m_pauseCount, m_runningTaskCount, owner,
                  amount>>
    BY <1>3, Zenon DEF vars, pool, threads, callers
  <2>2. /\ Count("got")' = Count("got")
        /\ Count("decrement")' = Count("decrement")
        /\ Count("undo")' = Count("undo")
        /\ Count("start")' = Count("start")
    BY <2>1, CountsStay, Zenon
  <2>3. Unstarted' = Unstarted
    BY <2>1, <2>2, Zenon DEF Unstarted, Outstanding, Owed
  <2>4. TokenInv'
    BY <2>1, <2>2, <2>3 DEF TokenInv, Outstanding, Owed
  <2> QED
    BY <2>1, <2>3, <2>4, Zenon DEF PoolStep
<1> QED
  BY <1>1, <1>2, <1>3 DEF Next

\* The initial state maps to the initial state of TaskPool.
LEMMA TokenInit == Init => TokenInv /\ Pool!Init
<1> SUFFICES ASSUME Init
             PROVE  TokenInv /\ Pool!Init
  OBVIOUS
<1>1. /\ At("got") = {} /\ At("decrement") = {} /\ At("undo") = {}
      /\ At("start") = {}
  BY DEF Init, At
<1>2. /\ Count("got") = 0 /\ Count("decrement") = 0 /\ Count("undo") = 0
      /\ Count("start") = 0
  BY <1>1, FS_EmptySet DEF Count
<1>3. /\ semaphore = 0 /\ m_pauseCount = 0 /\ owner = "idle"
      /\ m_runningTaskCount = 0
  BY DEF Init
<1>4. TokenInv
  BY <1>2, <1>3 DEF TokenInv, Outstanding, Owed
<1>5. Pool!Init
  BY <1>2, <1>3 DEF Pool!Init, Unstarted, Outstanding, Owed
<1> QED
  BY <1>4, <1>5

\* A pool that is made smaller only when its tasks have been started calls
\* processTask once for each task added, with any number of threads: it
\* implements TaskPool (Worker::run, with m_pauseCount decremented and put
\* back without a lock).
THEOREM TasksRunOnce ==
  ASSUME Drained
  PROVE  Spec => EachTaskOnce
<1> DEFINE Inv == TypeOK /\ CountInv /\ TokenInv
<1>1. Init => Inv /\ Pool!Init
  BY TypeInit, TokenInit
<1>2. Inv /\ [Next]_vars => Inv'
  BY TypeStep, TokenStep
<1>3. Inv /\ [Next]_vars => PoolStep
  BY TokenStep
<1>4. PoolStep => [Pool!Next]_<<Unstarted, m_runningTaskCount>>
  BY DEF PoolStep
<1> HIDE DEF Inv
<1> QED
  BY <1>1, <1>2, <1>3, <1>4, PTL DEF Spec, EachTaskOnce, Pool!Spec

-------------------------------------------------------------------------------
(* Threads that serve. *)

\* Where a thread is on its way to sleep, or asleep.
Parked == {"leave", "signal", "sleep"}

Deleting == owner \in {"paused", "joining"}

\* The stack holds threads that will sleep until they are woken, each once;
\* one that was taken from it is woken once.
StackInv ==
  ~ Deleting =>
    /\ \A i, j \in DOMAIN m_paused : m_paused[i] = m_paused[j] => i = j
    /\ \A i \in DOMAIN m_paused :
         /\ m_paused[i] <= everyone
         /\ pc[m_paused[i]] \in Parked
         /\ wakeCount_[m_paused[i]] = 0
    /\ \A w \in Worker : wakeCount_[w] <= 1
    /\ \A w \in Worker : pc[w] \notin Parked => wakeCount_[w] = 0

\* The stack when a thread is pushed.
LEMMA PushFront ==
  ASSUME NEW s \in Seq(Worker), NEW w \in Worker
  PROVE  /\ DOMAIN s = 1..Len(s) /\ Len(s) \in Nat
         /\ DOMAIN (<<w>> \o s) = 1..(Len(s) + 1)
         /\ (<<w>> \o s)[1] = w
         /\ \A i \in 1..Len(s) : (<<w>> \o s)[i + 1] = s[i]
<1>1. DOMAIN s = 1..Len(s) /\ Len(s) \in Nat
  OBVIOUS
<1>2. Len(<<w>> \o s) = Len(s) + 1
  BY <1>1
<1>3. <<w>> \o s \in Seq(Worker)
  OBVIOUS
<1>4. (<<w>> \o s)[1] = w
  BY <1>1
<1>5. ASSUME NEW i \in 1..Len(s)
      PROVE  (<<w>> \o s)[i + 1] = s[i]
  BY <1>1
<1> QED
  BY <1>1, <1>2, <1>3, <1>4, <1>5

\* The threads that serve can be counted.
LEMMA ServingFinite ==
  ASSUME everyone \in Nat
  PROVE  IsFiniteSet(Serving) /\ Cardinality(Serving) \in Nat
<1>1. IsFiniteSet(1..everyone)
  BY FS_Interval
<1>2. Serving \subseteq 1..everyone
  BY DEF Serving
<1> QED
  BY <1>1, <1>2, FS_Subset, FS_CardinalityType, Zenon

\* A thread that moves neither to nor from the stack.
LEMMA ServingStays ==
  ASSUME TypeOK, NEW w \in Worker, NEW l \in Label, Goto(w, l),
         pc[w] # "pause", l # "pause", UNCHANGED <<m_paused, everyone>>
  PROVE  Serving' = Serving
<1>1. \A v \in 1..everyone : v \in Worker
  BY WorkersAssumption DEF TypeOK, Worker
<1>2. \A v \in Worker : pc'[v] = IF v = w THEN l ELSE pc[v]
  BY DEF TypeOK, Goto
<1>3. \A v \in 1..everyone : pc'[v] # "pause" <=> pc[v] # "pause"
  BY <1>1, <1>2
<1> QED
  BY <1>3, Zenon DEF Serving

\* What the owner's steps leave alone.
LEMMA OwnerServing ==
  ASSUME UNCHANGED <<m_paused, everyone, pc>>
  PROVE  Serving' = Serving /\ Count("undo")' = Count("undo")
BY Zenon DEF Serving, Count, At

\* The steps of the owner, and addTask, keep the threads.
LEMMA OwnerThreads ==
  ASSUME TypeOK, CountInv, StackInv, ThreadsExact,
         \/ addTask \/ Destroy \/ OwnerStep
         \/ \E n \in Worker \cup {0} : setNumberOfThreads(n)
  PROVE  StackInv' /\ ThreadsExact'
<1>c. Count("undo") \in Nat /\ m_pauseCount \in Int
  BY CountType, Zenon DEF TypeOK
<1>s. Cardinality(Serving) \in Nat /\ IsFiniteSet(Serving)
  BY ServingFinite DEF TypeOK
<1>w. /\ amount \in Nat /\ target \in Nat /\ m_numberOfThreads \in Nat
      /\ everyone \in Nat /\ everyone <= MaxWorkers
  BY DEF TypeOK
<1>1. CASE addTask
  <2>1. UNCHANGED <<m_paused, everyone, pc, wakeCount_>>
    BY <1>1 DEF addTask, threads
  <2>2. Serving' = Serving /\ Count("undo")' = Count("undo")
    BY <2>1, OwnerServing, Zenon
  <2>3. /\ UNCHANGED <<m_pauseCount, owner, target, amount, m_numberOfThreads>>
    BY <1>1, <1>w, Zenon DEF addTask, threads, Worker
  <2>4. StackInv'
    BY <2>1, <2>3 DEF StackInv, Deleting
  <2>5. Cardinality(Serving)' = Cardinality(Serving)
    BY <2>2
  <2>6. ThreadsExact'
    BY <1>c, <1>s, <1>w, <2>2, <2>3, <2>5, Zenon
       DEF ThreadsExact, Outstanding, Wanted
  <2> QED
    BY <2>4, <2>6
<1>2. CASE Destroy
  <2>1. UNCHANGED <<m_paused, everyone, pc, wakeCount_>>
    BY <1>2, Zenon DEF Destroy, resizeTo, pool, threads
  <2>2. Serving' = Serving /\ Count("undo")' = Count("undo")
    BY <2>1, OwnerServing
  <2>3. /\ UNCHANGED <<m_pauseCount, m_numberOfThreads>> /\ owner = "idle"
        /\ \/ owner' = "grow" /\ target' - amount' = m_numberOfThreads
           \/ owner' = "shrink" /\ target' + amount' = m_numberOfThreads
    BY <1>2, <1>w DEF Destroy, resizeTo, pool, threads, Worker
  <2>4. StackInv'
    BY <2>1, <2>3 DEF StackInv, Deleting
  <2>5. Cardinality(Serving)' = Cardinality(Serving)
    BY <2>2
  <2>6. ThreadsExact'
    BY <1>c, <1>s, <1>w, <2>2, <2>3, <2>5, Zenon
       DEF ThreadsExact, Outstanding, Wanted
  <2> QED
    BY <2>4, <2>6
<1>3. CASE RequestPause
  <2>1. UNCHANGED <<m_paused, everyone, pc, wakeCount_>>
    BY <1>3 DEF RequestPause, threads
  <2>2. Serving' = Serving /\ Count("undo")' = Count("undo")
    BY <2>1, OwnerServing
  <2>3. /\ m_pauseCount' = m_pauseCount + 1
        /\ UNCHANGED <<target, amount>>
        /\ owner = "shrink" /\ owner' = "signal"
    BY <1>3, <1>w, Zenon DEF RequestPause, threads, Worker
  <2>4. StackInv'
    BY <2>1, <2>3 DEF StackInv, Deleting
  <2>5. Cardinality(Serving)' = Cardinality(Serving)
    BY <2>2
  <2>6. ThreadsExact'
    BY <1>c, <1>s, <1>w, <2>2, <2>3, <2>5
       DEF ThreadsExact, Outstanding, Wanted
  <2> QED
    BY <2>4, <2>6
<1>4. CASE SignalPause
  <2>1. UNCHANGED <<m_paused, everyone, pc, wakeCount_>>
    BY <1>4 DEF SignalPause, threads
  <2>2. Serving' = Serving /\ Count("undo")' = Count("undo")
    BY <2>1, OwnerServing
  <2>3. /\ UNCHANGED <<m_pauseCount, target>> /\ amount' = amount - 1
        /\ owner = "signal" /\ owner' = "shrink"
    BY <1>4, <1>w, Zenon DEF SignalPause, threads, Worker
  <2>4. StackInv'
    BY <2>1, <2>3 DEF StackInv, Deleting
  <2>5. Cardinality(Serving)' = Cardinality(Serving)
    BY <2>2
  <2>6. ThreadsExact'
    BY <1>c, <1>s, <1>w, <2>2, <2>3, <2>5, Zenon
       DEF ThreadsExact, Outstanding, Wanted
  <2> QED
    BY <2>4, <2>6
<1>5. CASE ResizeDone
  <2>1. UNCHANGED <<m_paused, everyone, pc, wakeCount_>>
    BY <1>5, Zenon DEF ResizeDone, threads
  <2>2. Serving' = Serving /\ Count("undo")' = Count("undo")
    BY <2>1, OwnerServing
  <2>3. /\ UNCHANGED m_pauseCount /\ amount = 0 /\ m_numberOfThreads' = target
        /\ owner \in {"grow", "shrink"} /\ owner' \in {"waiting", "idle"}
    BY <1>5, <1>w, Zenon DEF ResizeDone, threads, Worker
  <2>4. StackInv'
    BY <2>1, <2>3 DEF StackInv, Deleting
  <2>5. Cardinality(Serving)' = Cardinality(Serving)
    BY <2>2
  <2>6. ThreadsExact'
    BY <1>c, <1>s, <1>w, <2>2, <2>3, <2>5
       DEF ThreadsExact, Outstanding, Wanted
  <2> QED
    BY <2>4, <2>6
<1>6. ASSUME NEW n \in Worker \cup {0}, setNumberOfThreads(n)
      PROVE  StackInv' /\ ThreadsExact'
  <2>1. UNCHANGED <<m_paused, everyone, pc, wakeCount_>>
    BY <1>6 DEF setNumberOfThreads, resizeTo, pool, threads
  <2>2. Serving' = Serving /\ Count("undo")' = Count("undo")
    BY <2>1, OwnerServing, Zenon
  <2>3. /\ UNCHANGED <<m_pauseCount, m_numberOfThreads>> /\ owner = "idle"
        /\ \/ owner' = "grow" /\ target' - amount' = m_numberOfThreads
           \/ owner' = "shrink" /\ target' + amount' = m_numberOfThreads
    BY <1>6, <1>w DEF setNumberOfThreads, resizeTo, pool, threads, Worker
  <2>4. StackInv'
    BY <2>1, <2>3 DEF StackInv, Deleting
  <2>5. Cardinality(Serving)' = Cardinality(Serving)
    BY <2>2
  <2>6. ThreadsExact'
    BY <1>c, <1>s, <1>w, <2>2, <2>3, <2>5, ZenonT(30)
       DEF ThreadsExact, Outstanding, Wanted
  <2> QED
    BY <2>4, <2>6, Zenon
<1>7. CASE AllPaused \/ deleteWorker \/ Joined
  BY <1>7 DEF AllPaused, deleteWorker, Joined, StackInv, ThreadsExact, Deleting
<1>8. CASE AddThread
  <2>1. /\ owner = "grow" /\ owner' = "grow" /\ amount' = amount - 1
        /\ UNCHANGED <<target, m_pauseCount>> /\ ~ Deleting
    BY <1>8, Zenon DEF AddThread, Deleting
  <2>2. CASE m_paused # << >>
    <3> DEFINE w == Head(m_paused)
    <3>1. /\ m_paused' = Tail(m_paused)
          /\ wakeCount_' = [wakeCount_ EXCEPT ![w] = @ + 1]
          /\ UNCHANGED <<everyone, pc>>
      BY <1>8, <2>2 DEF AddThread
    <3>2. /\ Len(m_paused) >= 1 /\ w = m_paused[1]
          /\ DOMAIN m_paused = 1..Len(m_paused)
          /\ Len(m_paused) \in Nat
      BY <2>2 DEF TypeOK
    <3>3. /\ DOMAIN Tail(m_paused) = 1..(Len(m_paused) - 1)
          /\ \A i \in 1..(Len(m_paused) - 1) : Tail(m_paused)[i] = m_paused[i + 1]
      BY <2>2 DEF TypeOK
    <3>4. w \in Worker /\ w <= everyone /\ pc[w] \in Parked /\ wakeCount_[w] = 0
      BY <2>1, <3>2 DEF StackInv, TypeOK
    <3>5. \A i \in 1..(Len(m_paused) - 1) : m_paused[i + 1] # w
      BY <2>1, <3>2 DEF StackInv
    <3> HIDE DEF w
    <3>6. \A v \in Worker : wakeCount_'[v] = IF v = w THEN 1 ELSE wakeCount_[v]
      BY <3>1, <3>4 DEF TypeOK
    <3>7. StackInv'
      <4>1. \A i, j \in DOMAIN m_paused' : m_paused'[i] = m_paused'[j] => i = j
        BY <2>1, <3>1, <3>2, <3>3 DEF StackInv
      <4>2. ASSUME NEW i \in DOMAIN m_paused'
            PROVE  /\ m_paused'[i] <= everyone'
                   /\ pc'[m_paused'[i]] \in Parked
                   /\ wakeCount_'[m_paused'[i]] = 0
        <5>1. /\ i \in 1..(Len(m_paused) - 1) /\ i + 1 \in DOMAIN m_paused
              /\ m_paused'[i] = m_paused[i + 1]
          BY <3>1, <3>2, <3>3
        <5>2. m_paused[i + 1] \in Worker /\ m_paused[i + 1] # w
          BY <5>1, <3>5 DEF TypeOK
        <5> QED
          BY <2>1, <3>1, <3>6, <5>1, <5>2, Zenon DEF StackInv
      <4>3. \A v \in Worker : wakeCount_'[v] <= 1
        BY <2>1, <3>6 DEF StackInv
      <4>4. \A v \in Worker : pc'[v] \notin Parked => wakeCount_'[v] = 0
        BY <2>1, <3>1, <3>4, <3>6 DEF StackInv
      <4> QED
        BY <4>1, <4>2, <4>3, <4>4, Zenon DEF StackInv
    <3>8. Serving' = Serving \cup {w} /\ w \notin Serving
      <4>1. w \in 1..everyone /\ pc[w] # "pause"
        BY <1>w, <3>4 DEF Parked, Worker
      <4>2. ASSUME NEW v \in 1..everyone
            PROVE  (\A i \in DOMAIN m_paused' : m_paused'[i] # v) <=>
                     (v = w \/ \A i \in DOMAIN m_paused : m_paused[i] # v)
        <5>1. CASE v = w
          BY <5>1, <3>1, <3>3, <3>5, Zenon
        <5>2. CASE v # w
          <6>1. ASSUME NEW i \in DOMAIN m_paused, m_paused[i] = v
                PROVE  \E j \in DOMAIN m_paused' : m_paused'[j] = v
            <7>1. i # 1 /\ i - 1 \in 1..(Len(m_paused) - 1)
              BY <5>2, <6>1, <3>2
            <7>2. m_paused'[i - 1] = m_paused[i] /\ i - 1 \in DOMAIN m_paused'
              BY <7>1, <3>1, <3>2, <3>3
            <7> QED
              BY <7>2, <6>1, Zenon
          <6>2. ASSUME NEW i \in DOMAIN m_paused', m_paused'[i] = v
                PROVE  \E j \in DOMAIN m_paused : m_paused[j] = v
            <7>1. m_paused'[i] = m_paused[i + 1] /\ i + 1 \in DOMAIN m_paused
              BY <3>1, <3>2, <3>3
            <7> QED
              BY <7>1, <6>2, Zenon
          <6> QED
            BY <5>2, <6>1, <6>2, Zenon
        <5> QED
          BY <5>1, <5>2
      <4>3. w \notin Serving
        BY <3>2 DEF Serving
      <4>4. \A v : v \in Serving' <=> v \in Serving \/ v = w
        BY <3>1, <4>1, <4>2 DEF Serving
      <4> QED
        BY <4>3, <4>4
    <3>9. Cardinality(Serving)' = Cardinality(Serving) + 1
      <4>1. Cardinality(Serving \cup {w}) = Cardinality(Serving) + 1
        BY <1>s, <3>8, FS_AddElement, Zenon
      <4> QED
        BY <4>1, <3>8, Zenon
    <3>10. Count("undo")' = Count("undo")
      BY <3>1 DEF Count, At
    <3>11. ThreadsExact'
      BY <1>c, <1>s, <1>w, <2>1, <3>9, <3>10
         DEF ThreadsExact, Outstanding, Wanted, Deleting
    <3> QED
      BY <3>7, <3>11
  <2>3. CASE m_paused = << >>
    <3> DEFINE w == everyone + 1
    <3>1. /\ UNCHANGED <<m_paused, wakeCount_>>
          /\ everyone' = w /\ Goto(w, "enter") /\ w \in Worker
      BY <1>8, <1>w, <2>3, WorkersAssumption DEF AddThread, Goto, Worker
    <3>2. pc[w] = "none"
      BY <2>1, <3>1, <1>w DEF CountInv, Deleting
    <3>3. "enter" \in Label /\ pc \in [Worker -> Label]
      BY DEF TypeOK, Label, Running
    <3>4. Count("undo")' = Count("undo")
      BY <3>1, <3>2, <3>3, CountMove
    <3>5. pc'[w] = "enter" /\ \A v \in Worker : v # w => pc'[v] = pc[v]
      BY <3>1, <3>3 DEF Goto
    <3>6. DOMAIN m_paused = {}
      BY <2>3
    <3>7. StackInv'
      <4>1. wakeCount_[w] = 0
        BY <2>1, <3>1, <3>2, Zenon DEF StackInv, Parked
      <4>2. \A v \in Worker : pc'[v] \notin Parked => wakeCount_'[v] = 0
        BY <2>1, <3>1, <3>5, <4>1, Zenon DEF StackInv
      <4>3. \A v \in Worker : wakeCount_'[v] <= 1
        BY <2>1, <3>1, Zenon DEF StackInv
      <4> QED
        BY <3>1, <3>6, <4>2, <4>3, Zenon DEF StackInv
    <3>8. Serving' = Serving \cup {w} /\ w \notin Serving
      <4>1. \A v \in 1..everyone : v \in Worker /\ v # w
        BY <1>w, WorkersAssumption DEF Worker
      <4>2. \A v : v \in 1..everyone' <=> v \in 1..everyone \/ v = w
        BY <1>w, <3>1
      <4> QED
        BY <1>w, <3>1, <3>5, <3>6, <4>1, <4>2, Zenon DEF Serving
    <3> HIDE DEF w
    <3>9. Cardinality(Serving)' = Cardinality(Serving) + 1
      <4>1. Cardinality(Serving \cup {w}) = Cardinality(Serving) + 1
        BY <1>s, <3>8, FS_AddElement
      <4> QED
        BY <4>1, <3>8, Zenon
    <3>10. ThreadsExact'
      BY <1>c, <1>s, <1>w, <2>1, <3>4, <3>9
         DEF ThreadsExact, Outstanding, Wanted, Deleting
    <3> QED
      BY <3>7, <3>10
  <2> QED
    BY <2>2, <2>3, Zenon
<1> QED
  BY <1>1, <1>2, <1>3, <1>4, <1>5, <1>6, <1>7, <1>8, Zenon DEF OwnerStep

\* A thread that is parked, or not, stays so.
LEMMA StackStays ==
  ASSUME TypeOK, StackInv, NEW w \in Worker, NEW l \in Label, Goto(w, l),
         (pc[w] \in Parked) <=> (l \in Parked),
         UNCHANGED <<m_paused, everyone, wakeCount_, owner>>
  PROVE  StackInv'
<1>1. \A v \in Worker : pc'[v] = IF v = w THEN l ELSE pc[v]
  BY Zenon DEF TypeOK, Goto
<1>2. \A v \in Worker : pc'[v] \in Parked <=> pc[v] \in Parked
  BY <1>1
<1>3. \A i \in DOMAIN m_paused : m_paused[i] \in Worker
  BY DEF TypeOK
<1> QED
  BY <1>2, <1>3, Zenon DEF StackInv, Deleting

\* The steps of a thread keep the threads.
LEMMA RunThreads ==
  ASSUME TypeOK, CountInv, StackInv, ThreadsExact, NEW w \in Worker, run(w)
  PROVE  StackInv' /\ ThreadsExact'
<1>c. Count("undo") \in Nat /\ m_pauseCount \in Int
  BY CountType, Zenon DEF TypeOK
<1>s. Cardinality(Serving) \in Nat /\ IsFiniteSet(Serving)
  BY ServingFinite DEF TypeOK
<1>w. /\ amount \in Nat /\ target \in Nat /\ m_numberOfThreads \in Nat
      /\ everyone \in Nat
  BY DEF TypeOK
<1>p. pc \in [Worker -> Label]
  BY DEF TypeOK, Label
<1>1. CASE Enter(w)
  <2>1. PICK l \in {"unpause", "wait"} : Goto(w, l)
    BY <1>1 DEF Enter
  <2>2. l \in Label /\ pc[w] = "enter"
    BY <1>1, Zenon DEF Enter, Label, Running
  <2>3. Count("undo")' = Count("undo")
    BY <1>p, <2>1, <2>2, CountMove, Zenon
  <2>4. /\ m_pauseCount' = m_pauseCount
        /\ UNCHANGED <<m_paused, everyone, wakeCount_, owner, target, amount,
                       m_numberOfThreads>>
    BY <1>1 DEF Enter, pool, callers
  <2>5. Serving' = Serving
    BY <2>1, <2>2, <2>4, ServingStays, Zenon
  <2>6. StackInv'
    BY <2>1, <2>2, <2>4, StackStays DEF Parked
  <2>7. Cardinality(Serving)' = Cardinality(Serving)
    BY <2>5
  <2>8. ThreadsExact'
    BY <1>c, <1>s, <1>w, <2>3, <2>4, <2>7, Zenon
       DEF ThreadsExact, Outstanding, Wanted
  <2> QED
    BY <2>6, <2>8
<1>2. CASE ClearAllPaused(w)
  <2>1. PICK l \in {"wait"} : Goto(w, l)
    BY <1>2, Zenon DEF ClearAllPaused
  <2>2. l \in Label /\ pc[w] = "unpause"
    BY <1>2, Zenon DEF ClearAllPaused, Label, Running
  <2>3. Count("undo")' = Count("undo")
    BY <1>p, <2>1, <2>2, CountMove, Zenon
  <2>4. /\ m_pauseCount' = m_pauseCount
        /\ UNCHANGED <<m_paused, everyone, wakeCount_, owner, target, amount,
                       m_numberOfThreads>>
    BY <1>2 DEF ClearAllPaused, pool, callers
  <2>5. Serving' = Serving
    BY <2>1, <2>2, <2>4, ServingStays, Zenon
  <2>6. StackInv'
    BY <2>1, <2>2, <2>4, StackStays, Zenon DEF Parked
  <2>7. Cardinality(Serving)' = Cardinality(Serving)
    BY <2>5
  <2>8. ThreadsExact'
    BY <1>c, <1>s, <1>w, <2>3, <2>4, <2>7, Zenon
       DEF ThreadsExact, Outstanding, Wanted
  <2> QED
    BY <2>6, <2>8
<1>3. CASE Wait(w)
  <2>1. PICK l \in {"got"} : Goto(w, l)
    BY <1>3 DEF Wait
  <2>2. l \in Label /\ pc[w] = "wait"
    BY <1>3 DEF Wait, Label, Running
  <2>3. Count("undo")' = Count("undo")
    BY <1>p, <2>1, <2>2, CountMove, Zenon
  <2>4. /\ m_pauseCount' = m_pauseCount
        /\ UNCHANGED <<m_paused, everyone, wakeCount_, owner, target, amount,
                       m_numberOfThreads>>
    BY <1>3 DEF Wait, pool, callers
  <2>5. Serving' = Serving
    BY <2>1, <2>2, <2>4, ServingStays, ZenonT(30)
  <2>6. StackInv'
    BY <2>1, <2>2, <2>4, StackStays DEF Parked
  <2>7. Cardinality(Serving)' = Cardinality(Serving)
    BY <2>5
  <2>8. ThreadsExact'
    BY <1>c, <1>s, <1>w, <2>3, <2>4, <2>7, Zenon
       DEF ThreadsExact, Outstanding, Wanted
  <2> QED
    BY <2>6, <2>8, Zenon
<1>4. CASE LoadPauseCount(w)
  <2>1. PICK l \in {"decrement", "start"} : Goto(w, l)
    BY <1>4 DEF LoadPauseCount
  <2>2. l \in Label /\ pc[w] = "got"
    BY <1>4 DEF LoadPauseCount, Label, Running
  <2>3. Count("undo")' = Count("undo")
    BY <1>p, <2>1, <2>2, CountMove, Zenon
  <2>4. /\ m_pauseCount' = m_pauseCount
        /\ UNCHANGED <<m_paused, everyone, wakeCount_, owner, target, amount,
                       m_numberOfThreads>>
    BY <1>4 DEF LoadPauseCount, pool, callers
  <2>5. Serving' = Serving
    BY <2>1, <2>2, <2>4, ServingStays, Zenon
  <2>6. StackInv'
    BY <2>1, <2>2, <2>4, StackStays, Zenon DEF Parked
  <2>7. Cardinality(Serving)' = Cardinality(Serving)
    BY <2>5
  <2>8. ThreadsExact'
    BY <1>c, <1>s, <1>w, <2>3, <2>4, <2>7, Zenon
       DEF ThreadsExact, Outstanding, Wanted
  <2> QED
    BY <2>6, <2>8
<1>5. CASE Undo(w)
  <2>1. PICK l \in {"start"} : Goto(w, l)
    BY <1>5 DEF Undo
  <2>2. l \in Label /\ pc[w] = "undo"
    BY <1>5 DEF Undo, Label, Running
  <2>3. Count("undo")' = Count("undo") - 1
    BY <1>p, <2>1, <2>2, CountMove, Zenon
  <2>4. /\ m_pauseCount' = m_pauseCount + 1
        /\ UNCHANGED <<m_paused, everyone, wakeCount_, owner, target, amount,
                       m_numberOfThreads>>
    BY <1>5 DEF Undo, pool, callers
  <2>5. Serving' = Serving
    BY <2>1, <2>2, <2>4, ServingStays, Zenon
  <2>6. StackInv'
    BY <2>1, <2>2, <2>4, StackStays, Zenon DEF Parked
  <2>7. Cardinality(Serving)' = Cardinality(Serving)
    BY <2>5
  <2>8. ThreadsExact'
    BY <1>c, <1>s, <1>w, <2>3, <2>4, <2>7
       DEF ThreadsExact, Outstanding, Wanted
  <2> QED
    BY <2>6, <2>8, Zenon
<1>6. CASE StartTask(w)
  <2>1. PICK l \in {"task"} : Goto(w, l)
    BY <1>6 DEF StartTask
  <2>2. l \in Label /\ pc[w] = "start"
    BY <1>6, Zenon DEF StartTask, Label, Running
  <2>3. Count("undo")' = Count("undo")
    BY <1>p, <2>1, <2>2, CountMove, Zenon
  <2>4. /\ m_pauseCount' = m_pauseCount
        /\ UNCHANGED <<m_paused, everyone, wakeCount_, owner, target, amount,
                       m_numberOfThreads>>
    BY <1>6, Zenon DEF StartTask, pool, callers
  <2>5. Serving' = Serving
    BY <2>1, <2>2, <2>4, ServingStays, Zenon
  <2>6. StackInv'
    BY <2>1, <2>2, <2>4, StackStays DEF Parked
  <2>7. Cardinality(Serving)' = Cardinality(Serving)
    BY <2>5
  <2>8. ThreadsExact'
    BY <1>c, <1>s, <1>w, <2>3, <2>4, <2>7, Zenon
       DEF ThreadsExact, Outstanding, Wanted
  <2> QED
    BY <2>6, <2>8
<1>7. CASE FinishTask(w)
  <2>1. PICK l \in {"wait"} : Goto(w, l)
    BY <1>7 DEF FinishTask
  <2>2. l \in Label /\ pc[w] = "task"
    BY <1>7 DEF FinishTask, Label, Running
  <2>3. Count("undo")' = Count("undo")
    BY <1>p, <2>1, <2>2, CountMove, Zenon
  <2>4. /\ m_pauseCount' = m_pauseCount
        /\ UNCHANGED <<m_paused, everyone, wakeCount_, owner, target, amount,
                       m_numberOfThreads>>
    BY <1>7 DEF FinishTask, pool, callers
  <2>5. Serving' = Serving
    BY <2>1, <2>2, <2>4, ServingStays, Zenon
  <2>6. StackInv'
    BY <2>1, <2>2, <2>4, StackStays, Zenon DEF Parked
  <2>7. Cardinality(Serving)' = Cardinality(Serving)
    BY <2>5
  <2>8. ThreadsExact'
    BY <1>c, <1>s, <1>w, <2>3, <2>4, <2>7
       DEF ThreadsExact, Outstanding, Wanted
  <2> QED
    BY <2>6, <2>8
<1>8. CASE Leave(w)
  <2>1. PICK l \in {"signal", "sleep"} : Goto(w, l)
    BY <1>8 DEF Leave
  <2>2. l \in Label /\ pc[w] = "leave"
    BY <1>8, Zenon DEF Leave, Label, Running
  <2>3. Count("undo")' = Count("undo")
    BY <1>p, <2>1, <2>2, CountMove, Zenon
  <2>4. /\ m_pauseCount' = m_pauseCount
        /\ UNCHANGED <<m_paused, everyone, wakeCount_, owner, target, amount,
                       m_numberOfThreads>>
    BY <1>8 DEF Leave, pool, callers
  <2>5. Serving' = Serving
    BY <2>1, <2>2, <2>4, ServingStays, Zenon
  <2>6. StackInv'
    BY <2>1, <2>2, <2>4, StackStays DEF Parked
  <2>7. Cardinality(Serving)' = Cardinality(Serving)
    BY <2>5
  <2>8. ThreadsExact'
    BY <1>c, <1>s, <1>w, <2>3, <2>4, <2>7, Zenon
       DEF ThreadsExact, Outstanding, Wanted
  <2> QED
    BY <2>6, <2>8
<1>9. CASE SetAllPaused(w)
  <2>1. PICK l \in {"sleep"} : Goto(w, l)
    BY <1>9 DEF SetAllPaused
  <2>2. l \in Label /\ pc[w] = "signal"
    BY <1>9, Zenon DEF SetAllPaused, Label, Running
  <2>3. Count("undo")' = Count("undo")
    BY <1>p, <2>1, <2>2, CountMove, Zenon
  <2>4. /\ m_pauseCount' = m_pauseCount
        /\ UNCHANGED <<m_paused, everyone, wakeCount_, owner, target, amount,
                       m_numberOfThreads>>
    BY <1>9 DEF SetAllPaused, pool, callers
  <2>5. Serving' = Serving
    BY <2>1, <2>2, <2>4, ServingStays, Zenon
  <2>6. StackInv'
    BY <2>1, <2>2, <2>4, StackStays DEF Parked
  <2>7. Cardinality(Serving)' = Cardinality(Serving)
    BY <2>5
  <2>8. ThreadsExact'
    BY <1>c, <1>s, <1>w, <2>3, <2>4, <2>7, Zenon
       DEF ThreadsExact, Outstanding, Wanted
  <2> QED
    BY <2>6, <2>8
<1>10. CASE Wake(w)
  <2>1. PICK l \in {"exited", "enter"} : Goto(w, l)
    BY <1>10, Zenon DEF Wake
  <2>2. l \in Label /\ pc[w] = "sleep"
    BY <1>10 DEF Wake, Label, Running
  <2>3. Count("undo")' = Count("undo")
    BY <1>p, <2>1, <2>2, CountMove, ZenonT(30)
  <2>4. /\ UNCHANGED <<m_paused, everyone, owner, target, amount, m_pauseCount,
                       m_numberOfThreads>>
        /\ wakeCount_[w] > 0
        /\ wakeCount_' = [wakeCount_ EXCEPT ![w] = @ - 1]
    BY <1>10 DEF Wake, pool, callers
  <2>5. Serving' = Serving
    BY <2>1, <2>2, <2>4, ServingStays, Zenon
  <2>6. StackInv'
    <3> SUFFICES ASSUME ~ Deleting
                 PROVE  StackInv'
      BY <2>4, Zenon DEF StackInv, Deleting
    <3>1. /\ \A v \in Worker : pc'[v] = IF v = w THEN l ELSE pc[v]
          /\ \A v \in Worker :
               wakeCount_'[v] = IF v = w THEN wakeCount_[w] - 1 ELSE wakeCount_[v]
      BY <2>1, <2>4, Zenon DEF TypeOK, Goto
    <3>2. wakeCount_[w] = 1
      BY <2>4 DEF StackInv, TypeOK
    <3>3. \A i \in DOMAIN m_paused : m_paused[i] \in Worker /\ m_paused[i] # w
      BY <3>2 DEF TypeOK, StackInv
    <3>4. l \notin Parked
      BY DEF Parked
    <3> QED
      BY <2>4, <3>1, <3>2, <3>3, <3>4 DEF StackInv
  <2>7. Cardinality(Serving)' = Cardinality(Serving)
    BY <2>5
  <2>8. ThreadsExact'
    BY <1>c, <1>s, <1>w, <2>3, <2>4, <2>7, Zenon
       DEF ThreadsExact, Outstanding, Wanted
  <2> QED
    BY <2>6, <2>8, Zenon
<1>11. CASE Decrement(w)
  <2>1. pc[w] = "decrement" /\ m_pauseCount' = m_pauseCount - 1
    BY <1>11, Zenon DEF Decrement
  <2>2. UNCHANGED <<m_paused, everyone, wakeCount_, owner, target, amount,
                    m_numberOfThreads>>
    BY <1>11 DEF Decrement, callers
  <2>3. CASE Goto(w, "undo")
    <3>1. "undo" \in Label
      BY Zenon DEF Label, Running
    <3>2. Count("undo")' = Count("undo") + 1
      BY <1>p, <2>1, <2>3, <3>1, CountMove, Zenon
    <3>3. Serving' = Serving
      BY <2>1, <2>2, <2>3, <3>1, ServingStays, Zenon
    <3>4. StackInv'
      BY <2>1, <2>2, <2>3, <3>1, StackStays, Zenon DEF Parked
    <3>5. Cardinality(Serving)' = Cardinality(Serving)
      BY <3>3
    <3>6. ThreadsExact'
      BY <1>c, <1>s, <1>w, <2>1, <2>2, <3>2, <3>5
         DEF ThreadsExact, Outstanding, Wanted
    <3> QED
      BY <3>4, <3>6
  <2>4. CASE Goto(w, "pause")
    <3>1. "pause" \in Label
      BY DEF Label, Running
    <3>2. Count("undo")' = Count("undo")
      BY <1>p, <2>1, <2>4, <3>1, CountMove, Zenon
    <3>3. StackInv'
      BY <2>1, <2>2, <2>4, <3>1, StackStays DEF Parked
    <3>4. ASSUME ~ Deleting
          PROVE  Cardinality(Serving)' = Cardinality(Serving) - 1
      <4>1. w \in 1..everyone
        <5>1. ~ (w > everyone)
          BY <2>1, <3>4 DEF CountInv, Deleting
        <5> QED
          BY <5>1, <1>w DEF Worker
      <4>2. \A i \in DOMAIN m_paused : m_paused[i] # w
        BY <2>1, <3>4, Zenon DEF StackInv, Parked
      <4>3. w \in Serving
        BY <2>1, <4>1, <4>2, Zenon DEF Serving
      <4>4. \A v \in 1..everyone : v \in Worker
        BY WorkersAssumption DEF TypeOK, Worker
      <4>5. \A v \in Worker : pc'[v] = IF v = w THEN "pause" ELSE pc[v]
        BY <1>p, <2>4, Zenon DEF Goto
      <4>6. Serving' = Serving \ {w}
        BY <2>2, <4>1, <4>4, <4>5 DEF Serving
      <4>7. Cardinality(Serving \ {w}) = Cardinality(Serving) - 1
        BY <1>s, <4>3, FS_RemoveElement, Zenon
      <4> QED
        BY <4>6, <4>7, Zenon
    <3>5. ThreadsExact'
      BY <1>c, <1>s, <1>w, <2>1, <2>2, <3>2, <3>4
         DEF ThreadsExact, Outstanding, Wanted, Deleting
    <3> QED
      BY <3>3, <3>5
  <2> QED
    BY <1>11, <2>3, <2>4, Zenon DEF Decrement
<1>12. CASE PushPaused(w)
  <2>1. /\ pc[w] = "pause" /\ m_paused' = <<w>> \o m_paused
        /\ Goto(w, "leave")
        /\ UNCHANGED <<everyone, wakeCount_, owner, target, amount,
                       m_pauseCount, m_numberOfThreads>>
    BY <1>12 DEF PushPaused, callers
  <2>2. "leave" \in Label
    BY Zenon DEF Label, Running
  <2>3. Count("undo")' = Count("undo")
    BY <1>p, <2>1, <2>2, CountMove, Zenon
  <2>4. \A v \in Worker : pc'[v] = IF v = w THEN "leave" ELSE pc[v]
    BY <1>p, <2>1, Zenon DEF Goto
  <2>5. /\ DOMAIN m_paused = 1..Len(m_paused) /\ Len(m_paused) \in Nat
        /\ DOMAIN m_paused' = 1..(Len(m_paused) + 1)
        /\ m_paused'[1] = w
        /\ \A i \in 1..Len(m_paused) : m_paused'[i + 1] = m_paused[i]
    <3>1. m_paused \in Seq(Worker)
      BY Zenon DEF TypeOK
    <3>2. m_paused' = <<w>> \o m_paused
      BY <2>1, Zenon
    <3> QED
      BY <3>1, <3>2, PushFront, Zenon
  <2>6. \A i \in DOMAIN m_paused' :
          i = 1 \/ (i - 1 \in DOMAIN m_paused /\ m_paused'[i] = m_paused[i - 1])
    <3>1. ASSUME NEW i \in DOMAIN m_paused', i # 1
          PROVE  i - 1 \in DOMAIN m_paused /\ m_paused'[i] = m_paused[i - 1]
      <4>1. i - 1 \in 1..Len(m_paused) /\ (i - 1) + 1 = i
        BY <3>1, <2>5
      <4> QED
        BY <4>1, <2>5, Zenon
    <3> QED
      BY <3>1, Zenon
  <2>7. \A v : (\E i \in DOMAIN m_paused' : m_paused'[i] = v) <=>
               (v = w \/ \E i \in DOMAIN m_paused : m_paused[i] = v)
    <3>1. ASSUME NEW i \in DOMAIN m_paused
          PROVE  i + 1 \in DOMAIN m_paused' /\ m_paused'[i + 1] = m_paused[i]
      BY <2>5
    <3>2. 1 \in DOMAIN m_paused'
      BY <2>5
    <3>3. ASSUME NEW i \in DOMAIN m_paused'
          PROVE  m_paused'[i] = w \/ \E j \in DOMAIN m_paused : m_paused[j] = m_paused'[i]
      <4>1. CASE i = 1
        BY <4>1, <2>5, Zenon
      <4>2. CASE i # 1
        <5>1. i - 1 \in DOMAIN m_paused /\ m_paused'[i] = m_paused[i - 1]
          BY <4>2, <2>6, Zenon
        <5> QED
          BY <5>1, Zenon
      <4> QED
        BY <4>1, <4>2, Zenon
    <3>4. ASSUME NEW v, v = w \/ \E i \in DOMAIN m_paused : m_paused[i] = v
          PROVE  \E i \in DOMAIN m_paused' : m_paused'[i] = v
      <4>1. CASE v = w
        BY <4>1, <3>2, <2>5, Zenon
      <4>2. ASSUME NEW i \in DOMAIN m_paused, m_paused[i] = v
            PROVE  \E j \in DOMAIN m_paused' : m_paused'[j] = v
        BY <4>2, <3>1, Zenon
      <4> QED
        BY <3>4, <4>1, <4>2, Zenon
    <3> QED
      BY <3>3, <3>4, Zenon
  <2>8. Serving' = Serving
    <3>1. \A v \in 1..everyone : v \in Worker
      BY WorkersAssumption DEF TypeOK, Worker
    <3>2. ASSUME NEW v \in 1..everyone
          PROVE  v \in Serving' <=> v \in Serving
      <4>1. CASE v = w
        <5>1. \E i \in DOMAIN m_paused' : m_paused'[i] = v
          BY <4>1, <2>7, Zenon
        <5> QED
          BY <4>1, <5>1, <2>1 DEF Serving
      <4>2. CASE v # w
        <5>1. pc'[v] = pc[v]
          BY <4>2, <3>1, <2>4, Zenon
        <5>2. (\E i \in DOMAIN m_paused' : m_paused'[i] = v) <=>
                (\E i \in DOMAIN m_paused : m_paused[i] = v)
          BY <4>2, <2>7, Zenon
        <5> QED
          BY <5>1, <5>2, <2>1 DEF Serving
      <4> QED
        BY <4>1, <4>2, Zenon
    <3>3. everyone' = everyone
      BY <2>1, Zenon
    <3> QED
      BY <3>2, <3>3 DEF Serving
  <2>9. StackInv'
    <3> SUFFICES ASSUME ~ Deleting
                 PROVE  StackInv'
      BY <2>1, Zenon DEF StackInv, Deleting
    <3>1. \A i \in DOMAIN m_paused : m_paused[i] \in Worker /\ m_paused[i] # w
      <4>1. \A i \in DOMAIN m_paused : m_paused[i] \in Worker
        BY DEF TypeOK
      <4>2. \A i \in DOMAIN m_paused : pc[m_paused[i]] \in Parked
        BY DEF StackInv
      <4>3. pc[w] \notin Parked
        BY <2>1 DEF Parked
      <4> QED
        BY <4>1, <4>2, <4>3, Zenon
    <3>2. \A i, j \in DOMAIN m_paused' : m_paused'[i] = m_paused'[j] => i = j
      <4> SUFFICES ASSUME NEW i \in DOMAIN m_paused', NEW j \in DOMAIN m_paused',
                          m_paused'[i] = m_paused'[j]
                   PROVE  i = j
        BY Zenon
      <4>0. i \in Int /\ j \in Int
        BY <2>5
      <4>1. CASE i = 1 /\ j = 1
        BY <4>1, Zenon
      <4>2. CASE i = 1 /\ j # 1
        BY <4>2, <2>5, <2>6, <3>1, Zenon
      <4>3. CASE i # 1 /\ j = 1
        BY <4>3, <2>5, <2>6, <3>1, Zenon
      <4>4. CASE i # 1 /\ j # 1
        <5>1. i - 1 = j - 1
          BY <4>4, <2>6 DEF StackInv
        <5> QED
          BY <5>1, <4>0
      <4> QED
        BY <4>1, <4>2, <4>3, <4>4, Zenon
    <3>3. w <= everyone /\ wakeCount_[w] = 0
      <4>1. ~ (w > everyone)
        BY <2>1 DEF CountInv, Deleting
      <4>2. w <= everyone
        BY <4>1, <1>w DEF Worker
      <4> QED
        BY <4>2, <2>1, Zenon DEF StackInv, Parked
    <3>4. \A i \in DOMAIN m_paused' :
            /\ m_paused'[i] <= everyone'
            /\ pc'[m_paused'[i]] \in Parked
            /\ wakeCount_'[m_paused'[i]] = 0
      <4>1. pc'[w] \in Parked
        BY <2>4, Zenon DEF Parked
      <4>2. \A i \in DOMAIN m_paused : pc'[m_paused[i]] = pc[m_paused[i]]
        BY <2>4, <3>1
      <4>3. ASSUME NEW i \in DOMAIN m_paused'
            PROVE  /\ m_paused'[i] <= everyone
                   /\ pc'[m_paused'[i]] \in Parked
                   /\ wakeCount_[m_paused'[i]] = 0
        <5>1. CASE i = 1
          BY <5>1, <2>5, <3>3, <4>1, Zenon
        <5>2. CASE i # 1
          <6>1. i - 1 \in DOMAIN m_paused /\ m_paused'[i] = m_paused[i - 1]
            BY <5>2, <2>6
          <6> QED
            BY <6>1, <4>2, Zenon DEF StackInv
        <5> QED
          BY <5>1, <5>2, Zenon
      <4>4. everyone' = everyone /\ wakeCount_' = wakeCount_
        BY <2>1, Zenon
      <4> QED
        BY <4>3, <4>4, Zenon
    <3>5. \A v \in Worker : wakeCount_'[v] <= 1
      BY <2>1, Zenon DEF StackInv
    <3>6. \A v \in Worker : pc'[v] \notin Parked => wakeCount_'[v] = 0
      BY <2>1, <2>4, <3>3 DEF StackInv
    <3> QED
      BY <3>2, <3>4, <3>5, <3>6, Zenon DEF StackInv
  <2>10. Cardinality(Serving)' = Cardinality(Serving)
    BY <2>8
  <2>11. ThreadsExact'
    BY <1>c, <1>s, <1>w, <2>1, <2>3, <2>10, Zenon
       DEF ThreadsExact, Outstanding, Wanted
  <2> QED
    BY <2>9, <2>11
<1> QED
  BY <1>1, <1>2, <1>3, <1>4, <1>5, <1>6, <1>7, <1>8, <1>9, <1>10, <1>11, <1>12, Zenon DEF run

\* However the pool is resized, once the requests to pause have been taken as
\* many threads serve as were asked for (setNumberOfThreads, Worker::run).
THEOREM ThreadsAreExact == Spec => []ThreadsExact
<1> DEFINE Inv == TypeOK /\ CountInv /\ StackInv /\ ThreadsExact
<1>1. Init => Inv
  <2> SUFFICES ASSUME Init
               PROVE  Inv
    OBVIOUS
  <2>1. TypeOK /\ CountInv
    BY TypeInit, Zenon
  <2>2. StackInv
    BY DEF Init, StackInv, Parked
  <2>3. At("undo") = {} /\ Serving = {}
    BY DEF Init, At, Serving
  <2>4. Count("undo") = 0 /\ Cardinality(Serving) = 0
    BY <2>3, FS_EmptySet DEF Count
  <2>5. ThreadsExact
    BY <2>4 DEF Init, ThreadsExact, Outstanding, Wanted
  <2> QED
    BY <2>1, <2>2, <2>5, Zenon
<1>2. Inv /\ [Next]_vars => Inv'
  <2> SUFFICES ASSUME Inv, [Next]_vars
               PROVE  Inv'
    OBVIOUS
  <2>1. TypeOK' /\ CountInv'
    BY TypeStep, Zenon
  <2>2. CASE \/ addTask \/ Destroy \/ OwnerStep
             \/ \E n \in Worker \cup {0} : setNumberOfThreads(n)
    BY <2>1, <2>2, OwnerThreads, Zenon
  <2>3. CASE \E w \in Worker : run(w)
    BY <2>1, <2>3, RunThreads
  <2>4. CASE UNCHANGED vars
    <3>1. UNCHANGED <<m_paused, everyone, pc, wakeCount_, owner, target, amount,
                      m_pauseCount, m_numberOfThreads>>
      BY <2>4, Zenon DEF vars, pool, threads, callers
    <3>2. Serving' = Serving /\ Count("undo")' = Count("undo")
      BY <3>1, OwnerServing, Zenon
    <3>3. StackInv'
      BY <3>1 DEF StackInv, Deleting
    <3>4. ThreadsExact'
      BY <3>1, <3>2 DEF ThreadsExact, Outstanding, Wanted
    <3> QED
      BY <2>1, <3>3, <3>4, Zenon
  <2> QED
    BY <2>2, <2>3, <2>4, Zenon DEF Next
<1> QED
  BY <1>1, <1>2, PTL DEF Spec
===============================================================================
