--------------------------- MODULE SyncWorkerProofs ---------------------------
(***************************************************************************)
(* Proofs about the worker of an account: SyncWorker, its loop, for every  *)
(* set of accounts and every limit; and EventUpload, what its uploads make *)
(* of one event, for any groups of fields and any number of edits.         *)
(* Of the loop first what the gate's two operations keep, whoever calls    *)
(* them; then what the steps of a worker do to where its loop is.          *)
(***************************************************************************)
EXTENDS SyncWorker, EventUpload, FiniteSetTheorems, SequenceTheorems, TLAPS

Gate == [active : 0..Limit, queue : Seq(Accounts)]
Busy == {"enter", "token", "pull", "upload"}

BusyIn(ws) == {a \in Accounts : ws[a].run \in Busy}

\* GateCounts of any workers and any gate.
GateOK(ws, g) ==
  /\ g.active = Cardinality(BusyIn(ws))
  /\ \A a \in Accounts : ws[a].run = "queued" <=> \E i \in DOMAIN g.queue : g.queue[i] = a
  /\ \A i, j \in DOMAIN g.queue : g.queue[i] = g.queue[j] => i = j
  /\ g.queue # <<>> => g.active = Limit

LEMMA BusyFinite ==
  ASSUME NEW ws
  PROVE  IsFiniteSet(BusyIn(ws)) /\ Cardinality(BusyIn(ws)) \in Nat
<1>1. BusyIn(ws) \in SUBSET Accounts /\ IsFiniteSet(Accounts)
  BY AccountsAssumption DEF BusyIn
<1> QED
  BY <1>1, FS_Subset, FS_CardinalityType

\* A worker that was neither in a cycle nor waiting asks for a slot.
LEMMA GateGives ==
  ASSUME NEW ws, NEW vs, NEW g \in Gate, NEW a \in Accounts, GateOK(ws, g),
         ws[a].run \notin Busy, ws[a].run # "queued",
         vs[a].run = IF g.active < Limit THEN "enter" ELSE "queued",
         \A b \in Accounts \ {a} : vs[b].run = ws[b].run
  PROVE  AfterAcquire(a, g) \in Gate /\ GateOK(vs, AfterAcquire(a, g))
<1> DEFINE h == AfterAcquire(a, g)
<1>1. CASE g.active < Limit
  <2>1. h \in Gate /\ h.active = g.active + 1 /\ h.queue = g.queue
    BY <1>1, LimitAssumption DEF AfterAcquire, Gate
  <2>2. BusyIn(vs) = BusyIn(ws) \cup {a} /\ a \notin BusyIn(ws)
    BY <1>1 DEF BusyIn, Busy
  <2>3. Cardinality(BusyIn(vs)) = g.active + 1
    <3>1. IsFiniteSet(BusyIn(ws)) /\ Cardinality(BusyIn(ws)) = g.active
      BY BusyFinite DEF GateOK
    <3> QED
      BY <2>2, <3>1, FS_AddElement
  <2>4. \A b \in Accounts : vs[b].run = "queued" <=> ws[b].run = "queued"
    BY <1>1
  <2>5. g.queue = <<>>
    BY <1>1, LimitAssumption DEF GateOK, Gate
  <2> QED
    BY <2>1, <2>3, <2>4, <2>5 DEF GateOK
<1>2. CASE ~(g.active < Limit)
  <2>1. h \in Gate /\ h.active = g.active /\ h.queue = Append(g.queue, a)
    BY <1>2 DEF AfterAcquire, Gate
  <2>2. g.active = Limit
    BY <1>2, LimitAssumption DEF Gate
  <2>3. BusyIn(vs) = BusyIn(ws)
    BY <1>2 DEF BusyIn, Busy
  <2>4. \A i \in DOMAIN g.queue : g.queue[i] # a
    BY DEF GateOK
  <2>5. /\ DOMAIN h.queue = 1..(Len(g.queue) + 1) /\ DOMAIN g.queue = 1..Len(g.queue)
        /\ Len(g.queue) \in Nat
        /\ h.queue[Len(g.queue) + 1] = a
        /\ \A i \in DOMAIN g.queue : h.queue[i] = g.queue[i]
    BY <2>1 DEF Gate
  <2>6. \A b \in Accounts : vs[b].run = "queued" <=> \E i \in DOMAIN h.queue : h.queue[i] = b
    <3> SUFFICES ASSUME NEW b \in Accounts
                 PROVE  vs[b].run = "queued" <=> \E i \in DOMAIN h.queue : h.queue[i] = b
      OBVIOUS
    <3>1. CASE b = a
      BY <1>2, <2>5, <3>1
    <3>2. CASE b # a
      BY <2>5, <3>2 DEF GateOK
    <3> QED
      BY <3>1, <3>2
  <2>7. \A i, j \in DOMAIN h.queue : h.queue[i] = h.queue[j] => i = j
    BY <2>4, <2>5 DEF GateOK
  <2> QED
    BY <2>1, <2>2, <2>3, <2>6, <2>7 DEF GateOK
<1> QED
  BY <1>1, <1>2

\* A worker's cycle ends, and the first that waits is let in.
LEMMA GateTakes ==
  ASSUME NEW ws, NEW vs, NEW g \in Gate, NEW a \in Accounts, GateOK(ws, g),
         ws[a].run \in Busy, vs[a].run \notin Busy, vs[a].run # "queued",
         \A b \in Accounts \ {a} :
           vs[b].run = IF g.queue # <<>> /\ b = Head(g.queue) THEN "enter" ELSE ws[b].run
  PROVE  Released(g) \in Gate /\ GateOK(vs, Released(g))
<1> DEFINE h == Released(g)
<1>1. a \in BusyIn(ws) /\ a \notin BusyIn(vs)
  BY DEF BusyIn
<1>2. IsFiniteSet(BusyIn(ws)) /\ Cardinality(BusyIn(ws) \ {a}) = g.active - 1 /\ IsFiniteSet(BusyIn(ws) \ {a})
  BY <1>1, BusyFinite, FS_RemoveElement DEF GateOK
<1>3. CASE g.queue = <<>>
  <2>1. BusyIn(vs) = BusyIn(ws) \ {a}
    BY <1>1, <1>3 DEF BusyIn
  <2>2. g.active - 1 \in Nat
    BY <1>2, <2>1, BusyFinite
  <2>3. h \in Gate /\ h.active = g.active - 1 /\ h.queue = g.queue
    BY <1>3, <2>2, LimitAssumption DEF Released, Gate
  <2>4. \A b \in Accounts : vs[b].run = "queued" <=> ws[b].run = "queued"
    BY <1>3 DEF Busy
  <2> QED
    BY <1>2, <1>3, <2>1, <2>3, <2>4 DEF GateOK
<1>4. CASE g.queue # <<>>
  <2> DEFINE x == Head(g.queue)
  <2>1. /\ h \in Gate /\ h.active = g.active /\ h.queue = Tail(g.queue)
        /\ Len(g.queue) \in Nat \ {0}
        /\ DOMAIN g.queue = 1..Len(g.queue) /\ DOMAIN h.queue = 1..(Len(g.queue) - 1)
        /\ x = g.queue[1] /\ x \in Accounts
        /\ \A i \in DOMAIN h.queue : h.queue[i] = g.queue[i + 1]
    BY <1>4 DEF Released, Gate
  <2>2. ws[x].run = "queued" /\ x # a
    BY <2>1 DEF GateOK, Busy
  <2>3. BusyIn(vs) = (BusyIn(ws) \ {a}) \cup {x} /\ x \notin BusyIn(ws) \ {a}
    BY <1>1, <1>4, <2>1, <2>2 DEF BusyIn, Busy
  <2>4. Cardinality(BusyIn(vs)) = g.active
    <3>1. Cardinality(BusyIn(vs)) = g.active - 1 + 1
      BY <1>2, <2>3, FS_AddElement
    <3> QED
      BY <3>1 DEF Gate
  <2>5. \A b \in Accounts : vs[b].run = "queued" <=> \E i \in DOMAIN h.queue : h.queue[i] = b
    <3> SUFFICES ASSUME NEW b \in Accounts
                 PROVE  vs[b].run = "queued" <=> \E i \in DOMAIN h.queue : h.queue[i] = b
      OBVIOUS
    <3>1. CASE b = x
      <4>1. \A i \in DOMAIN h.queue : h.queue[i] # b
        BY <2>1, <3>1 DEF GateOK
      <4> QED
        BY <1>4, <2>2, <3>1, <4>1
    <3>2. CASE b # x /\ b = a
      <4>1. \A i \in DOMAIN h.queue : h.queue[i] # a
        BY <2>1 DEF GateOK, Busy
      <4> QED
        BY <3>2, <4>1
    <3>3. CASE b # x /\ b # a
      <4>1. vs[b].run = ws[b].run
        BY <1>4, <3>3
      <4>2. (\E i \in DOMAIN g.queue : g.queue[i] = b) => \E i \in DOMAIN h.queue : h.queue[i] = b
        <5> SUFFICES ASSUME NEW i \in DOMAIN g.queue, g.queue[i] = b
                     PROVE  \E j \in DOMAIN h.queue : h.queue[j] = b
          OBVIOUS
        <5>1. i - 1 \in DOMAIN h.queue /\ h.queue[i - 1] = g.queue[i]
          BY <2>1, <3>3
        <5> QED
          BY <5>1
      <4>3. (\E i \in DOMAIN h.queue : h.queue[i] = b) => \E i \in DOMAIN g.queue : g.queue[i] = b
        <5> SUFFICES ASSUME NEW i \in DOMAIN h.queue, h.queue[i] = b
                     PROVE  \E j \in DOMAIN g.queue : g.queue[j] = b
          OBVIOUS
        <5>1. i + 1 \in DOMAIN g.queue /\ g.queue[i + 1] = b
          BY <2>1
        <5> QED
          BY <5>1
      <4> QED
        BY <4>1, <4>2, <4>3 DEF GateOK
    <3> QED
      BY <3>1, <3>2, <3>3
  <2>6. \A i, j \in DOMAIN h.queue : h.queue[i] = h.queue[j] => i = j
    <3> SUFFICES ASSUME NEW i \in DOMAIN h.queue, NEW j \in DOMAIN h.queue, h.queue[i] = h.queue[j]
                 PROVE  i = j
      OBVIOUS
    <3>1. i + 1 \in DOMAIN g.queue /\ j + 1 \in DOMAIN g.queue /\ g.queue[i + 1] = g.queue[j + 1]
      BY <2>1
    <3>2. i + 1 = j + 1
      BY <3>1 DEF GateOK
    <3> QED
      BY <2>1, <3>2
  <2> QED
    BY <1>4, <2>1, <2>4, <2>5, <2>6 DEF GateOK
<1> QED
  BY <1>3, <1>4

-----------------------------------------------------------------------------
(* Where a step leaves the worker it moves, and the others.                *)

Asking == {"token", "pull", "upload"}

\* The invariant that is inductive.
IInv == TypeOK /\ GateCounts /\ PausedIsQuiet

Others(a) ==
  \A b \in Accounts \ {a} :
    worker'[b] = worker[b] \/ worker'[b] = [worker[b] EXCEPT !.run = "enter"]

\* A worker that is being left, or is not past the entry of its cycle.
Held(w) == Leaving(w) \/ w.run \notin Asking

\* What every step of worker a has to establish.
Sound(a) ==
  /\ TypeOK' /\ GateCounts' /\ Others(a)
  /\ worker'[a].run \in Asking => ~worker'[a].paused
  /\ Held(worker[a]) /\ worker'[a].run \in {"pull", "upload"} => worker'[a].run = worker[a].run

LEMMA GateCountsIsGateOK == GateCounts <=> GateOK(worker, gate)
  BY DEF GateCounts, GateOK, InCycle, BusyIn, Busy

LEMMA GateCountsIsGateOKNext == GateCounts' <=> GateOK(worker', gate')
  BY DEF GateCounts, GateOK, InCycle, BusyIn, Busy

LEMMA LetInWorker ==
  ASSUME NEW w \in Worker
  PROVE  /\ [w EXCEPT !.run = "enter"] \in Worker
         /\ [w EXCEPT !.run = "enter"].run = "enter"
  BY DEF Worker

LEMMA LoopingWorker ==
  ASSUME NEW w \in Worker, NEW g
  PROVE  /\ Looping(w, g) \in Worker
         /\ Looping(w, g).run = IF g.active < Limit THEN "enter" ELSE "queued"
         /\ Looping(w, g).paused = w.paused
  BY DEF Looping, Acquired, Worker

LEMMA LoopOverWorker ==
  ASSUME NEW w \in Worker
  PROVE  LoopOver(w) \in Worker /\ LoopOver(w).run = "over"
  BY DEF LoopOver, Worker

\* The changes of a worker that leave its loop where it is.
LEMMA InPlace ==
  ASSUME NEW w \in Worker
  PROVE  /\ Woken(w) \in Worker /\ Woken(w).run = w.run /\ Woken(w).paused = w.paused
         /\ Subscribed(w) \in Worker /\ Subscribed(w).run = w.run /\ Subscribed(w).paused = w.paused
         /\ Drained(w) \in Worker /\ Drained(w).run = w.run /\ Drained(w).paused = w.paused
         /\ Handed(w) \in Worker /\ Handed(w).run = w.run
         /\ Retried(w) \in Worker /\ Retried(w).run = w.run
         /\ SignInNeeded(w) \in Worker /\ SignInNeeded(w).run = w.run
         /\ Periodic(w) \in Worker /\ Periodic(w).run = w.run
<1>1. Woken(w) \in Worker /\ Woken(w).run = w.run /\ Woken(w).paused = w.paused
  BY DEF Woken, Worker
<1>2. Subscribed(w) \in Worker /\ Subscribed(w).run = w.run /\ Subscribed(w).paused = w.paused
  BY DEF Subscribed, Worker
<1>3. Drained(w) \in Worker /\ Drained(w).run = w.run /\ Drained(w).paused = w.paused
  BY DEF Drained, Worker
<1>4. Handed(w) \in Worker /\ Handed(w).run = w.run
  <2> DEFINE e == w.edits \/ w.taken
             n == w.notice \/ (w.taken /\ w.subscribed)
  <2>1. e \in BOOLEAN /\ n \in BOOLEAN
    OBVIOUS
  <2>2. Handed(w) = [w EXCEPT !.taken = FALSE, !.edits = e, !.notice = n]
    BY DEF Handed
  <2> HIDE DEF e, n
  <2> QED
    BY <2>1, <2>2 DEF Worker
<1>5. Retried(w) \in Worker /\ Retried(w).run = w.run
  BY DEF Retried, Leaving, Worker
<1>6. SignInNeeded(w) \in Worker /\ SignInNeeded(w).run = w.run
  BY DEF SignInNeeded, Worker
<1>7. Periodic(w) \in Worker /\ Periodic(w).run = w.run
  BY DEF Periodic, Leaving, Worker
<1> QED
  BY <1>1, <1>2, <1>3, <1>4, <1>5, <1>6, <1>7

\* A worker changes and nobody asks for or gives up a slot.
LEMMA BecomesStep ==
  ASSUME IInv, NEW a \in Accounts, NEW w \in Worker, Becomes(a, w), UNCHANGED gate,
         w.run \in Busy <=> worker[a].run \in Busy,
         w.run = "queued" <=> worker[a].run = "queued"
  PROVE  TypeOK' /\ GateCounts' /\ Others(a) /\ worker'[a] = w
<1>1. worker' \in [Accounts -> Worker] /\ worker'[a] = w /\ \A b \in Accounts \ {a} : worker'[b] = worker[b]
  BY DEF IInv, TypeOK, Becomes
<1>2. BusyIn(worker') = BusyIn(worker)
  BY <1>1 DEF BusyIn
<1>3. GateOK(worker', gate')
  BY <1>1, <1>2, GateCountsIsGateOK DEF GateOK, IInv
<1> QED
  BY <1>1, <1>3, GateCountsIsGateOKNext DEF IInv, TypeOK, Others

\* A worker outside the gate asks for a slot.
LEMMA LoopStep ==
  ASSUME IInv, NEW a \in Accounts, NEW w \in Worker,
         worker[a].run \notin Busy, worker[a].run # "queued",
         NEW v \in Worker, v.run = Looping(w, gate).run,
         Becomes(a, v), gate' = AfterAcquire(a, gate)
  PROVE  /\ TypeOK' /\ GateCounts' /\ Others(a)
         /\ worker'[a] = v /\ v.run \in {"enter", "queued"}
<1>1. worker' \in [Accounts -> Worker] /\ worker'[a] = v /\ \A b \in Accounts \ {a} : worker'[b] = worker[b]
  BY DEF IInv, TypeOK, Becomes
<1>2. v.run = IF gate.active < Limit THEN "enter" ELSE "queued"
  BY LoopingWorker
<1>3. gate \in Gate /\ GateOK(worker, gate)
  BY GateCountsIsGateOK DEF IInv, TypeOK, Gate
<1>4. gate' \in Gate /\ GateOK(worker', gate')
  BY <1>1, <1>2, <1>3, GateGives
<1> QED
  BY <1>1, <1>2, <1>4, GateCountsIsGateOKNext DEF TypeOK, Gate, Others

LEMMA EnsureLoopStep ==
  ASSUME IInv, NEW a \in Accounts, NEW w \in Worker, EnsureLoop(a, w),
         w.run = worker[a].run \/ (worker[a].run = "over" /\ w.run = "none")
  PROVE  /\ TypeOK' /\ GateCounts' /\ Others(a)
         /\ worker'[a].run \in {w.run, "enter", "queued"}
         /\ worker'[a].paused = w.paused
<1>1. CASE Loopable(w)
  <2>1. worker[a].run \notin Busy /\ worker[a].run # "queued"
    BY <1>1 DEF Loopable, Busy
  <2> DEFINE v == Looping(w, gate)
  <2>2. Becomes(a, v) /\ gate' = AfterAcquire(a, gate)
    BY <1>1 DEF EnsureLoop
  <2>3. v \in Worker /\ v.run = Looping(w, gate).run /\ v.paused = w.paused
    BY LoopingWorker
  <2> HIDE DEF v
  <2> QED
    BY <2>1, <2>2, <2>3, LoopStep
<1>2. CASE ~Loopable(w)
  BY <1>2, BecomesStep DEF EnsureLoop, Busy
<1> QED
  BY <1>1, <1>2

LEMMA WakeStep ==
  ASSUME IInv, NEW a \in Accounts, NEW w \in Worker, Wake(a, w),
         w.run = worker[a].run, worker[a].run \in Asking => ~w.paused
  PROVE  Sound(a)
<1>1. /\ TypeOK' /\ GateCounts' /\ Others(a)
      /\ worker'[a].run \in {w.run, "enter", "queued"}
      /\ worker'[a].paused = w.paused
  <2>1. CASE Hears(w)
    BY <2>1, InPlace, EnsureLoopStep DEF Wake
  <2>2. CASE ~Hears(w)
    BY <2>2, BecomesStep DEF Wake
  <2> QED
    BY <2>1, <2>2
<1> QED
  BY <1>1 DEF Sound, Asking

\* The slot of a worker goes to the first that waits, and the worker's loop is over.
LEMMA ReleaseStep ==
  ASSUME IInv, NEW a \in Accounts, NEW v \in Worker, worker[a].run \in Busy, v.run = "over"
  PROVE  LET ws == [LetIn(worker, gate) EXCEPT ![a] = v] IN
         /\ ws \in [Accounts -> Worker] /\ ws[a] = v
         /\ \A b \in Accounts \ {a} :
              ws[b] = worker[b] \/ ws[b] = [worker[b] EXCEPT !.run = "enter"]
         /\ Released(gate) \in Gate /\ GateOK(ws, Released(gate))
<1> DEFINE ws == [LetIn(worker, gate) EXCEPT ![a] = v]
<1>1. gate \in Gate /\ GateOK(worker, gate) /\ worker \in [Accounts -> Worker]
  BY GateCountsIsGateOK DEF IInv, TypeOK, Gate
<1>2. CASE gate.queue = <<>>
  <2>1. ws \in [Accounts -> Worker] /\ ws[a] = v /\ \A b \in Accounts \ {a} : ws[b] = worker[b]
    BY <1>1, <1>2 DEF LetIn
  <2> QED
    BY <1>1, <1>2, <2>1, GateTakes DEF Busy
<1>3. CASE gate.queue # <<>>
  <2> DEFINE x == Head(gate.queue)
             y == [worker[x] EXCEPT !.run = "enter"]
  <2>1. x \in Accounts
    BY <1>1, <1>3 DEF Gate
  <2>2. LetIn(worker, gate) = [worker EXCEPT ![x] = y]
    BY <1>1, <1>3, <2>1 DEF LetIn
  <2>3. y \in Worker /\ y.run = "enter"
    BY <1>1, <2>1, LetInWorker
  <2> HIDE DEF x, y
  <2>4. /\ ws \in [Accounts -> Worker] /\ ws[a] = v
        /\ \A b \in Accounts \ {a} : ws[b] = IF b = x THEN y ELSE worker[b]
    BY <1>1, <2>1, <2>2, <2>3
  <2>5. \A b \in Accounts \ {a} :
          ws[b].run = IF gate.queue # <<>> /\ b = Head(gate.queue) THEN "enter" ELSE worker[b].run
    BY <1>3, <2>3, <2>4 DEF x
  <2> HIDE DEF ws
  <2>6. Released(gate) \in Gate /\ GateOK(ws, Released(gate))
    BY <1>1, <2>4, <2>5, GateTakes DEF Busy
  <2> QED
    BY <2>4, <2>6 DEF ws, y
<1> QED
  BY <1>2, <1>3

LEMMA EndCycleStep ==
  ASSUME IInv, NEW a \in Accounts, NEW w \in Worker, worker[a].run \in Busy, EndCycle(a, w)
  PROVE  Sound(a)
<1> DEFINE ws == [LetIn(worker, gate) EXCEPT ![a] = LoopOver(w)]
           g  == Released(gate)
<1>1. /\ ws \in [Accounts -> Worker] /\ ws[a] = LoopOver(w) /\ LoopOver(w).run = "over"
      /\ \A b \in Accounts \ {a} :
           ws[b] = worker[b] \/ ws[b] = [worker[b] EXCEPT !.run = "enter"]
      /\ g \in Gate /\ GateOK(ws, g)
  BY LoopOverWorker, ReleaseStep
<1>2. CASE Again(w)
  <2> DEFINE v == Looping(w, g)
  <2>1. worker' = [LetIn(worker, gate) EXCEPT ![a] = v] /\ gate' = AfterAcquire(a, g)
    BY <1>2 DEF EndCycle
  <2>2. v \in Worker /\ v.run = (IF g.active < Limit THEN "enter" ELSE "queued")
    BY LoopingWorker
  <2> HIDE DEF v, g
  <2>3. worker' = [ws EXCEPT ![a] = v]
    BY <2>1
  <2> HIDE DEF ws
  <2>4. worker' \in [Accounts -> Worker] /\ worker'[a] = v /\ \A b \in Accounts \ {a} : worker'[b] = ws[b]
    BY <1>1, <2>2, <2>3
  <2>5. ws[a].run \notin Busy /\ ws[a].run # "queued"
    BY <1>1 DEF Busy
  <2>6. gate' \in Gate /\ GateOK(worker', gate')
    BY <1>1, <2>1, <2>2, <2>4, <2>5, GateGives
  <2> QED
    BY <1>1, <2>2, <2>4, <2>6, GateCountsIsGateOKNext DEF Sound, TypeOK, Gate, Others, Asking
<1>3. CASE ~Again(w)
  <2>1. worker' = ws /\ gate' = g
    BY <1>3 DEF EndCycle
  <2> HIDE DEF ws, g
  <2> QED
    BY <1>1, <2>1, GateCountsIsGateOKNext DEF Sound, TypeOK, Gate, Others, Asking
<1> QED
  BY <1>2, <1>3

\* A worker changes in place; its loop may go on within its cycle.
LEMMA MoveStep ==
  ASSUME IInv, NEW a \in Accounts, NEW w \in Worker, Becomes(a, w), UNCHANGED gate,
         w.run \in Busy <=> worker[a].run \in Busy,
         w.run = "queued" <=> worker[a].run = "queued",
         w.run \in Asking => ~w.paused,
         Held(worker[a]) /\ w.run \in {"pull", "upload"} => w.run = worker[a].run
  PROVE  Sound(a)
  BY BecomesStep DEF Sound

-----------------------------------------------------------------------------
(* The actions.                                                            *)

LEMMA OutsideSound ==
  ASSUME IInv, NEW a \in Accounts,
         Start(a) \/ Notice(a) \/ TimerFires(a) \/ Outside(a)
  PROVE  Sound(a)
<1>0. worker[a] \in Worker /\ (worker[a].run \in Asking => ~worker[a].paused)
  BY DEF IInv, TypeOK, PausedIsQuiet, Asking
<1>1. CASE Start(a)
  <2> DEFINE w == [worker[a] EXCEPT !.started = TRUE]
  <2>1. w \in Worker /\ w.run = worker[a].run /\ w.paused = worker[a].paused
    BY <1>0 DEF Worker
  <2>2. Wake(a, Subscribed(w))
    BY <1>1 DEF Start
  <2> HIDE DEF w
  <2> QED
    BY <1>0, <2>1, <2>2, InPlace, WakeStep
<1>2. CASE Notice(a)
  <2> DEFINE w == [worker[a] EXCEPT !.notice = FALSE]
  <2>1. w \in Worker /\ w.run = worker[a].run /\ w.paused = worker[a].paused
    BY <1>0 DEF Worker
  <2> QED
    BY <1>0, <1>2, <2>1, WakeStep DEF Notice
<1>3. CASE TimerFires(a) \/ Prompt(a)
  BY <1>0, <1>3, WakeStep DEF TimerFires, Prompt
<1>4. CASE Connection(a)
  <2> DEFINE w == [worker[a] EXCEPT !.paused = FALSE, !.draining = FALSE]
             v == IF w.started /\ ~w.subscribed THEN Subscribed(w) ELSE w
  <2>1. w \in Worker /\ w.run = worker[a].run /\ w.paused = FALSE
    BY <1>0 DEF Worker
  <2>2. Wake(a, v)
    BY <1>4 DEF Connection
  <2> HIDE DEF w
  <2>3. v \in Worker /\ v.run = worker[a].run /\ v.paused = FALSE
    BY <2>1, InPlace
  <2> QED
    BY <2>2, <2>3, WakeStep
<1>5. CASE Edit(a)
  <2> DEFINE w == [worker[a] EXCEPT !.edits = TRUE, !.notice = worker[a].subscribed]
  <2>1. w \in Worker /\ w.run = worker[a].run /\ w.paused = worker[a].paused
    BY <1>0 DEF Worker
  <2> QED
    BY <1>0, <1>5, <2>1, MoveStep DEF Edit
<1>6. CASE DrainTimesOut(a)
  <2> DEFINE w == [worker[a] EXCEPT !.awaited = FALSE, !.aborted = TRUE]
  <2>1. w \in Worker /\ w.run = worker[a].run /\ w.paused = worker[a].paused
    BY <1>0 DEF Worker
  <2> QED
    BY <1>0, <1>6, <2>1, MoveStep DEF DrainTimesOut
<1>7. CASE Stop(a)
  <2> DEFINE w == [worker[a] EXCEPT !.stopped = TRUE, !.stopping = FALSE, !.aborted = TRUE]
  <2>1. w \in Worker /\ w.run = worker[a].run /\ w.paused = worker[a].paused
    BY <1>0 DEF Worker
  <2> QED
    BY <1>0, <1>7, <2>1, MoveStep DEF Stop
<1>8. ASSUME NEW forStop \in BOOLEAN, Drain(a, forStop)
      PROVE  Sound(a)
  <2> DEFINE w == [worker[a] EXCEPT !.stopping = forStop]
  <2>1. w \in Worker /\ w.run = worker[a].run /\ w.paused = worker[a].paused
    BY <1>0 DEF Worker
  <2>2. IF Loopable(w)
        THEN Becomes(a, Drained(Looping(w, gate))) /\ gate' = AfterAcquire(a, gate)
        ELSE Becomes(a, Drained(w)) /\ UNCHANGED gate
    BY <1>8 DEF Drain
  <2> HIDE DEF w
  <2>3. CASE Loopable(w)
    <3> DEFINE u == Looping(w, gate)
               v == Drained(u)
    <3>1. u \in Worker
      BY <2>1, LoopingWorker
    <3>2. v \in Worker /\ v.run = u.run
      BY <3>1, InPlace
    <3>3. worker[a].run \notin Busy /\ worker[a].run # "queued"
      BY <2>1, <2>3 DEF Loopable, Busy
    <3> HIDE DEF v
    <3>4. /\ TypeOK' /\ GateCounts' /\ Others(a)
          /\ worker'[a] = v /\ v.run \in {"enter", "queued"}
      BY <2>1, <2>2, <2>3, <3>2, <3>3, LoopStep DEF v
    <3> QED
      BY <3>4 DEF Sound, Asking
  <2>4. CASE ~Loopable(w)
    BY <1>0, <2>1, <2>2, <2>4, InPlace, MoveStep
  <2> QED
    BY <2>3, <2>4
<1> QED
  BY <1>1, <1>2, <1>3, <1>4, <1>5, <1>6, <1>7, <1>8 DEF Outside

LEMMA CycleSound ==
  ASSUME IInv, NEW a \in Accounts, Cycle(a)
  PROVE  Sound(a)
<1>0. worker[a] \in Worker /\ (worker[a].run \in Asking => ~worker[a].paused)
  BY DEF IInv, TypeOK, PausedIsQuiet, Asking
<1>1. CASE Enter(a)
  <2>1. CASE Admitted(worker[a])
    <3> DEFINE w == [worker[a] EXCEPT !.run = "token"]
    <3>1. w \in Worker /\ w.run = "token" /\ w.paused = worker[a].paused /\ ~w.paused
      BY <1>0, <2>1 DEF Worker, Admitted
    <3>2. Becomes(a, w) /\ UNCHANGED gate /\ worker[a].run = "enter"
      BY <1>1, <2>1 DEF Enter
    <3> QED
      BY <3>1, <3>2, MoveStep DEF Busy
  <2>2. CASE ~Admitted(worker[a])
    BY <1>0, <1>1, <2>2, EndCycleStep DEF Enter, Busy
  <2> QED
    BY <2>1, <2>2
<1>2. CASE Token(a)
  <2>1. CASE Proceeds(worker[a])
    <3> DEFINE w == [worker[a] EXCEPT !.run = "pull", !.aborted = FALSE]
    <3>1. w \in Worker /\ w.run = "pull" /\ w.paused = worker[a].paused
      BY <1>0 DEF Worker
    <3>2. Becomes(a, w) /\ UNCHANGED gate /\ worker[a].run = "token"
      BY <1>2, <2>1 DEF Token
    <3> QED
      BY <1>0, <2>1, <3>1, <3>2, MoveStep DEF Busy, Asking, Held, Proceeds
  <2>2. CASE ~Proceeds(worker[a])
    BY <1>0, <1>2, <2>2, EndCycleStep DEF Token, Busy
  <2> QED
    BY <2>1, <2>2
<1>3. CASE Pulled(a)
  <2>1. CASE ~Proceeds(worker[a]) \/ worker[a].aborted
    <3> DEFINE w == [worker[a] EXCEPT !.last = "cut"]
    <3>1. w \in Worker
      BY <1>0 DEF Worker
    <3> QED
      BY <1>3, <2>1, <3>1, EndCycleStep DEF Pulled, Busy
  <2>2. CASE ~(~Proceeds(worker[a]) \/ worker[a].aborted)
    <3> DEFINE w == [worker[a] EXCEPT !.run = "upload", !.edits = FALSE, !.taken = worker[a].edits]
    <3>1. w \in Worker /\ w.run = "upload" /\ w.paused = worker[a].paused
      BY <1>0 DEF Worker
    <3>2. Becomes(a, w) /\ UNCHANGED gate /\ worker[a].run = "pull"
      BY <1>3, <2>2 DEF Pulled
    <3> QED
      BY <1>0, <2>2, <3>1, <3>2, MoveStep DEF Busy, Asking, Held, Proceeds
  <2> QED
    BY <2>1, <2>2
<1>4. CASE Uploaded(a)
  <2> DEFINE w == [worker[a] EXCEPT !.taken = FALSE]
  <2>1. w \in Worker
    BY <1>0 DEF Worker
  <2> QED
    BY <1>4, <2>1, InPlace, EndCycleStep DEF Uploaded, Busy
<1>5. CASE Settle(a)
  <2> DEFINE w == [worker[a] EXCEPT !.run = "none", !.awaited = FALSE]
  <2>1. w \in Worker /\ w.run = "none" /\ w.paused = worker[a].paused
    BY <1>0 DEF Worker
  <2>2. worker[a].run = "over" /\ IF Renewed(w) THEN EnsureLoop(a, w) ELSE Becomes(a, w) /\ UNCHANGED gate
    BY <1>5 DEF Settle
  <2> HIDE DEF w
  <2>3. CASE Renewed(w)
    BY <2>1, <2>2, <2>3, EnsureLoopStep DEF Sound, Asking
  <2>4. CASE ~Renewed(w)
    BY <2>1, <2>2, <2>4, MoveStep DEF Busy, Asking
  <2> QED
    BY <2>3, <2>4
<1> QED
  BY <1>1, <1>2, <1>3, <1>4, <1>5 DEF Cycle

LEMMA FailuresSound ==
  ASSUME IInv, NEW a \in Accounts, Failures(a)
  PROVE  Sound(a)
<1>0. worker[a] \in Worker
  BY DEF IInv, TypeOK
<1>1. CASE NoToken(a)
  BY <1>0, <1>1, InPlace, EndCycleStep DEF NoToken, Busy
<1>2. CASE PullFails(a)
  <2> DEFINE w == [worker[a] EXCEPT !.last = "configuration"]
  <2>1. w \in Worker
    BY <1>0 DEF Worker
  <2> QED
    BY <1>0, <1>2, <2>1, InPlace, EndCycleStep DEF PullFails, Busy
<1>3. CASE UploadDefers(a) \/ UploadUnauthorized(a)
  BY <1>0, <1>3, InPlace, EndCycleStep DEF UploadDefers, UploadUnauthorized, Busy
<1>4. CASE UploadThrows(a)
  <2> DEFINE w == Retried(Handed(worker[a]))
             v == [w EXCEPT !.run = "over"]
  <2>1. w \in Worker
    BY <1>0, InPlace
  <2>2. v \in Worker /\ v.run = "over"
    BY <2>1 DEF Worker
  <2>3. worker[a].run \in Busy /\ worker' = [LetIn(worker, gate) EXCEPT ![a] = v] /\ gate' = Released(gate)
    BY <1>4 DEF UploadThrows, Busy
  <2> HIDE DEF v
  <2>4. /\ worker' \in [Accounts -> Worker] /\ worker'[a] = v
        /\ Others(a) /\ gate' \in Gate /\ GateOK(worker', gate')
    BY <2>2, <2>3, ReleaseStep DEF Others
  <2> QED
    BY <2>2, <2>4, GateCountsIsGateOKNext DEF Sound, TypeOK, Gate, Asking
<1> QED
  BY <1>1, <1>2, <1>3, <1>4 DEF Failures

\* Every step is sound for the worker it moves.
LEMMA NextSound ==
  ASSUME IInv, Next
  PROVE  \E a \in Accounts : Sound(a)
  BY AccountsAssumption, OutsideSound, CycleSound, FailuresSound DEF Next

LEMMA InitIInv == Init => IInv
<1> SUFFICES ASSUME Init PROVE IInv
  OBVIOUS
<1>1. \A a \in Accounts : worker[a] = Fresh
  BY DEF Init
<1>2. TypeOK
  BY LimitAssumption DEF Init, TypeOK, Worker, Fresh
<1>3. InCycle = {}
  BY <1>1 DEF InCycle, Fresh
<1>4. GateCounts
  BY <1>1, <1>3, FS_EmptySet DEF Init, GateCounts, Fresh
<1>5. PausedIsQuiet
  BY <1>1 DEF PausedIsQuiet, Fresh
<1> QED
  BY <1>2, <1>4, <1>5 DEF IInv

LEMMA NextIInv == IInv /\ [Next]_vars => IInv'
<1> SUFFICES ASSUME IInv, [Next]_vars PROVE IInv'
  OBVIOUS
<1>1. CASE Next
  <2>1. PICK a \in Accounts : Sound(a)
    BY <1>1, NextSound
  <2>2. ASSUME NEW b \in Accounts, worker'[b].paused
        PROVE  worker'[b].run \notin Asking
    <3>1. CASE b = a
      BY <2>1, <2>2, <3>1 DEF Sound
    <3>2. CASE b # a /\ worker'[b] = worker[b]
      BY <2>2, <3>2 DEF IInv, PausedIsQuiet, Asking
    <3>3. CASE b # a /\ worker'[b] = [worker[b] EXCEPT !.run = "enter"]
      BY <3>3, LetInWorker DEF IInv, TypeOK, Asking
    <3> QED
      BY <2>1, <3>1, <3>2, <3>3 DEF Sound, Others
  <2> QED
    BY <2>1, <2>2 DEF Sound, IInv, PausedIsQuiet, Asking
<1>2. CASE UNCHANGED vars
  BY <1>2 DEF vars, IInv, TypeOK, GateCounts, InCycle, PausedIsQuiet
<1> QED
  BY <1>1, <1>2

THEOREM Invariance == Spec => []IInv
  BY InitIInv, NextIInv, PTL DEF Spec

-----------------------------------------------------------------------------

\* The fields of every worker and of the gate keep their types; in particular the
\* gate's count stays between zero and its limit.
THEOREM TypesKept == Spec => []TypeOK
<1>1. IInv => TypeOK
  BY DEF IInv
<1> QED
  BY <1>1, Invariance, PTL

\* The gate's count and its line are those of the workers: no slot is lost or given
\* twice, whatever is drained, stopped or reconnected meanwhile
\* (BoundedSyncCycleGate).
THEOREM GateIsExact == Spec => []GateCounts
<1>1. IInv => GateCounts
  BY DEF IInv
<1> QED
  BY <1>1, Invariance, PTL

\* A worker that is being left, or whose account needs a sign-in, begins no pull
\* and no upload (runOnce): one that needs a sign-in is not past the entry of its
\* cycle, by the invariant.
THEOREM LeavingStaysQuiet == Spec => QuietAfterLeaving
<1> DEFINE Quiet(w) == Leaving(w) \/ w.paused
           A == \A a \in Accounts :
                  Quiet(worker[a]) /\ worker'[a].run \in {"pull", "upload"}
                    => worker'[a].run = worker[a].run
<1>1. IInv /\ [Next]_vars => [A]_vars
  <2> SUFFICES ASSUME IInv, Next PROVE A
    OBVIOUS
  <2>1. PICK a \in Accounts : Sound(a)
    BY NextSound
  <2> SUFFICES ASSUME NEW b \in Accounts, Quiet(worker[b]), worker'[b].run \in {"pull", "upload"}
               PROVE  worker'[b].run = worker[b].run
    OBVIOUS
  <2>5. Held(worker[b])
    BY DEF IInv, PausedIsQuiet, Asking, Held
  <2>2. CASE b = a
    BY <2>1, <2>2, <2>5 DEF Sound
  <2>3. CASE b # a /\ worker'[b] = worker[b]
    BY <2>3
  <2>4. CASE b # a /\ worker'[b] = [worker[b] EXCEPT !.run = "enter"]
    BY <2>4, LetInWorker DEF IInv, TypeOK
  <2> QED
    BY <2>1, <2>2, <2>3, <2>4 DEF Sound, Others
<1> QED
  BY <1>1, Invariance, PTL DEF Spec, QuietAfterLeaving

-----------------------------------------------------------------------------
(* No worker falls asleep.  Between cycles the timer is set, unless a       *)
(* wakeup is pending that the settling of the loop will find.               *)

Woke(w) == w.timer \/ w.last \in {"configuration", "cut"}

Listening(w) == w.started /\ ~Leaving(w) /\ ~w.paused

Armed(w) ==
  Listening(w) /\ w.run \in {"none", "over"} => Woke(w) \/ (w.run = "over" /\ w.pending)

AllArmed == \A a \in Accounts : Armed(worker[a])

\* A worker whose loop has not come to its end needs nothing.
LEMMA InLoopArmed ==
  ASSUME NEW w, w.run \notin {"none", "over"}
  PROVE  Armed(w)
  BY DEF Armed

\* The fields of a worker that starts another cycle or ends its loop.
LEMMA LoopFields ==
  ASSUME NEW w \in Worker, NEW g
  PROVE  /\ Looping(w, g).run \in {"enter", "queued"}
         /\ LoopOver(w).run = "over"
         /\ LoopOver(w).timer = w.timer /\ LoopOver(w).last = w.last
         /\ LoopOver(w).started = w.started /\ LoopOver(w).paused = w.paused
         /\ LoopOver(w).stopped = w.stopped /\ LoopOver(w).draining = w.draining
         /\ LoopOver(w).pending = w.pending
  BY DEF Looping, Acquired, LoopOver, Worker

LEMMA WokenFields ==
  ASSUME NEW w \in Worker
  PROVE  Woken(w) \in Worker /\ Woken(w).run = w.run /\ Woken(w).pending
  BY DEF Woken, Worker

\* Whatever a wakeup finds, the worker is leaving, in its loop, or will see it.
LEMMA WakeArmed ==
  ASSUME TypeOK, NEW a \in Accounts, NEW w \in Worker, Wake(a, w)
  PROVE  Armed(worker'[a])
<1>1. CASE Hears(w)
  <2> DEFINE v == Woken(w)
  <2>1. v \in Worker /\ v.run = w.run /\ v.pending
    BY WokenFields
  <2>2. EnsureLoop(a, v)
    BY <1>1 DEF Wake
  <2> HIDE DEF v
  <2>3. CASE Loopable(v)
    <3>1. worker'[a] = Looping(v, gate)
      BY <2>2, <2>3 DEF EnsureLoop, Becomes, TypeOK
    <3> QED
      BY <2>1, <3>1, LoopFields, InLoopArmed
  <2>4. CASE ~Loopable(v)
    <3>1. worker'[a] = v
      BY <2>2, <2>4 DEF EnsureLoop, Becomes, TypeOK
    <3> QED
      BY <2>1, <2>4, <3>1 DEF Loopable, Armed
  <2> QED
    BY <2>3, <2>4
<1>2. CASE ~Hears(w)
  <2>1. worker'[a] = w
    BY <1>2 DEF Wake, Becomes, TypeOK
  <2> QED
    BY <1>2, <2>1 DEF Hears, Armed, Listening
<1> QED
  BY <1>1, <1>2

\* A cycle ends with the timer set, or for a reason that allows for none.
LEMMA EndCycleArmed ==
  ASSUME TypeOK, NEW a \in Accounts, NEW w \in Worker, EndCycle(a, w), Listening(w) => Woke(w)
  PROVE  Armed(worker'[a])
<1>1. DOMAIN LetIn(worker, gate) = Accounts
  BY DEF LetIn, TypeOK
<1>2. CASE Again(w)
  <2>1. worker'[a] = Looping(w, Released(gate))
    BY <1>1, <1>2 DEF EndCycle
  <2> QED
    BY <2>1, LoopFields, InLoopArmed
<1>3. CASE ~Again(w)
  <2> DEFINE v == LoopOver(w)
  <2>1. worker'[a] = v
    BY <1>1, <1>3 DEF EndCycle
  <2>2. Listening(v) = Listening(w) /\ Woke(v) = Woke(w)
    BY LoopFields DEF Listening, Leaving, Woke
  <2> HIDE DEF v
  <2> QED
    BY <2>1, <2>2 DEF Armed
<1> QED
  BY <1>2, <1>3

LEMMA OutsideArmed ==
  ASSUME TypeOK, AllArmed, NEW a \in Accounts,
         Start(a) \/ Notice(a) \/ TimerFires(a) \/ Outside(a)
  PROVE  Armed(worker'[a])
<1>0. worker[a] \in Worker /\ Armed(worker[a]) /\ DOMAIN worker = Accounts
  BY DEF TypeOK, AllArmed
<1>1. CASE Start(a)
  <2> DEFINE w == [worker[a] EXCEPT !.started = TRUE]
  <2>1. w \in Worker
    BY <1>0 DEF Worker
  <2>2. Wake(a, Subscribed(w))
    BY <1>1 DEF Start
  <2> HIDE DEF w
  <2> QED
    BY <2>1, <2>2, InPlace, WakeArmed
<1>2. CASE Notice(a)
  <2>1. [worker[a] EXCEPT !.notice = FALSE] \in Worker
    BY <1>0 DEF Worker
  <2> QED
    BY <1>2, <2>1, WakeArmed DEF Notice
<1>3. CASE TimerFires(a) \/ Prompt(a)
  BY <1>0, <1>3, WakeArmed DEF TimerFires, Prompt
<1>4. CASE Connection(a)
  <2> DEFINE w == [worker[a] EXCEPT !.paused = FALSE, !.draining = FALSE]
  <2>1. w \in Worker
    BY <1>0 DEF Worker
  <2>2. Wake(a, IF w.started /\ ~w.subscribed THEN Subscribed(w) ELSE w)
    BY <1>4 DEF Connection
  <2> HIDE DEF w
  <2> QED
    BY <2>1, <2>2, InPlace, WakeArmed
<1>5. CASE Edit(a) \/ DrainTimesOut(a)
  <2>1. PICK e \in BOOLEAN, n \in BOOLEAN, t \in BOOLEAN, d \in BOOLEAN :
          worker'[a] = [worker[a] EXCEPT !.edits = e, !.notice = n, !.awaited = t, !.aborted = d]
    <3>1. CASE Edit(a)
      <4>1. worker'[a] = [worker[a] EXCEPT !.edits = TRUE, !.notice = worker[a].subscribed,
                                           !.awaited = worker[a].awaited, !.aborted = worker[a].aborted]
        BY <1>0, <3>1 DEF Edit, Becomes, Worker
      <4> QED
        BY <1>0, <4>1 DEF Worker
    <3>2. CASE DrainTimesOut(a)
      <4>1. worker'[a] = [worker[a] EXCEPT !.edits = worker[a].edits, !.notice = worker[a].notice,
                                           !.awaited = FALSE, !.aborted = TRUE]
        BY <1>0, <3>2 DEF DrainTimesOut, Becomes, Worker
      <4> QED
        BY <1>0, <4>1 DEF Worker
    <3> QED
      BY <1>5, <3>1, <3>2
  <2>2. /\ worker'[a].run = worker[a].run /\ worker'[a].timer = worker[a].timer
        /\ worker'[a].last = worker[a].last /\ worker'[a].started = worker[a].started
        /\ worker'[a].stopped = worker[a].stopped /\ worker'[a].draining = worker[a].draining
        /\ worker'[a].paused = worker[a].paused /\ worker'[a].pending = worker[a].pending
    BY <1>0, <2>1 DEF Worker
  <2> QED
    BY <1>0, <2>2 DEF Armed, Listening, Leaving, Woke
<1>6. CASE Stop(a)
  <2>1. worker'[a].stopped
    BY <1>0, <1>6 DEF Stop, Becomes, Worker
  <2> QED
    BY <2>1 DEF Armed, Listening, Leaving
<1>7. ASSUME NEW forStop \in BOOLEAN, Drain(a, forStop)
      PROVE  Armed(worker'[a])
  <2> DEFINE w == [worker[a] EXCEPT !.stopping = forStop]
  <2>1. w \in Worker
    BY <1>0 DEF Worker
  <2>2. worker'[a] = Drained(IF Loopable(w) THEN Looping(w, gate) ELSE w)
    BY <1>0, <1>7 DEF Drain, Becomes
  <2> HIDE DEF w
  <2>3. PICK u \in Worker : worker'[a] = Drained(u)
    BY <2>1, <2>2, LoopingWorker
  <2>4. worker'[a].draining
    BY <2>3 DEF Drained, Worker
  <2> QED
    BY <2>4 DEF Armed, Listening, Leaving
<1> QED
  BY <1>1, <1>2, <1>3, <1>4, <1>5, <1>6, <1>7 DEF Outside

\* The ends of a cycle that leave a timer, or nobody to wake.
LEMMA Provided ==
  ASSUME NEW w \in Worker
  PROVE  /\ Listening(Retried(w)) => Woke(Retried(w))
         /\ ~Listening(SignInNeeded(w))
         /\ Listening(Periodic(w)) => Woke(Periodic(w))
<1>1. Listening(Retried(w)) => Woke(Retried(w))
  BY DEF Retried, Listening, Leaving, Woke, Worker
<1>2. ~Listening(SignInNeeded(w))
  BY DEF SignInNeeded, Listening, Worker
<1>3. Listening(Periodic(w)) => Woke(Periodic(w))
  BY DEF Periodic, Listening, Leaving, Woke, Worker
<1> QED
  BY <1>1, <1>2, <1>3

LEMMA CycleArmed ==
  ASSUME TypeOK, AllArmed, NEW a \in Accounts, Cycle(a)
  PROVE  Armed(worker'[a])
<1>0. worker[a] \in Worker /\ Armed(worker[a]) /\ DOMAIN worker = Accounts
  BY DEF TypeOK, AllArmed
<1>1. CASE Enter(a)
  <2>1. CASE Admitted(worker[a])
    <3>1. worker'[a].run = "token"
      BY <1>0, <1>1, <2>1 DEF Enter, Becomes, Worker
    <3> QED
      BY <3>1, InLoopArmed
  <2>2. CASE ~Admitted(worker[a])
    <3>1. ~Listening(worker[a])
      BY <2>2 DEF Admitted, Listening
    <3> QED
      BY <1>0, <1>1, <2>2, <3>1, EndCycleArmed DEF Enter
  <2> QED
    BY <2>1, <2>2
<1>2. CASE Token(a)
  <2>1. CASE Proceeds(worker[a])
    <3>1. worker'[a].run = "pull"
      BY <1>0, <1>2, <2>1 DEF Token, Becomes, Worker
    <3> QED
      BY <3>1, InLoopArmed
  <2>2. CASE ~Proceeds(worker[a])
    <3>1. ~Listening(worker[a])
      BY <2>2 DEF Proceeds, Listening
    <3> QED
      BY <1>0, <1>2, <2>2, <3>1, EndCycleArmed DEF Token
  <2> QED
    BY <2>1, <2>2
<1>3. CASE Pulled(a)
  <2>1. CASE ~Proceeds(worker[a]) \/ worker[a].aborted
    <3> DEFINE w == [worker[a] EXCEPT !.last = "cut"]
    <3>1. w \in Worker /\ w.last = "cut"
      BY <1>0 DEF Worker
    <3> QED
      BY <1>3, <2>1, <3>1, EndCycleArmed DEF Pulled, Woke
  <2>2. CASE ~(~Proceeds(worker[a]) \/ worker[a].aborted)
    <3>1. worker'[a].run = "upload"
      BY <1>0, <1>3, <2>2 DEF Pulled, Becomes, Worker
    <3> QED
      BY <3>1, InLoopArmed
  <2> QED
    BY <2>1, <2>2
<1>4. CASE Uploaded(a)
  <2> DEFINE w == [worker[a] EXCEPT !.taken = FALSE]
  <2>1. w \in Worker
    BY <1>0 DEF Worker
  <2> QED
    BY <1>4, <2>1, InPlace, Provided, EndCycleArmed DEF Uploaded
<1>5. CASE Settle(a)
  <2> DEFINE w == [worker[a] EXCEPT !.run = "none", !.awaited = FALSE]
  <2>1. /\ w \in Worker /\ w.run = "none" /\ w.timer = worker[a].timer /\ w.last = worker[a].last
        /\ w.started = worker[a].started /\ w.stopped = worker[a].stopped
        /\ w.draining = worker[a].draining /\ w.paused = worker[a].paused
        /\ w.pending = worker[a].pending
    BY <1>0 DEF Worker
  <2>2. worker[a].run = "over" /\ IF Renewed(w) THEN EnsureLoop(a, w) ELSE Becomes(a, w) /\ UNCHANGED gate
    BY <1>5 DEF Settle
  <2> HIDE DEF w
  <2>3. CASE Renewed(w)
    <3>1. worker'[a] = Looping(w, gate)
      BY <1>0, <2>1, <2>2, <2>3 DEF Renewed, EnsureLoop, Loopable, Becomes
    <3> QED
      BY <2>1, <3>1, LoopFields, InLoopArmed
  <2>4. CASE ~Renewed(w)
    <3>1. worker'[a] = w
      BY <1>0, <2>2, <2>4 DEF Becomes
    <3> QED
      BY <1>0, <2>1, <2>2, <2>4, <3>1 DEF Renewed, Armed, Listening, Leaving, Woke
  <2> QED
    BY <2>3, <2>4
<1> QED
  BY <1>1, <1>2, <1>3, <1>4, <1>5 DEF Cycle

LEMMA FailuresArmed ==
  ASSUME TypeOK, NEW a \in Accounts, Failures(a)
  PROVE  Armed(worker'[a])
<1>0. worker[a] \in Worker
  BY DEF TypeOK
<1>1. CASE NoToken(a)
  <2>1. Leaving(worker[a]) => ~Listening(worker[a])
    BY DEF Listening
  <2> QED
    BY <1>0, <1>1, <2>1, InPlace, Provided, EndCycleArmed DEF NoToken
<1>2. CASE PullFails(a)
  <2> DEFINE w == [worker[a] EXCEPT !.last = "configuration"]
  <2>1. w \in Worker /\ Woke(w)
    BY <1>0 DEF Worker, Woke
  <2> QED
    BY <1>0, <1>2, <2>1, InPlace, Provided, EndCycleArmed DEF PullFails
<1>3. CASE UploadDefers(a) \/ UploadUnauthorized(a)
  BY <1>0, <1>3, InPlace, Provided, EndCycleArmed DEF UploadDefers, UploadUnauthorized
<1>4. CASE UploadThrows(a)
  <2> DEFINE w == Retried(Handed(worker[a]))
             v == [w EXCEPT !.run = "over"]
  <2>1. w \in Worker /\ (Listening(w) => Woke(w))
    BY <1>0, InPlace, Provided
  <2>2. worker'[a] = v
    BY <1>4 DEF UploadThrows, LetIn, TypeOK
  <2> HIDE DEF w
  <2>3. Listening(v) = Listening(w) /\ Woke(v) = Woke(w)
    BY <2>1 DEF Listening, Leaving, Woke, Worker
  <2> QED
    BY <2>1, <2>2, <2>3 DEF Armed
<1> QED
  BY <1>1, <1>2, <1>3, <1>4 DEF Failures

LEMMA NextArmed == IInv /\ AllArmed /\ [Next]_vars => AllArmed'
<1> SUFFICES ASSUME IInv, AllArmed, [Next]_vars PROVE AllArmed'
  OBVIOUS
<1>1. CASE Next
  <2>1. PICK a \in Accounts : Sound(a) /\ Armed(worker'[a])
    BY <1>1, AccountsAssumption, OutsideSound, CycleSound, FailuresSound,
       OutsideArmed, CycleArmed, FailuresArmed DEF Next, IInv
  <2>2. ASSUME NEW b \in Accounts
        PROVE  Armed(worker'[b])
    <3>1. CASE b = a
      BY <2>1, <3>1
    <3>2. CASE b # a /\ worker'[b] = worker[b]
      BY <3>2 DEF AllArmed, Armed, Listening, Leaving, Woke
    <3>3. CASE b # a /\ worker'[b] = [worker[b] EXCEPT !.run = "enter"]
      BY <3>3, LetInWorker, InLoopArmed DEF IInv, TypeOK
    <3> QED
      BY <2>1, <3>1, <3>2, <3>3 DEF Sound, Others
  <2> QED
    BY <2>2 DEF AllArmed, Armed, Listening, Leaving, Woke
<1>2. CASE UNCHANGED vars
  BY <1>2 DEF vars, AllArmed, Armed, Listening, Leaving, Woke
<1> QED
  BY <1>1, <1>2

\* A worker with nothing to do has its timer, or a reason that is named
\* (scheduleRetry, schedulePeriodicPull, ensureLoop's finally).
THEOREM NeverFallsAsleep == Spec => []NeverAsleep
<1>1. Init => AllArmed
  BY DEF Init, AllArmed, Armed, Listening, Fresh
<1>2. AllArmed => NeverAsleep
  BY DEF AllArmed, Armed, Listening, Woke, NeverAsleep, WillWake
<1> QED
  BY <1>1, <1>2, NextArmed, Invariance, PTL DEF Spec
-----------------------------------------------------------------------------
(* EventUpload: one event and its writes.  The invariant says of every     *)
(* operation what Google may have done of it and may still do, so that     *)
(* nothing in doubt is written over again under a valid etag.              *)

OpKind(n)    == ops[n].kind
State(n)     == ops[n].state
Doomed       == \E n \in Positions : OpKind(n) = "delete"
Open(n)      == State(n) \in Active
Done(n)      == history.applied[n]
Underway     == upload.at \notin {"idle", "lease"}

\* Nothing before n has failed or is in conflict, which is for ever.
Clear(n)     == \A m \in 1 .. (n - 1) : State(m) \notin {"failed", "conflict"}
\* An operation that may have been written and may be written again.
InDoubt(n)   == State(n) \in {"ambiguous", "syncing"} /\ Clear(n)
\* Google knows nothing of it, and nothing on its way will tell it.
Untouched(n) == Done(n) = 0 /\ \A r \in late : n \notin r.members

\* The row of an event, and who may delete it.
RowOK ==
  /\ \A n \in Positions : OpKind(n) = "create" => n = 1 /\ local.home = "here"
  /\ local.home = "here" /\ ops # <<>> => OpKind(1) = "create"
  /\ \A n \in Positions : OpKind(n) = "delete" => n = Len(ops) /\ ~local.present
  /\ local.present /\ local.home = "here" => ops # <<>>
  /\ ~local.present => local.base = NoBase
  /\ ~Doomed /\ ActiveOps # {} => local.present

\* What stands anywhere has been written by someone.
Signed(val) ==
  \A g \in Groups : /\ val[g] \in OpIds => Done(val[g]) > 0
                    /\ val[g] <= MaxOps + history.foreign
\* A snapshot is of the past, and one of the present etag is of the present.
Past(s) ==
  /\ s.etag <= google.etag
  /\ s.etag = google.etag /\ s.etag # 0 => s.val = google.val
  /\ Signed(s.val)

GoogleOK ==
  /\ local.home = "google" => google.is # "absent"
  /\ google.is # "absent" <=> google.etag > 0
  /\ local.home = "here" /\ google.is # "absent" => Done(1) > 0
  /\ google.is = "absent" => \A n \in OpIds : Done(n) = 0
  /\ Signed(google.val)

EtagsOK ==
  /\ Past(local.base)
  /\ local.token <= google.etag
  /\ \A n \in Positions :
       ops[n].etag <= google.etag /\ (local.present /\ ops[n].etag # 0 => Has(local.base))

\* A write of the operation n together with the other members of M.
GroupOK(n, M) ==
  /\ n \in M /\ M \subseteq Positions
  /\ \A m \in 1 .. (n - 1) : State(m) \in Settled
  /\ \A m \in M : m >= n /\ (m # n => OpKind(m) = "update")
  /\ OpKind(n) = "delete" => M = {n}

RequestOK(r) ==
  /\ GroupOK(r.lead, r.members) /\ r.kind = OpKind(r.lead)
  /\ r.etag <= google.etag /\ (r.kind # "create" => r.etag # 0 /\ ops[r.lead].etag # 0)
  /\ \A n \in r.members : State(n) \in {"ambiguous", "syncing"} => ops[n].lead = r.lead
  /\ \A n \in Positions : InDoubt(n) /\ ops[n].lead = r.lead => n \in r.members
  /\ \A g \in Groups : r.val[g] \in r.members \cup {0}
  /\ \A n \in r.members : OpKind(n) = "update" => r.val[ops[n].group] # 0

RequestsOK == \A r \in late : RequestOK(r)

UploadOK ==
  /\ upload.at # "answered" => upload.answer = "none"
  /\ Underway => /\ GroupOK(upload.lead, upload.members)
                 /\ \A m \in upload.members : \A k \in upload.lead .. m : k \in upload.members
                 /\ \A m \in upload.members : ops[m].lead = upload.lead
                 /\ upload.etag = ops[upload.lead].etag
  /\ \A n \in Positions : State(n) = "syncing" <=> n \in upload.members
  /\ ~Underway => upload.members = {}
  /\ upload.at = "wait" /\ OpKind(upload.lead) # "create" => upload.etag # 0

AnswerOK ==
  /\ Past(upload.seen)
  /\ upload.at = "reconcile" => upload.from = "ambiguous"
  /\ upload.from = "pending" /\ (upload.at \in {"send", "wait"} \/ upload.answer = "retry") =>
       \A n \in upload.members : Untouched(n)
  /\ upload.answer = "ok" =>
       IF OpKind(upload.lead) = "delete" THEN google.is = "deleted"
       ELSE \A n \in upload.members : Done(n) > 0
  /\ upload.answer = "gone" => google.is = "deleted"
  /\ upload.answer \in {"ok", "changed"} => Has(upload.seen)

\* What has been sent together stays together, and is written as one.
OpsOK ==
  /\ \A n \in Positions : State(n) \in {"pending", "cancelled"} => Untouched(n)
  /\ \A n \in OpIds : n > Len(ops) => Untouched(n)
  /\ \A n \in Positions : State(n) = "ambiguous" =>
       /\ ops[n].lead \in 1 .. n
       /\ \A m \in 1 .. (ops[n].lead - 1) : State(m) \in Settled
       /\ ops[n].lead # n => OpKind(n) = "update"
       /\ Clear(n) => \A k \in ops[n].lead .. n :
                        State(k) = "ambiguous" /\ ops[k].lead = ops[n].lead
  /\ \A n \in Positions : InDoubt(n) => (Done(n) > 0 <=> Done(ops[n].lead) > 0)

\* As long as nothing is deleted, what has been written once is not written again:
\* its etag is outdated, and the next baseline differs in its group.
OnceOK ==
  ~Doomed =>
    /\ \A n \in Positions : Done(n) <= 1
    /\ \A r \in late : r.kind # "create" /\ r.etag = google.etag =>
         \A n \in r.members : Done(n) = 0
    /\ \A n \in Positions : InDoubt(n) /\ Done(n) > 0 /\ OpKind(ops[n].lead) # "create" =>
         /\ ops[ops[n].lead].etag < google.etag
         /\ Has(local.base) /\ local.base.val[ops[n].group] # google.val[ops[n].group]

OutcomesOK ==
  /\ \A n \in Positions : State(n) = "succeeded" =>
       IF OpKind(n) = "delete" THEN google.is = "deleted" ELSE Done(n) > 0
  /\ \A n \in Positions : State(n) = "cancelled" => local.home = "here"
  /\ \A n \in Positions : OpKind(n) = "delete" /\ State(n) \in Settled => ActiveOps = {}

\* What the row shows of the last change that a pull has covered.
ShownOK ==
  /\ local.twin => local.home = "here" /\ ~local.present /\ google.is # "absent"
  /\ upload.answer \in {"ok", "changed"} => local.token <= upload.seen.etag
  /\ upload.answer = "changed" \/ (upload.answer = "ok" /\ OpKind(upload.lead) # "delete") =>
       google.is = "alive" \/ upload.seen.etag < google.etag
  /\ google.is = "alive" /\ local.token = google.etag =>
       IF local.present THEN local.base = Here
       ELSE local.twin \/ \E n \in Positions : OpKind(n) = "delete" /\ Open(n)
  /\ google.is = "deleted" /\ local.token = google.etag =>
       ~local.twin /\ (local.present => \E n \in Positions : State(n) = "conflict")

EventOK == /\ EventTypeOK /\ RowOK /\ GoogleOK /\ EtagsOK /\ RequestsOK /\ UploadOK
           /\ AnswerOK /\ OpsOK /\ OnceOK /\ OutcomesOK /\ ShownOK


-----------------------------------------------------------------------------
(* Operators on the list of operations.                                    *)

\* A nonempty set of positions has a last one.
LEMMA HasLast ==
  ASSUME NEW N \in Nat, NEW S \in SUBSET (1 .. N), S # {}
  PROVE  Last(S) \in S /\ \A m \in S : m <= Last(S)
<1> DEFINE T == {n .. N : n \in S}
<1>1. T \subseteq SUBSET (1 .. N)
  <2>1. ASSUME NEW n \in S PROVE n .. N \in SUBSET (1 .. N)
    <3>1. n \in 1 .. N
      OBVIOUS
    <3> QED
      BY <3>1
  <2> QED
    BY <2>1
<1>2. IsFiniteSet(1 .. N)
  BY FS_Interval
<1>3. FiniteSubsetsOf(1 .. N) = SUBSET (1 .. N)
  BY <1>2, FS_FiniteSubsetsOfFinite
<1>4. IsWellFoundedOn(StrictSubsetOrdering(1 .. N), SUBSET (1 .. N))
  BY <1>3, FS_StrictSubsetOrderingWellFounded
<1>5. T # {}
  OBVIOUS
<1>6. \E x \in T : \A y \in T : ~(<<y, x>> \in StrictSubsetOrdering(1 .. N))
  <2> HIDE DEF T
  <2> QED
    BY <1>1, <1>4, <1>5, WFMin
<1>7. PICK x \in T : \A y \in T : ~(<<y, x>> \in StrictSubsetOrdering(1 .. N))
  BY <1>6
<1>8. PICK n \in S : x = n .. N
  OBVIOUS
<1>9. ASSUME NEW m \in S PROVE m <= n
  <2>1. SUFFICES ASSUME m > n PROVE FALSE
    OBVIOUS
  <2>2. m .. N \in T /\ n \in 1 .. N /\ m \in 1 .. N
    OBVIOUS
  <2>3. m .. N \subseteq n .. N /\ m .. N # n .. N
    BY <2>1, <2>2
  <2>4. <<m .. N, n .. N>> \in StrictSubsetOrdering(1 .. N)
    BY <2>2, <2>3, <1>8, <1>1 DEF StrictSubsetOrdering
  <2> QED
    BY <2>2, <2>4, <1>7, <1>8
<1> QED
  BY <1>9 DEF Last

\* The list and its members.
LEMMA OpsTyped ==
  ASSUME EventTypeOK
  PROVE  /\ Len(ops) \in Nat /\ Len(ops) <= MaxOps /\ MaxOps \in Nat
         /\ Positions = 1 .. Len(ops) /\ Positions \subseteq OpIds
         /\ \A n \in Positions : n \in Nat /\ ops[n] \in Op
         /\ \A n \in Positions : State(n) \in Active \cup Settled /\ OpKind(n) \in Kinds
                                 /\ ops[n].lead \in 0 .. MaxOps /\ ops[n].etag \in Nat
                                 /\ ops[n].group \in Groups /\ ops[n].base \in Snapshot
         /\ \A n \in OpIds : n \in Nat /\ Done(n) \in Nat
<1>1. ops \in Seq(Op) /\ Len(ops) <= MaxOps /\ history.applied \in [OpIds -> Nat]
  BY DEF EventTypeOK
<1>2. MaxOps \in Nat
  BY BoundsAssumption
<1>3. Len(ops) \in Nat /\ \A n \in 1 .. Len(ops) : ops[n] \in Op
  BY <1>1
<1>4. \A n \in Positions : n \in Nat /\ ops[n] \in Op
  BY <1>3 DEF Positions
<1>5. \A n \in Positions : State(n) \in Active \cup Settled /\ OpKind(n) \in Kinds
                                 /\ ops[n].lead \in 0 .. MaxOps /\ ops[n].etag \in Nat
                                 /\ ops[n].group \in Groups /\ ops[n].base \in Snapshot
  BY <1>4 DEF Op, State, OpKind, Etags
<1>6. \A n \in OpIds : n \in Nat /\ Done(n) \in Nat
  BY <1>1, <1>2 DEF OpIds, Done
<1>7. Positions \subseteq OpIds
  BY <1>1, <1>2, <1>3 DEF Positions, OpIds
<1> QED
  BY <1>1, <1>2, <1>3, <1>4, <1>5, <1>6, <1>7 DEF Positions

\* A function on the positions with operations as values is a list of that length.
LEMMA IsAList ==
  ASSUME EventTypeOK, NEW f, f \in [Positions -> Op]
  PROVE  f \in Seq(Op) /\ Len(f) = Len(ops) /\ DOMAIN f = Positions
<1>1. Len(ops) \in Nat /\ Positions = 1 .. Len(ops)
  BY OpsTyped
<1>2. f \in [1 .. Len(ops) -> Op]
  BY <1>1
<1> QED
  BY <1>1, <1>2

\* What InState makes of the list.
LEMMA InStateTyped ==
  ASSUME EventTypeOK, NEW G, NEW s \in Active \cup Settled, NEW lead \in 0 .. MaxOps
  PROVE  /\ InState(G, s, lead) \in Seq(Op)
         /\ Len(InState(G, s, lead)) = Len(ops) /\ DOMAIN InState(G, s, lead) = Positions
         /\ \A n \in Positions :
              /\ InState(G, s, lead)[n].kind = ops[n].kind
              /\ InState(G, s, lead)[n].group = ops[n].group
              /\ InState(G, s, lead)[n].base = ops[n].base
              /\ InState(G, s, lead)[n].etag = ops[n].etag
              /\ InState(G, s, lead)[n].state = IF n \in G THEN s ELSE ops[n].state
              /\ InState(G, s, lead)[n].lead = IF n \in G THEN lead ELSE ops[n].lead
<1> DEFINE f == InState(G, s, lead)
<1>1. ASSUME NEW n \in Positions
      PROVE  /\ f[n] \in Op
             /\ f[n].kind = ops[n].kind /\ f[n].group = ops[n].group
             /\ f[n].base = ops[n].base /\ f[n].etag = ops[n].etag
             /\ f[n].state = (IF n \in G THEN s ELSE ops[n].state)
             /\ f[n].lead = (IF n \in G THEN lead ELSE ops[n].lead)
  <2>1. ops[n] \in Op
    BY OpsTyped
  <2>2. f[n] = IF n \in G THEN [ops[n] EXCEPT !.state = s, !.lead = lead] ELSE ops[n]
    BY DEF InState
  <2>3. CASE n \in G
    <3>1. f[n] = [ops[n] EXCEPT !.state = s, !.lead = lead]
      BY <2>2, <2>3
    <3> HIDE DEF f
    <3> QED
      BY <3>1, <2>1, <2>3 DEF Op
  <2>4. CASE n \notin G
    <3>1. f[n] = ops[n]
      BY <2>2, <2>4
    <3> HIDE DEF f
    <3> QED
      BY <3>1, <2>1, <2>4
  <2> QED
    BY <2>3, <2>4
<1>2. f \in [Positions -> Op]
  <2>1. f = [n \in Positions |-> f[n]]
    BY DEF InState
  <2> HIDE DEF f
  <2> QED
    BY <2>1, <1>1
<1>3. f \in Seq(Op) /\ Len(f) = Len(ops) /\ DOMAIN f = Positions
  <2> HIDE DEF f
  <2> QED
    BY <1>2, IsAList
<1> QED
  BY <1>1, <1>3

\* What rebuildProjection makes of a list of the same length.
IsRebased(f, list, old, new) ==
  /\ f \in Seq(Op) /\ Len(f) = Len(ops) /\ DOMAIN f = Positions
  /\ \A n \in Positions :
       /\ f[n].kind = list[n].kind /\ f[n].group = list[n].group /\ f[n].base = list[n].base
       /\ f[n].lead = list[n].lead
       /\ f[n].state = list[n].state
          \/ (f[n].state = "conflict" /\ list[n].kind = "update" /\ Has(old)
              /\ old.val[list[n].group] # new.val[list[n].group]
              /\ list[n].state \in {"pending", "syncing", "ambiguous", "failed"})
       /\ Has(old) /\ list[n].kind = "update"
          /\ list[n].state \in {"pending", "syncing", "ambiguous", "failed"}
          /\ f[n].state # "conflict"
          => old.val[list[n].group] = new.val[list[n].group]
       /\ f[n].etag \in {list[n].etag, new.etag}
       /\ f[n].state \in {"pending", "ambiguous"} /\ Has(list[n].base) => f[n].etag = new.etag
       /\ ~Has(list[n].base) => f[n].etag = list[n].etag

LEMMA ListRebased ==
  ASSUME EventTypeOK, NEW list, list \in Seq(Op), Len(list) = Len(ops),
         NEW old \in Snapshot, NEW new \in Snapshot,
         NEW f, f = Rebased(list, old, new)
  PROVE  IsRebased(f, list, old, new)
<1>1. Len(ops) \in Nat /\ Positions = 1 .. Len(ops)
  BY OpsTyped
<1>2. DOMAIN list = Positions /\ \A n \in Positions : list[n] \in Op
  BY <1>1
<1>3. new.etag \in Nat
  BY DEF Snapshot, Etags
<1>4. ASSUME NEW n \in Positions
      PROVE  /\ f[n] \in Op
             /\ f[n].kind = list[n].kind /\ f[n].group = list[n].group /\ f[n].base = list[n].base
             /\ f[n].lead = list[n].lead
             /\ f[n].state = list[n].state
                 \/ (f[n].state = "conflict" /\ list[n].kind = "update" /\ Has(old)
                     /\ old.val[list[n].group] # new.val[list[n].group]
                     /\ list[n].state \in {"pending", "syncing", "ambiguous", "failed"})
             /\ Has(old) /\ list[n].kind = "update"
                 /\ list[n].state \in {"pending", "syncing", "ambiguous", "failed"}
                 /\ f[n].state # "conflict"
                 => old.val[list[n].group] = new.val[list[n].group]
             /\ f[n].etag \in {list[n].etag, new.etag}
             /\ f[n].state \in {"pending", "ambiguous"} /\ Has(list[n].base) => f[n].etag = new.etag
             /\ ~Has(list[n].base) => f[n].etag = list[n].etag
  <2> DEFINE A == /\ Has(old) /\ list[n].kind = "update"
                  /\ old.val[list[n].group] # new.val[list[n].group]
                  /\ list[n].state \in {"pending", "syncing", "ambiguous", "failed"}
             B == list[n].state \in {"pending", "ambiguous", "failed"} /\ Has(list[n].base)
  <2>1. list[n] \in Op
    BY <1>2
  <2>2. f[n] = IF A THEN [list[n] EXCEPT !.state = "conflict"]
               ELSE IF B THEN [list[n] EXCEPT !.etag = new.etag] ELSE list[n]
    BY <1>2 DEF Rebased
  <2>3. CASE A
    <3>1. f[n] = [list[n] EXCEPT !.state = "conflict"]
      BY <2>2, <2>3
    <3> QED
      BY <3>1, <2>1, <2>3 DEF Op, Active
  <2>4. CASE ~A /\ B
    <3>1. f[n] = [list[n] EXCEPT !.etag = new.etag]
      BY <2>2, <2>4
    <3> QED
      BY <3>1, <2>1, <2>4, <1>3 DEF Op, Etags
  <2>5. CASE ~A /\ ~B
    <3>1. f[n] = list[n]
      BY <2>2, <2>5
    <3> QED
      BY <3>1, <2>1, <2>5 DEF Op
  <2> QED
    BY <2>3, <2>4, <2>5
<1>5. f \in [Positions -> Op]
  <2>1. f = [n \in Positions |-> f[n]]
    BY <1>2 DEF Rebased
  <2> QED
    BY <2>1, <1>4
<1>6. f \in Seq(Op) /\ Len(f) = Len(ops) /\ DOMAIN f = Positions
  <2> QED
    BY <1>5, IsAList
<1> QED
  BY <1>4, <1>6 DEF IsRebased

\* The same of a list by another name.
IsInState(f, G, s, lead) ==
  /\ f \in Seq(Op) /\ Len(f) = Len(ops) /\ DOMAIN f = Positions
  /\ \A n \in Positions :
       /\ f[n].kind = ops[n].kind /\ f[n].group = ops[n].group
       /\ f[n].base = ops[n].base /\ f[n].etag = ops[n].etag
       /\ f[n].state = IF n \in G THEN s ELSE ops[n].state
       /\ f[n].lead = IF n \in G THEN lead ELSE ops[n].lead

LEMMA ListInState ==
  ASSUME EventTypeOK, NEW G, NEW s \in Active \cup Settled, NEW lead \in 0 .. MaxOps,
         NEW f, f = InState(G, s, lead)
  PROVE  IsInState(f, G, s, lead)
  BY InStateTyped DEF IsInState


\* An upload is a range of the list: one delete, or an operation and the updates
\* after it that are sent with it.
LEMMA UploadGroupIsARange ==
  ASSUME EventTypeOK, NEW n \in Positions
  PROVE  \E e \in n .. Len(ops) :
           /\ UploadGroup(n) = n .. e
           /\ OpKind(n) = "delete" => e = n
           /\ \A k \in (n + 1) .. e : OpKind(k) = "update" /\ Joins(n, k)
           /\ OpKind(n) # "delete" /\ e < Len(ops) =>
                ~(OpKind(e + 1) = "update" /\ Joins(n, e + 1))
<1> USE DEF OpKind
<1>1. Len(ops) \in Nat /\ Positions = 1 .. Len(ops) /\ n \in 1 .. Len(ops)
  BY OpsTyped
<1>2. CASE OpKind(n) = "delete"
  <2>1. UploadGroup(n) = n .. n
    BY <1>1, <1>2 DEF UploadGroup
  <2> QED
    BY <1>1, <1>2, <2>1
<1>3. CASE OpKind(n) # "delete"
  <2> DEFINE Fits(k) == ops[k].kind = "update" /\ Joins(n, k)
             G == UploadGroup(n)
  <2>1. G = {n} \cup {k \in (n + 1) .. Len(ops) : \A j \in (n + 1) .. k : Fits(j)}
    BY <1>3 DEF UploadGroup
  <2> HIDE DEF G, Fits
  <2>2. G \in SUBSET (1 .. Len(ops)) /\ G # {}
    BY <2>1, <1>1
  <2>3. PICK e \in G : \A m \in G : m <= e
    BY <2>2, <1>1, HasLast
  <2>4. e \in n .. Len(ops)
    BY <2>1, <1>1
  <2>5. \A k \in (n + 1) .. e : Fits(k)
    BY <2>1, <1>1, <2>3
  <2>6. G = n .. e
    BY <2>1, <1>1, <2>3, <2>4, <2>5
  <2>7. ASSUME e < Len(ops), Fits(e + 1) PROVE FALSE
    <3>1. \A j \in (n + 1) .. (e + 1) : Fits(j)
      BY <2>4, <2>5, <2>7, <1>1
    <3>2. e + 1 \in G
      BY <2>1, <2>4, <2>7, <3>1, <1>1
    <3> QED
      BY <3>2, <2>3, <2>4, <1>1
  <2> QED
    BY <1>3, <2>4, <2>5, <2>6, <2>7 DEF G, Fits
<1> QED
  BY <1>2, <1>3

\* What cancels out is a create, the updates after it and the delete that comes last.
LEMMA CancelGroupIsTheRest ==
  ASSUME EventTypeOK, RowOK, NEW n \in Positions, CancelGroup(n) # {}
  PROVE  /\ CancelGroup(n) = n .. Len(ops) /\ n < Len(ops)
         /\ OpKind(n) = "create" /\ OpKind(Len(ops)) = "delete"
         /\ \A k \in (n + 1) .. Len(ops) : Joins(n, k)
<1>1. Len(ops) \in Nat /\ Positions = 1 .. Len(ops) /\ n \in 1 .. Len(ops)
  BY OpsTyped
<1>2. PICK e \in n .. Len(ops) :
           /\ UploadGroup(n) = n .. e
           /\ \A k \in (n + 1) .. e : OpKind(k) = "update" /\ Joins(n, k)
  BY UploadGroupIsARange
<1>3. Cardinality(n .. e) = e - n + 1
  BY <1>1, <1>2, FS_Interval
<1>4. n + Cardinality(UploadGroup(n)) = e + 1
  BY <1>1, <1>2, <1>3
<1>5. /\ OpKind(n) = "create" /\ e + 1 <= Len(ops) /\ OpKind(e + 1) = "delete" /\ Joins(n, e + 1)
      /\ CancelGroup(n) = (n .. e) \cup {e + 1}
  BY <1>2, <1>4 DEF CancelGroup, OpKind
<1>6. e + 1 \in Positions
  BY <1>1, <1>2, <1>5
<1>7. e + 1 = Len(ops)
  BY <1>5, <1>6 DEF RowOK
<1>8. CancelGroup(n) = n .. Len(ops)
  BY <1>1, <1>2, <1>5, <1>7
<1>9. \A k \in (n + 1) .. Len(ops) : k \in (n + 1) .. e \/ k = e + 1
  BY <1>1, <1>2, <1>7
<1> QED
  BY <1>1, <1>2, <1>5, <1>7, <1>8, <1>9

\* What is written comes from the upload's members, and covers all they change.
LEMMA PatchOf ==
  ASSUME EventTypeOK, NEW G \in SUBSET Positions
  PROVE  /\ Patch(G) \in [Groups -> 0 .. MaxOps]
         /\ \A g \in Groups : Patch(G)[g] \in G \cup {0}
         /\ \A n \in G : OpKind(n) = "update" =>
              /\ Patch(G)[ops[n].group] \in G
              /\ OpKind(Patch(G)[ops[n].group]) = "update"
              /\ ops[Patch(G)[ops[n].group]].group = ops[n].group
         /\ (\A n \in G : OpKind(n) = "update") =>
              \A g \in Groups : Patch(G)[g] # 0 => ops[Patch(G)[g]].group = g
<1>1. /\ Len(ops) \in Nat /\ Positions = 1 .. Len(ops) /\ Len(ops) <= MaxOps /\ MaxOps \in Nat
      /\ \A n \in Positions : ops[n].group \in Groups
  BY OpsTyped
<1> DEFINE W(g) == {n \in G : ops[n].kind = "update" /\ ops[n].group = g}
           C == {n \in G : ops[n].kind = "create"}
<1>2. \A g \in Groups : Patch(G)[g] = IF W(g) # {} THEN Last(W(g))
                                      ELSE IF C # {} THEN Last(C) ELSE 0
  BY DEF Patch, ByKind
<1>3. ASSUME NEW g \in Groups, W(g) # {}
      PROVE  Last(W(g)) \in G /\ OpKind(Last(W(g))) = "update" /\ ops[Last(W(g))].group = g
  <2>1. W(g) \in SUBSET (1 .. Len(ops))
    BY <1>1
  <2>2. Last(W(g)) \in W(g)
    <3> HIDE DEF W
    <3> QED
      BY <2>1, <1>1, <1>3, HasLast
  <2> QED
    BY <2>2 DEF OpKind
<1>4. C # {} => Last(C) \in G /\ Last(C) \in C
  <2>1. C \in SUBSET (1 .. Len(ops))
    BY <1>1
  <2>2. C # {} => Last(C) \in C
    <3> HIDE DEF C
    <3> QED
      BY <2>1, <1>1, HasLast
  <2> QED
    BY <2>2
<1>5. \A g \in Groups : Patch(G)[g] \in G \cup {0}
  <2> HIDE DEF W, C
  <2> QED
    BY <1>2, <1>3, <1>4
<1>6. Patch(G) \in [Groups -> 0 .. MaxOps]
  <2>1. Patch(G) = [g \in Groups |-> Patch(G)[g]]
    BY DEF Patch
  <2>2. ASSUME NEW g \in Groups PROVE Patch(G)[g] \in 0 .. MaxOps
    <3>1. Patch(G)[g] \in G \cup {0}
      BY <1>5
    <3>2. \A m \in G \cup {0} : m \in 0 .. MaxOps
      BY <1>1
    <3> QED
      BY <3>1, <3>2
  <2> QED
    BY <2>1, <2>2
<1>7. ASSUME NEW n \in G, OpKind(n) = "update"
      PROVE  /\ Patch(G)[ops[n].group] \in G
             /\ OpKind(Patch(G)[ops[n].group]) = "update"
             /\ ops[Patch(G)[ops[n].group]].group = ops[n].group
  <2>1. n \in W(ops[n].group) /\ ops[n].group \in Groups
    BY <1>1, <1>7 DEF OpKind
  <2> HIDE DEF W, C
  <2> QED
    BY <2>1, <1>2, <1>3
<1>8. ASSUME \A n \in G : OpKind(n) = "update", NEW g \in Groups, Patch(G)[g] # 0
      PROVE  ops[Patch(G)[g]].group = g
  <2>1. C = {}
    BY <1>8 DEF OpKind
  <2> HIDE DEF W, C
  <2> QED
    BY <2>1, <1>2, <1>3, <1>8
<1> QED
  BY <1>5, <1>6, <1>7, <1>8


-----------------------------------------------------------------------------
(* What is in doubt.                                                       *)

\* The upload is of the first unsettled operation, and nothing outside it is in doubt.
LEMMA UploadTyped ==
  ASSUME EventTypeOK
  PROVE  /\ upload.at \in {"idle", "lease", "reconcile", "send", "wait", "answered", "unsure"}
         /\ upload.members \in SUBSET OpIds /\ upload.lead \in 0 .. MaxOps
         /\ upload.from \in {"pending", "ambiguous"} /\ upload.etag \in Nat
         /\ upload.answer \in {"none", "ok", "conflict", "changed", "gone", "invalid", "retry"}
         /\ upload.seen \in Snapshot
         /\ local.home \in {"here", "google"} /\ local.present \in BOOLEAN /\ local.twin \in BOOLEAN
         /\ local.base \in Snapshot /\ local.token \in Nat
         /\ google.is \in {"absent", "alive", "deleted"} /\ google.etag \in Nat
         /\ google.val \in [Groups -> Values]
         /\ late \subseteq Request
         /\ history.applied \in [OpIds -> Nat] /\ history.foreign \in 0 .. MaxForeign
BY DEF EventTypeOK, Etags

LEMMA DoubtIsUnderway ==
  ASSUME EventTypeOK, UploadOK, OpsOK, Underway, NEW n \in Positions, InDoubt(n)
  PROVE  n \in upload.members
<1>1. /\ Positions = 1 .. Len(ops) /\ Len(ops) \in Nat
      /\ \A m \in Positions : ops[m].lead \in 0 .. MaxOps /\ State(m) \in Active \cup Settled
  BY OpsTyped
<1>2. /\ upload.lead \in upload.members /\ upload.members \subseteq Positions
      /\ \A m \in 1 .. (upload.lead - 1) : State(m) \in Settled
      /\ State(upload.lead) = "syncing"
  BY DEF UploadOK, GroupOK
<1>3. CASE State(n) = "syncing"
  BY <1>3 DEF UploadOK
<1>4. CASE State(n) = "ambiguous"
  <2>1. /\ ops[n].lead \in 1 .. n
        /\ \A m \in 1 .. (ops[n].lead - 1) : State(m) \in Settled
        /\ \A k \in ops[n].lead .. n : State(k) = "ambiguous"
    BY <1>4 DEF OpsOK, InDoubt
  <2>2. upload.lead \in 1 .. Len(ops) /\ n \in 1 .. Len(ops)
    BY <1>1, <1>2
  <2>3. ~(upload.lead < ops[n].lead)
    BY <1>2, <2>1, <2>2 DEF Settled
  <2>4. ~(upload.lead <= n)
    BY <1>2, <2>1, <2>2, <2>3
  <2>5. n \in 1 .. (upload.lead - 1)
    BY <2>2, <2>4
  <2> QED
    BY <2>5, <1>2, <1>4 DEF Settled
<1> QED
  BY <1>3, <1>4 DEF InDoubt

\* Every member of the upload is in doubt.
LEMMA UnderwayIsDoubt ==
  ASSUME EventTypeOK, UploadOK, Underway
  PROVE  /\ upload.lead \in upload.members /\ upload.members \subseteq Positions
         /\ upload.lead \in Positions
         /\ \A n \in upload.members : InDoubt(n) /\ ops[n].lead = upload.lead
<1>1. /\ Positions = 1 .. Len(ops) /\ Len(ops) \in Nat
  BY OpsTyped
<1>2. /\ upload.lead \in upload.members /\ upload.members \subseteq Positions
      /\ \A m \in 1 .. (upload.lead - 1) : State(m) \in Settled
      /\ \A m \in upload.members : m >= upload.lead
      /\ \A m \in upload.members : \A k \in upload.lead .. m : k \in upload.members
      /\ \A n \in upload.members : State(n) = "syncing" /\ ops[n].lead = upload.lead
  BY DEF UploadOK, GroupOK
<1>3. ASSUME NEW n \in upload.members, NEW m \in 1 .. (n - 1)
      PROVE  State(m) \notin {"failed", "conflict"}
  <2>1. n \in 1 .. Len(ops) /\ upload.lead \in 1 .. Len(ops)
    BY <1>1, <1>2
  <2>2. m \in 1 .. (upload.lead - 1) \/ m \in upload.lead .. n
    BY <2>1
  <2> QED
    BY <2>2, <1>2 DEF Settled
<1> QED
  BY <1>2, <1>3 DEF InDoubt, Clear

\* The write of an upload that waits for its answer is a request like the late ones.
LEMMA WritingOK ==
  ASSUME EventOK, upload.at = "wait"
  PROVE  /\ Writing \in Request /\ RequestOK(Writing)
         /\ \A n \in Writing.members : n \in Positions /\ State(n) = "syncing"
         /\ ~Doomed /\ (Writing.kind = "create" => google.is = "absent")
               /\ (Writing.kind # "create" => Writing.etag = google.etag) =>
              \A n \in Writing.members : Done(n) = 0
<1>1. Underway
  BY DEF Underway
<1>2. EventTypeOK /\ UploadOK
  BY DEF EventOK
<1>3. /\ upload.lead \in upload.members /\ upload.members \subseteq Positions
      /\ upload.lead \in Positions
      /\ \A n \in upload.members : InDoubt(n) /\ ops[n].lead = upload.lead
  BY <1>1, <1>2, UnderwayIsDoubt
<1>4. /\ GroupOK(upload.lead, upload.members) /\ upload.etag = ops[upload.lead].etag
      /\ \A n \in Positions : State(n) = "syncing" <=> n \in upload.members
      /\ OpKind(upload.lead) # "create" => upload.etag # 0
  BY <1>1, <1>2 DEF UploadOK
<1>5. /\ Patch(upload.members) \in [Groups -> 0 .. MaxOps]
      /\ \A g \in Groups : Patch(upload.members)[g] \in upload.members \cup {0}
      /\ \A n \in upload.members : OpKind(n) = "update" =>
            Patch(upload.members)[ops[n].group] \in upload.members
  BY <1>2, <1>3, PatchOf
<1>6. /\ Writing.lead = upload.lead /\ Writing.members = upload.members
      /\ Writing.etag = upload.etag /\ Writing.kind = OpKind(upload.lead)
      /\ Writing.val = Patch(upload.members)
  BY DEF Writing, OpKind
<1>7. Writing \in Request
  <2>1. upload.lead \in OpIds /\ OpKind(upload.lead) \in Kinds /\ upload.etag \in Etags
        /\ upload.members \in SUBSET OpIds
    BY <1>2, <1>3, OpsTyped, UploadTyped DEF Etags
  <2> QED
    BY <2>1, <1>5 DEF Writing, Request, OpKind
<1>8. \A n \in upload.members : n # 0
  BY <1>2, <1>3, OpsTyped
<1>9. \A n \in Positions : InDoubt(n) => n \in upload.members
  BY <1>1, <1>2, DoubtIsUnderway DEF EventOK
<1>10. RequestOK(Writing)
  <2>1. upload.etag <= google.etag
    BY <1>3, <1>4 DEF EventOK, EtagsOK
  <2> QED
    BY <1>3, <1>4, <1>5, <1>6, <1>8, <1>9, <2>1 DEF RequestOK
<1>11. ASSUME ~Doomed, OpKind(upload.lead) = "create" => google.is = "absent",
              OpKind(upload.lead) # "create" => upload.etag = google.etag,
              NEW n \in upload.members
       PROVE  Done(n) = 0
  <2>1. CASE OpKind(upload.lead) = "create"
    <3>1. n \in OpIds
      BY <1>2, <1>3, OpsTyped
    <3> QED
      BY <2>1, <3>1, <1>11 DEF EventOK, GoogleOK
  <2>2. CASE OpKind(upload.lead) # "create"
    <3>1. ~(Done(n) > 0)
      <4>1. SUFFICES ASSUME Done(n) > 0 PROVE FALSE
        OBVIOUS
      <4>2. ops[upload.lead].etag < google.etag
        BY <1>3, <1>11, <2>2, <4>1 DEF EventOK, OnceOK
      <4>3. ops[upload.lead].etag = google.etag /\ google.etag \in Nat
        BY <1>2, <1>4, <1>11, <2>2, UploadTyped
      <4> QED
        BY <4>2, <4>3
    <3>2. Done(n) \in Nat
      BY <1>2, <1>3, OpsTyped
    <3> QED
      BY <3>1, <3>2
  <2> QED
    BY <2>1, <2>2
<1> QED
  BY <1>3, <1>4, <1>6, <1>7, <1>10, <1>11


-----------------------------------------------------------------------------
(* A write takes effect at Google.                                         *)

\* Google takes the write r, a late request or the one the upload waits for: nothing
\* of it was done before unless the event is deleted, and everything after holds.
LEMMA CommitKeeps ==
  ASSUME EventOK, NEW r \in Request, RequestOK(r), Accepts(r), Commit(r),
         UNCHANGED <<ops, local>>, late' \subseteq late,
         \A n \in r.members : State(n) \notin {"pending", "cancelled"},
         ~Doomed => \A n \in r.members : Done(n) = 0
  PROVE  /\ google' \in [is : {"absent", "alive", "deleted"}, etag : Etags, val : [Groups -> Values]]
         /\ late' \subseteq Request /\ history' \in [applied : [OpIds -> Nat], foreign : 0..MaxForeign]
         /\ RowOK' /\ GoogleOK' /\ EtagsOK' /\ RequestsOK' /\ OpsOK' /\ OnceOK' /\ OutcomesOK'
         /\ google.is # "deleted" /\ google.is' # "absent" /\ google'.etag = google.etag + 1
         /\ google.etag \in Nat /\ r.members \subseteq OpIds
         /\ (r.kind # "delete" => google'.is = "alive") /\ (r.kind = "delete" => google'.is = "deleted")
         /\ \A n \in OpIds : history'.applied[n] = (IF n \in r.members THEN Done(n) + 1 ELSE Done(n))
         /\ Signed(google.val)'
         /\ \A s \in Snapshot : Past(s) => Past(s)'
<1> USE DEF OpKind, State, Doomed, Done
<1>1. EventTypeOK
  BY DEF EventOK
<1>2. /\ Positions = 1 .. Len(ops) /\ Len(ops) \in Nat /\ Positions \subseteq OpIds /\ MaxOps \in Nat
      /\ \A n \in Positions : n \in Nat /\ ops[n].lead \in 0 .. MaxOps /\ ops[n].group \in Groups
                              /\ ops[n].etag \in Nat /\ ops[n].kind \in Kinds
      /\ \A n \in OpIds : n \in Nat /\ Done(n) \in Nat
  BY <1>1, OpsTyped
<1>3. /\ google.is \in {"absent", "alive", "deleted"} /\ google.etag \in Nat
      /\ google.val \in [Groups -> Values] /\ history.foreign \in 0 .. MaxForeign
      /\ late \subseteq Request /\ local.base \in Snapshot
  BY <1>1, UploadTyped
<1>4. /\ r.kind \in Kinds /\ r.etag \in Nat /\ r.val \in [Groups -> 0..MaxOps]
      /\ r.members \subseteq OpIds /\ r.lead \in OpIds
  BY DEF Request, Etags
<1>5. /\ google' = [is   |-> IF r.kind = "delete" THEN "deleted" ELSE "alive",
                    etag |-> google.etag + 1,
                    val  |-> [g \in Groups |-> IF r.val[g] = 0 THEN google.val[g] ELSE r.val[g]]]
      /\ history' = [history EXCEPT !.applied =
                   [n \in OpIds |-> IF n \in r.members THEN @[n] + 1 ELSE @[n]]]
  BY DEF Commit
<1>6. /\ google'.is = (IF r.kind = "delete" THEN "deleted" ELSE "alive")
      /\ google'.etag = google.etag + 1
      /\ \A g \in Groups : google'.val[g] = IF r.val[g] = 0 THEN google.val[g] ELSE r.val[g]
  BY <1>5
<1>7. /\ history' \in [applied : [OpIds -> Nat], foreign : 0..MaxForeign]
      /\ history'.foreign = history.foreign
      /\ \A n \in OpIds : history'.applied[n] = (IF n \in r.members THEN Done(n) + 1 ELSE Done(n))
  <2>1. history \in [applied : [OpIds -> Nat], foreign : 0..MaxForeign]
    BY <1>1 DEF EventTypeOK
  <2>2. [n \in OpIds |-> IF n \in r.members THEN history.applied[n] + 1 ELSE history.applied[n]]
          \in [OpIds -> Nat]
    BY <2>1
  <2> QED
    BY <1>5, <2>1, <2>2
<1>8. google' \in [is : {"absent", "alive", "deleted"}, etag : Etags, val : [Groups -> Values]]
  <2>1. \A v \in 0 .. MaxOps : v \in Values
    BY <1>2, BoundsAssumption DEF Values
  <2>2. [g \in Groups |-> IF r.val[g] = 0 THEN google.val[g] ELSE r.val[g]] \in [Groups -> Values]
    BY <1>3, <1>4, <2>1
  <2> QED
    BY <1>3, <1>5, <2>2 DEF Etags
<1>9. google.is # "deleted" /\ (r.kind # "create" => google.is = "alive" /\ r.etag = google.etag)
        /\ (r.kind = "create" => google.is = "absent")
  BY DEF Accepts
<1>10. ops' = ops /\ local' = local
  OBVIOUS
<1>11. /\ GroupOK(r.lead, r.members) /\ r.kind = ops[r.lead].kind
       /\ r.etag <= google.etag /\ (r.kind # "create" => r.etag # 0 /\ ops[r.lead].etag # 0)
       /\ \A n \in r.members : State(n) \in {"ambiguous", "syncing"} => ops[n].lead = r.lead
       /\ \A n \in Positions : InDoubt(n) /\ ops[n].lead = r.lead => n \in r.members
       /\ \A g \in Groups : r.val[g] \in r.members \cup {0}
       /\ \A n \in r.members : OpKind(n) = "update" => r.val[ops[n].group] # 0
       /\ r.lead \in r.members /\ r.members \subseteq Positions
  BY DEF RequestOK, GroupOK
<1>12. RowOK'
  BY <1>10 DEF EventOK, RowOK, Positions, ActiveOps
<1>13. \A n \in OpIds : /\ history'.applied[n] >= Done(n) /\ history'.applied[n] \in Nat
                        /\ history.applied[n] > 0 => history'.applied[n] > 0
                        /\ n \in r.members => history'.applied[n] > 0
  BY <1>2, <1>7
<1>14. \A s \in Snapshot : Past(s) => Past(s)'
  <2> SUFFICES ASSUME NEW s \in Snapshot, Past(s)
               PROVE  Past(s)'
    OBVIOUS
  <2>1. s.etag <= google.etag /\ s.etag \in Nat /\ Signed(s.val)
    BY DEF Past, Snapshot, Etags
  <2>2. Signed(s.val)'
    <3>3. \A g \in Groups : s.val[g] <= MaxOps + history'.foreign
      BY <2>1, <1>7 DEF Signed
    <3> SUFFICES ASSUME NEW g \in Groups, s.val[g] \in OpIds
                 PROVE  history'.applied[s.val[g]] > 0
      BY <3>3 DEF Signed
    <3>1. history.applied[s.val[g]] > 0
      BY <2>1 DEF Signed
    <3> QED
      BY <3>1, <1>13, <1>2
  <2> QED
    BY <2>1, <2>2, <1>3, <1>6 DEF Past
<1>15. Signed(google.val)'
  <2>3. \A g \in Groups : google'.val[g] <= MaxOps + history'.foreign
    <3>1. \A g \in Groups : google.val[g] <= MaxOps + history.foreign
      BY DEF EventOK, GoogleOK, Signed
    <3>2. history.foreign \in Nat
      BY <1>3, BoundsAssumption
    <3> QED
      BY <3>1, <3>2, <1>2, <1>4, <1>6, <1>7
  <2> SUFFICES ASSUME NEW g \in Groups, google'.val[g] \in OpIds
               PROVE  history'.applied[google'.val[g]] > 0
    BY <2>3 DEF Signed
  <2>1. CASE r.val[g] = 0
    <3>1. google'.val[g] = google.val[g]
      BY <1>6, <2>1
    <3>2. Done(google.val[g]) > 0
      BY <3>1 DEF EventOK, GoogleOK, Signed
    <3> QED
      BY <3>1, <3>2, <1>13, <1>2
  <2>2. CASE r.val[g] # 0
    <3>1. google'.val[g] = r.val[g] /\ r.val[g] \in r.members
      BY <1>6, <1>11, <2>2
    <3> QED
      BY <3>1, <1>13, <1>4
  <2> QED
    BY <2>1, <2>2
<1>16. GoogleOK'
  <2>1. r.kind = "create" => r.lead = 1
    BY <1>11 DEF EventOK, RowOK
  <2>2. local'.home = "here" /\ google'.is # "absent" => history'.applied[1] > 0
    <3>1. CASE r.kind = "create"
      BY <2>1, <3>1, <1>11, <1>13, <1>4
    <3>2. CASE r.kind # "create" /\ local.home = "here"
      <4>1. Done(1) > 0 /\ 1 \in OpIds
        BY <3>2, <1>9, <1>2, <1>4 DEF EventOK, GoogleOK, OpIds
      <4> QED
        BY <4>1, <1>13, <1>2
    <3> QED
      BY <3>1, <3>2, <1>10
  <2>3. google'.is # "absent" /\ google'.etag > 0
    BY <1>6, <1>3
  <2> QED
    BY <2>2, <2>3, <1>15 DEF GoogleOK
<1>17. EtagsOK'
  <2>1. Past(local.base) /\ local.token <= google.etag /\ local.token \in Nat
    BY <1>1, UploadTyped DEF EventOK, EtagsOK
  <2>2. Past(local.base)'
    BY <2>1, <1>14, <1>3, <1>10 
  <2>3. \A n \in Positions : ops[n].etag <= google.etag
                             /\ (local.present /\ ops[n].etag # 0 => Has(local.base))
    BY DEF EventOK, EtagsOK
  <2>4. \A n \in Positions : ops[n].etag <= google'.etag
    BY <2>3, <1>2, <1>3, <1>6
  <2>5. local'.token <= google'.etag
    BY <2>1, <1>3, <1>6, <1>10
  <2>6. Positions' = Positions
    BY <1>10 DEF Positions
  <2> QED
    BY <2>2, <2>3, <2>4, <2>5, <2>6, <1>10 DEF EtagsOK, Has
<1>18. ASSUME NEW q \in late PROVE RequestOK(q)'
  <2>1. RequestOK(q) /\ q.etag \in Nat
    BY <1>3 DEF EventOK, RequestsOK, Request, Etags
  <2>2. q.etag <= google'.etag
    BY <2>1, <1>3, <1>6 DEF RequestOK
  <2> QED
    BY <2>1, <2>2, <1>10 DEF RequestOK, GroupOK, Positions, InDoubt, Clear
<1>19. RequestsOK'
  BY <1>18 DEF RequestsOK
<1>20. \A n \in OpIds : Untouched(n) /\ n \notin r.members => Untouched(n)'
  BY <1>7 DEF Untouched
<1>21. OpsOK'
  <2>1. \A n \in Positions : State(n) \in {"pending", "cancelled"} => Untouched(n)'
    BY <1>20, <1>2 DEF EventOK, OpsOK
  <2>2. \A n \in OpIds : n > Len(ops) => Untouched(n)'
    <3> SUFFICES ASSUME NEW n \in OpIds, n > Len(ops)
                 PROVE  Untouched(n)'
      OBVIOUS
    <3>1. n \notin r.members
      BY <1>11, <1>2
    <3> QED
      BY <3>1, <1>20 DEF EventOK, OpsOK
  <2>3. ASSUME NEW n \in Positions, InDoubt(n)
        PROVE  history'.applied[n] > 0 <=> history'.applied[ops[n].lead] > 0
    <3>1. Done(n) > 0 <=> Done(ops[n].lead) > 0
      BY <2>3 DEF EventOK, OpsOK
    <3> DEFINE L == ops[n].lead
    <3>2. L \in Positions /\ ops[L].lead = L /\ State(L) \in {"ambiguous", "syncing"}
      <4>1. CASE State(n) = "ambiguous"
        <5>1. L \in 1 .. n /\ \A k \in L .. n : State(k) = "ambiguous" /\ ops[k].lead = L
          BY <4>1, <2>3 DEF EventOK, OpsOK, InDoubt
        <5>2. L \in L .. n /\ L \in Positions
          BY <5>1, <1>2
        <5> QED
          BY <5>1, <5>2
      <4>2. CASE State(n) = "syncing"
        <5>1. n \in upload.members
          BY <4>2 DEF EventOK, UploadOK
        <5>2. Underway
          BY <5>1 DEF EventOK, UploadOK
        <5>3. L = upload.lead /\ upload.lead \in Positions /\ InDoubt(upload.lead)
              /\ ops[upload.lead].lead = upload.lead
          BY <5>1, <5>2, <1>1, UnderwayIsDoubt DEF EventOK
        <5> QED
          BY <5>3 DEF InDoubt
      <4> QED
        BY <4>1, <4>2, <2>3 DEF InDoubt
    <3>3. n \in r.members <=> L = r.lead
      BY <1>11, <2>3 DEF InDoubt
    <3>4. L \in r.members <=> L = r.lead
      BY <1>11, <3>2
    <3>5. n \in OpIds /\ L \in OpIds
      BY <3>2, <1>2
    <3> HIDE DEF L
    <3>6. CASE L = r.lead
      <4>1. n \in r.members /\ L \in r.members
        BY <3>3, <3>4, <3>6
      <4>2. history'.applied[n] > 0 /\ history'.applied[L] > 0
        BY <4>1, <3>5, <1>13
      <4> QED
        BY <4>2 DEF L
    <3>7. CASE L # r.lead
      <4>1. history'.applied[n] = Done(n) /\ history'.applied[L] = Done(L)
        BY <3>3, <3>4, <3>5, <3>7, <1>7
      <4> QED
        BY <4>1, <3>1 DEF L
    <3> QED
      BY <3>6, <3>7
  <2>4. \A n \in Positions : State(n) = "ambiguous" =>
       /\ ops[n].lead \in 1 .. n
       /\ \A m \in 1 .. (ops[n].lead - 1) : State(m) \in Settled
       /\ ops[n].lead # n => OpKind(n) = "update"
       /\ Clear(n) => \A k \in ops[n].lead .. n :
                        State(k) = "ambiguous" /\ ops[k].lead = ops[n].lead
    BY DEF EventOK, OpsOK
  <2> QED
    BY <2>1, <2>2, <2>3, <2>4, <1>10 DEF OpsOK, Positions, InDoubt, Clear
<1>22. OnceOK'
  <2> SUFFICES ASSUME ~Doomed
               PROVE  /\ \A n \in Positions : history'.applied[n] <= 1
                      /\ \A q \in late' : q.kind # "create" /\ q.etag = google'.etag => FALSE
                      /\ \A n \in Positions : InDoubt(n) /\ history'.applied[n] > 0
                                              /\ OpKind(ops[n].lead) # "create" =>
                            /\ ops[ops[n].lead].etag < google'.etag
                            /\ Has(local.base)
                            /\ local.base.val[ops[n].group] # google'.val[ops[n].group]
    BY <1>10 DEF OnceOK, Positions, InDoubt, Clear, Has
  <2>1. \A n \in Positions : Done(n) <= 1
    BY DEF EventOK, OnceOK
  <2>2. \A n \in Positions : history'.applied[n] <= 1
    BY <2>1, <1>2, <1>7
  <2>3. ASSUME NEW q \in late', q.etag = google'.etag PROVE FALSE
    <3>1. q \in late /\ q.etag \in Nat
      BY <1>3 DEF Request, Etags
    <3>2. q.etag <= google.etag
      BY <3>1 DEF EventOK, RequestsOK, RequestOK
    <3> QED
      BY <3>1, <3>2, <2>3, <1>3, <1>6
  <2>4. ASSUME NEW n \in Positions, InDoubt(n), history'.applied[n] > 0, OpKind(ops[n].lead) # "create"
        PROVE  /\ ops[ops[n].lead].etag < google'.etag
               /\ Has(local.base)
               /\ local.base.val[ops[n].group] # google'.val[ops[n].group]
    <3> DEFINE g == ops[n].group
    <3>1. g \in Groups /\ n \in OpIds
      BY <1>2
    <3>2. Signed(local.base.val)
      BY DEF EventOK, EtagsOK, Past
    <3>3. CASE n \in r.members
      <4>1. ops[n].lead = r.lead /\ r.kind # "create" /\ r.lead \in Positions
        BY <3>3, <2>4, <1>11 DEF InDoubt
      <4>2. ops[r.lead].etag < google'.etag
        <5>1. ops[r.lead].etag <= google.etag
          BY <4>1 DEF EventOK, EtagsOK
        <5> QED
          BY <5>1, <4>1, <1>2, <1>3, <1>6
      <4>3. n \in ActiveOps
        BY <2>4 DEF ActiveOps, InDoubt, Active
      <4>4. local.present
        BY <4>3 DEF EventOK, RowOK
      <4>5. Has(local.base)
        BY <4>1, <4>4, <1>11 DEF EventOK, EtagsOK
      <4>6. OpKind(n) = "update"
        <5>1. r.kind = "update"
          BY <4>1, <1>4, <1>11 DEF Kinds
        <5> QED
          BY <5>1, <3>3, <1>11 DEF GroupOK
      <4>7. r.val[g] # 0 /\ r.val[g] \in r.members
        BY <4>6, <3>1, <3>3, <1>11
      <4>8. google'.val[g] = r.val[g]
        BY <4>7, <3>1, <1>6
      <4>9. Done(r.val[g]) = 0 /\ r.val[g] \in OpIds
        BY <4>7, <1>4
      <4>10. local.base.val[g] # r.val[g]
        BY <4>9, <3>1, <3>2 DEF Signed
      <4> QED
        BY <4>1, <4>2, <4>5, <4>8, <4>10
    <3>4. CASE n \notin r.members
      <4>1. Done(n) > 0
        BY <3>1, <3>4, <2>4, <1>7
      <4>2. /\ ops[ops[n].lead].etag < google.etag /\ Has(local.base)
            /\ local.base.val[g] # google.val[g]
        BY <4>1, <2>4 DEF EventOK, OnceOK
      <4>3. ops[ops[n].lead].etag < google'.etag
        <5>1. ops[n].lead \in Positions
          <6>1. State(n) = "ambiguous" => ops[n].lead \in 1 .. n
            BY DEF EventOK, OpsOK
          <6>2. State(n) = "syncing" => n \in upload.members /\ Underway
            BY DEF EventOK, UploadOK
          <6>3. State(n) = "syncing" => ops[n].lead \in Positions
            BY <6>2, <1>1, UnderwayIsDoubt DEF EventOK
          <6> QED
            BY <6>1, <6>3, <1>2, <2>4 DEF InDoubt
        <5> QED
          BY <5>1, <4>2, <1>2, <1>3, <1>6
      <4>4. CASE r.val[g] = 0
        BY <4>2, <4>3, <4>4, <3>1, <1>6
      <4>5. CASE r.val[g] # 0
        <5>1. google'.val[g] = r.val[g] /\ r.val[g] \in r.members
          BY <4>5, <3>1, <1>6, <1>11
        <5>2. Done(r.val[g]) = 0 /\ r.val[g] \in OpIds
          BY <5>1, <1>4
        <5>3. local.base.val[g] # r.val[g]
          BY <5>2, <3>1, <3>2 DEF Signed
        <5> QED
          BY <4>2, <4>3, <5>1, <5>3
      <4> QED
        BY <4>4, <4>5
    <3> QED
      BY <3>3, <3>4
  <2> QED
    BY <2>2, <2>3, <2>4
<1>23. OutcomesOK'
  <2>1. \A n \in Positions : State(n) = "succeeded" => OpKind(n) # "delete" /\ history'.applied[n] > 0
    <3> SUFFICES ASSUME NEW n \in Positions, State(n) = "succeeded"
                 PROVE  OpKind(n) # "delete" /\ history'.applied[n] > 0
      OBVIOUS
    <3>1. OpKind(n) # "delete" /\ Done(n) > 0
      BY <1>9 DEF EventOK, OutcomesOK
    <3> QED
      BY <3>1, <1>2, <1>13
  <2> QED
    BY <2>1, <1>10 DEF EventOK, OutcomesOK, Positions, ActiveOps
<1>24. google.is' # "absent"
  BY <1>6
<1> QED
  BY <1>3, <1>4, <1>6, <1>7, <1>8, <1>9, <1>12, <1>14, <1>15, <1>16, <1>17, <1>19, <1>21, <1>22, <1>23, <1>24


LEMMA HereIsPast ==
  ASSUME EventOK
  PROVE  /\ Here \in Snapshot /\ Past(Here) /\ Here.etag = google.etag /\ Here.val = google.val
         /\ google.is # "absent" => Has(Here)
         /\ Past(NoBase) /\ NoBase \in Snapshot /\ NoBase.etag = 0
         /\ Past(upload.seen) /\ Past(local.base) /\ upload.seen \in Snapshot /\ local.base \in Snapshot
<1>1. google.etag \in Nat /\ google.val \in [Groups -> Values] /\ upload.seen \in Snapshot
      /\ local.base \in Snapshot
  BY UploadTyped DEF EventOK
<1>2. Here \in Snapshot /\ Here.etag = google.etag /\ Here.val = google.val
  BY <1>1 DEF Here, Snapshot, Etags
<1>3. Past(Here)
  BY <1>1, <1>2 DEF Past, EventOK, GoogleOK
<1>4. google.is # "absent" => Has(Here)
  BY <1>1, <1>2 DEF Has, EventOK, GoogleOK
<1>5. NoBase \in Snapshot /\ NoBase.etag = 0 /\ \A g \in Groups : NoBase.val[g] = 0
  BY BoundsAssumption DEF NoBase, Snapshot, Etags, Values
<1>6. Past(NoBase)
  <2>1. history.foreign \in Nat /\ MaxOps \in Nat /\ MaxForeign \in Nat
    BY UploadTyped, BoundsAssumption DEF EventOK
  <2> QED
    BY <1>1, <1>5, <2>1 DEF Past, Signed, OpIds
<1> QED
  BY <1>1, <1>2, <1>3, <1>4, <1>5, <1>6 DEF EventOK, AnswerOK, EtagsOK

\* The upload goes on and changes nothing but how far it is.
GoesTo(at, from, answer, seen) ==
  /\ Underway /\ UNCHANGED <<google, ops, local, history>>
  /\ late' = late \/ (upload.at = "wait" /\ late' = late \cup {Writing})
  /\ upload' = [upload EXCEPT !.at = at, !.from = from, !.answer = answer, !.seen = seen]
  /\ at \in {"reconcile", "send", "wait", "answered", "unsure"}
  /\ from \in {"pending", "ambiguous"} /\ seen \in Snapshot /\ Past(seen)
  /\ answer \in {"none", "ok", "conflict", "changed", "gone", "invalid", "retry"}
  /\ at # "answered" => answer = "none"
  /\ at = "wait" /\ OpKind(upload.lead) # "create" => upload.etag # 0
  /\ at = "reconcile" => from = "ambiguous"
  /\ from = "pending" /\ (at \in {"send", "wait"} \/ answer = "retry") =>
       \A n \in upload.members : Untouched(n)'
  /\ answer = "ok" => IF OpKind(upload.lead) = "delete" THEN google.is = "deleted"
                      ELSE \A n \in upload.members : Done(n) > 0
  /\ answer = "gone" => google.is = "deleted"
  /\ answer \in {"ok", "changed"} => Has(seen) /\ local.token <= seen.etag
  /\ answer = "changed" \/ (answer = "ok" /\ OpKind(upload.lead) # "delete") =>
       google.is = "alive" \/ seen.etag < google.etag

LEMMA GoesOn ==
  ASSUME EventOK, NEW at, NEW from, NEW answer, NEW seen, GoesTo(at, from, answer, seen)
  PROVE  EventOK'
<1> USE DEF GoesTo
<1>1. EventTypeOK
  BY DEF EventOK
<1>2. /\ upload'.at = at /\ upload'.from = from /\ upload'.answer = answer /\ upload'.seen = seen
      /\ upload'.members = upload.members /\ upload'.lead = upload.lead /\ upload'.etag = upload.etag
      /\ upload' \in [at : {"idle", "lease", "reconcile", "send", "wait", "answered", "unsure"},
                 members : SUBSET OpIds, lead : 0..MaxOps, from : {"pending", "ambiguous"},
                 etag : Etags, answer : {"none", "ok", "conflict", "changed", "gone", "invalid", "retry"},
                 seen : Snapshot]
  BY <1>1 DEF EventTypeOK
<1>3. Underway'
  BY <1>2 DEF Underway
<1>4. \A r \in late' : r \in Request /\ RequestOK(r)
  <2>1. \A r \in late : r \in Request /\ RequestOK(r)
    BY <1>1, UploadTyped DEF EventOK, RequestsOK
  <2>2. upload.at = "wait" => Writing \in Request /\ RequestOK(Writing)
    BY WritingOK
  <2> QED
    BY <2>1, <2>2
<1>5. EventTypeOK'
  <2>1. late' \subseteq Request
    BY <1>4
  <2> QED
    BY <1>1, <1>2, <2>1 DEF EventTypeOK
<1>6. RowOK' /\ GoogleOK' /\ EtagsOK' /\ OutcomesOK'
  BY DEF EventOK, RowOK, GoogleOK, EtagsOK, OutcomesOK, Doomed, Positions, ActiveOps, State, OpKind,
         Done, Past, Signed
<1>7. RequestsOK'
  <2> SUFFICES ASSUME NEW r \in late'
               PROVE  RequestOK(r)'
    BY DEF RequestsOK
  <2>1. RequestOK(r)
    BY <1>4
  <2> QED
    BY <2>1 DEF RequestOK, GroupOK, Positions, State, OpKind, InDoubt, Clear
<1>8. UploadOK'
  <2>1. Positions' = Positions /\ \A n : State(n)' = State(n) /\ OpKind(n)' = OpKind(n)
    BY DEF Positions, State, OpKind
  <2>2. UploadOK
    BY DEF EventOK
  <2>3. GroupOK(upload.lead, upload.members) <=> GroupOK(upload.lead, upload.members)'
    BY <1>2 DEF GroupOK, Positions, State, OpKind
  <2> QED
    BY <1>2, <1>3, <2>1, <2>2, <2>3 DEF UploadOK, GroupOK, OpKind, State
<1>9. AnswerOK'
  <2>1. Past(seen)'
    BY DEF Past, Signed, Done
  <2> QED
    BY <1>2, <2>1 DEF AnswerOK, OpKind, Done, Has, Past, Signed
<1>10. OpsOK'
  <2>1. \A n \in OpIds : (n \in Positions => State(n) \in {"pending", "cancelled"}) /\ Untouched(n) => Untouched(n)'
    <3> SUFFICES ASSUME NEW n \in OpIds, Untouched(n),
                        n \in Positions => State(n) \in {"pending", "cancelled"}
                 PROVE  Untouched(n)'
      OBVIOUS
    <3>1. upload.at = "wait" => \A m \in Writing.members : m \in Positions /\ State(m) = "syncing"
      BY WritingOK
    <3> QED
      BY <3>1 DEF Untouched, Done
  <2>2. Positions \subseteq OpIds /\ \A n \in OpIds : n > Len(ops) => n \notin Positions
    BY <1>1, OpsTyped
  <2>3. \A n \in Positions : State(n) \in {"pending", "cancelled"} => Untouched(n)'
    BY <2>1, <2>2 DEF EventOK, OpsOK
  <2>4. \A n \in OpIds : n > Len(ops) => Untouched(n)'
    BY <2>1, <2>2 DEF EventOK, OpsOK
  <2> QED
    BY <2>3, <2>4 DEF EventOK, OpsOK, Positions, State, OpKind, InDoubt, Clear, Done
<1>11. OnceOK'
  <2> SUFFICES ASSUME ~Doomed
               PROVE  \A r \in late' : r.kind # "create" /\ r.etag = google.etag =>
                         \A n \in r.members : Done(n) = 0
    BY DEF EventOK, OnceOK, Doomed, Positions, State, OpKind, InDoubt, Clear, Done, Has
  <2>1. \A r \in late : r.kind # "create" /\ r.etag = google.etag =>
                         \A n \in r.members : Done(n) = 0
    BY DEF EventOK, OnceOK
  <2>2. upload.at = "wait" => (Writing.kind # "create" /\ Writing.etag = google.etag =>
                         \A n \in Writing.members : Done(n) = 0)
    BY WritingOK
  <2> QED
    BY <2>1, <2>2
<1>12. ShownOK'
  BY <1>2 DEF EventOK, ShownOK, Positions, State, OpKind, Open, Here
<1> QED
  BY <1>5, <1>6, <1>7, <1>8, <1>9, <1>10, <1>11, <1>12 DEF EventOK

LEMMA SendKeeps == EventOK /\ Send => EventOK'
<1> SUFFICES ASSUME EventOK, Send PROVE EventOK'
  OBVIOUS
<1>1. Underway /\ EventTypeOK /\ AnswerOK /\ UploadOK /\ ShownOK
  BY DEF Send, Underway, EventOK
<1>2. /\ upload.from \in {"pending", "ambiguous"} /\ upload.seen \in Snapshot /\ upload.answer = "none"
      /\ Past(upload.seen)
  BY <1>1, UploadTyped DEF Send, UploadOK, AnswerOK
<1>3. UNCHANGED <<google, ops, local, history, late>>
  BY DEF Send
<1>4. upload.from = "pending" => \A n \in upload.members : Untouched(n)'
  BY <1>1, <1>3 DEF Send, AnswerOK, Untouched, Done
<1>5. CASE OpKind(upload.lead) # "create" /\ upload.etag = 0
  <2>1. upload' = [upload EXCEPT !.at = "answered", !.from = upload.from, !.answer = "invalid",
                                 !.seen = upload.seen]
    BY <1>5, <1>1 DEF Send, OpKind, EventTypeOK
  <2>90. GoesTo("answered", upload.from, "invalid", upload.seen)
    BY <1>1, <1>2, <1>3, <2>1 DEF GoesTo
  <2> QED
    BY <2>90, GoesOn
<1>6. CASE ~(OpKind(upload.lead) # "create" /\ upload.etag = 0)
  <2>1. upload' = [upload EXCEPT !.at = "wait", !.from = upload.from, !.answer = "none",
                                 !.seen = upload.seen]
    BY <1>6, <1>1, <1>2 DEF Send, OpKind, EventTypeOK
  <2>90. GoesTo("wait", upload.from, "none", upload.seen)
    BY <1>1, <1>2, <1>3, <1>4, <1>6, <2>1 DEF GoesTo
  <2> QED
    BY <2>90, GoesOn
<1> QED
  BY <1>5, <1>6

LEMMA TurnedDownKeeps ==
  ASSUME EventOK, NEW answer \in {"retry", "invalid"}, TurnedDown(answer)
  PROVE  EventOK'
<1>1. Underway /\ EventTypeOK /\ AnswerOK /\ UploadOK /\ ShownOK
  BY DEF TurnedDown, Underway, EventOK
<1>2. /\ upload.from \in {"pending", "ambiguous"} /\ upload.seen \in Snapshot /\ Past(upload.seen)
  BY <1>1, UploadTyped DEF TurnedDown, AnswerOK
<1>3. UNCHANGED <<google, ops, local, history, late>>
  BY DEF TurnedDown
<1>4. upload.from = "pending" => \A n \in upload.members : Untouched(n)'
  BY <1>1, <1>3 DEF TurnedDown, AnswerOK, Untouched, Done
<1>5. upload' = [upload EXCEPT !.at = "answered", !.from = upload.from, !.answer = answer,
                               !.seen = upload.seen]
  BY <1>1 DEF TurnedDown, EventTypeOK
<1>90. GoesTo("answered", upload.from, answer, upload.seen)
  BY <1>1, <1>2, <1>3, <1>4, <1>5 DEF GoesTo
<1> QED
  BY <1>90, GoesOn

LEMMA TimesOutKeeps == EventOK /\ TimesOut => EventOK'
<1> SUFFICES ASSUME EventOK, TimesOut PROVE EventOK'
  OBVIOUS
<1>1. Underway /\ EventTypeOK /\ AnswerOK /\ UploadOK /\ ShownOK
  BY DEF TimesOut, Underway, EventOK
<1>2. /\ upload.from \in {"pending", "ambiguous"} /\ upload.seen \in Snapshot /\ upload.answer = "none"
      /\ Past(upload.seen)
  BY <1>1, UploadTyped DEF TimesOut, UploadOK, AnswerOK
<1>3. UNCHANGED <<google, ops, local, history>> /\ upload.at = "wait" /\ late' = late \cup {Writing}
  BY DEF TimesOut
<1>5. upload' = [upload EXCEPT !.at = "unsure", !.from = upload.from, !.answer = "none",
                               !.seen = upload.seen]
  BY <1>1, <1>2 DEF TimesOut, EventTypeOK
<1>90. GoesTo("unsure", upload.from, "none", upload.seen)
  BY <1>1, <1>2, <1>3, <1>5 DEF GoesTo
<1> QED
  BY <1>90, GoesOn

LEMMA ReconcileKeeps == EventOK /\ (Reconcile \/ ReconcileFails) => EventOK'
<1> SUFFICES ASSUME EventOK, Reconcile \/ ReconcileFails PROVE EventOK'
  OBVIOUS
<1>1. Underway /\ EventTypeOK /\ AnswerOK /\ UploadOK /\ ShownOK /\ upload.at \in {"reconcile", "unsure"}
      /\ EtagsOK
  BY DEF Reconcile, ReconcileFails, Underway, EventOK
<1>2. /\ upload.from \in {"pending", "ambiguous"} /\ upload.seen \in Snapshot /\ upload.answer = "none"
      /\ Past(upload.seen)
  BY <1>1, UploadTyped DEF UploadOK, AnswerOK
<1>3. UNCHANGED <<google, ops, local, history, late>>
  BY DEF Reconcile, ReconcileFails
<1>4. /\ Here \in Snapshot /\ Past(Here) /\ Here.etag = google.etag
      /\ google.is # "absent" => Has(Here)
  BY HereIsPast
<1>5. local.token <= google.etag
  BY <1>1 DEF EtagsOK
<1>6. /\ upload.lead \in upload.members /\ upload.members \subseteq Positions
      /\ upload.lead \in Positions
      /\ \A n \in upload.members : InDoubt(n) /\ ops[n].lead = upload.lead
  BY <1>1, UnderwayIsDoubt
<1>7. ASSUME CanLook, FoundInPlace,
             upload' = [upload EXCEPT !.at = "answered", !.answer = "ok", !.seen = Here]
      PROVE  EventOK'
  <2>1. upload' = [upload EXCEPT !.at = "answered", !.from = upload.from, !.answer = "ok",
                                 !.seen = Here]
    BY <1>7, <1>1 DEF EventTypeOK
  <2>2. OpKind(upload.lead) \in Kinds
    BY <1>1, <1>6, OpsTyped
  <2>3. CASE OpKind(upload.lead) = "delete"
    <3>1. google.is = "deleted"
      BY <2>3, <1>7 DEF FoundInPlace, Writing, OpKind
    <3>90. GoesTo("answered", upload.from, "ok", Here)
      BY <1>1, <1>2, <1>3, <1>4, <1>5, <2>1, <2>3, <3>1 DEF GoesTo
    <3> QED
      BY <3>90, GoesOn
  <2>4. CASE OpKind(upload.lead) # "delete"
    <3>1. google.is = "alive"
      BY <2>2, <2>4, <1>7 DEF FoundInPlace, Writing, OpKind, Kinds
    <3>2. Done(upload.lead) > 0
      <4>1. CASE OpKind(upload.lead) = "create"
        <5>1. upload.lead = 1 /\ local.home = "here"
          BY <4>1, <1>6 DEF EventOK, RowOK
        <5> QED
          BY <5>1, <3>1 DEF EventOK, GoogleOK
      <4>2. CASE OpKind(upload.lead) = "update"
        <5> DEFINE v == Patch(upload.members)[ops[upload.lead].group]
        <5>1. ops[upload.lead].group \in Groups
          BY <1>1, <1>6, OpsTyped
        <5>2. v \in upload.members
          BY <4>2, <1>1, <1>6, PatchOf
        <5>3. v \in OpIds /\ v # 0
          BY <5>2, <1>1, <1>6, OpsTyped
        <5>4. google.val[ops[upload.lead].group] = v
          BY <4>2, <1>7, <5>1, <5>3 DEF FoundInPlace, Writing, OpKind
        <5>5. Done(v) > 0
          BY <5>1, <5>3, <5>4 DEF EventOK, GoogleOK, Signed
        <5>6. v \in Positions /\ InDoubt(v) /\ ops[v].lead = upload.lead
          BY <5>2, <1>6
        <5> HIDE DEF v
        <5> QED
          BY <5>5, <5>6 DEF EventOK, OpsOK
      <4> QED
        BY <2>2, <2>4, <4>1, <4>2 DEF Kinds
    <3>3. \A n \in upload.members : Done(n) > 0
      BY <3>2, <1>6 DEF EventOK, OpsOK
    <3>90. GoesTo("answered", upload.from, "ok", Here)
      BY <1>1, <1>2, <1>3, <1>4, <1>5, <2>1, <2>4, <3>1, <3>3 DEF GoesTo
    <3> QED
      BY <3>90, GoesOn
  <2> QED
    BY <2>3, <2>4
<1>8. ASSUME FoundChanged,
             upload' = [upload EXCEPT !.at = "answered", !.answer = "changed", !.seen = Here]
      PROVE  EventOK'
  <2>1. upload' = [upload EXCEPT !.at = "answered", !.from = upload.from, !.answer = "changed",
                                 !.seen = Here]
    BY <1>8, <1>1 DEF EventTypeOK
  <2>2. google.is = "alive"
    BY <1>8 DEF FoundChanged
  <2>90. GoesTo("answered", upload.from, "changed", Here)
    BY <1>1, <1>2, <1>3, <1>4, <1>5, <2>1, <2>2 DEF GoesTo
  <2> QED
    BY <2>90, GoesOn
<1>9. ASSUME upload.at = "reconcile", upload' = [upload EXCEPT !.at = "send"]
      PROVE  EventOK'
  <2>1. upload' = [upload EXCEPT !.at = "send", !.from = upload.from, !.answer = "none",
                                 !.seen = upload.seen]
    BY <1>9, <1>1, <1>2 DEF EventTypeOK
  <2>2. upload.from = "ambiguous"
    BY <1>9, <1>1 DEF AnswerOK
  <2>90. GoesTo("send", upload.from, "none", upload.seen)
    BY <1>1, <1>2, <1>3, <2>1, <2>2 DEF GoesTo
  <2> QED
    BY <2>90, GoesOn
<1>10. ASSUME upload' = [upload EXCEPT !.at = "answered", !.answer = "retry", !.from = "ambiguous"]
       PROVE  EventOK'
  <2>1. upload' = [upload EXCEPT !.at = "answered", !.from = "ambiguous", !.answer = "retry",
                                 !.seen = upload.seen]
    BY <1>10, <1>1 DEF EventTypeOK
  <2>90. GoesTo("answered", "ambiguous", "retry", upload.seen)
    BY <1>1, <1>2, <1>3, <2>1 DEF GoesTo
  <2> QED
    BY <2>90, GoesOn
<1> QED
  BY <1>7, <1>8, <1>9, <1>10 DEF Reconcile, ReconcileFails

LEMMA FetchKeeps == EventOK /\ (FetchCurrent \/ FetchFails) => EventOK'
<1> SUFFICES ASSUME EventOK, FetchCurrent \/ FetchFails PROVE EventOK'
  OBVIOUS
<1>1. Underway /\ EventTypeOK /\ AnswerOK /\ UploadOK /\ EtagsOK /\ upload.at = "answered"
  BY DEF FetchCurrent, FetchFails, Underway, EventOK
<1>2. /\ upload.from \in {"pending", "ambiguous"} /\ upload.seen \in Snapshot
      /\ Past(upload.seen)
  BY <1>1, UploadTyped DEF AnswerOK
<1>3. UNCHANGED <<google, ops, local, history, late>>
  BY DEF FetchCurrent, FetchFails
<1>4. /\ Here \in Snapshot /\ Past(Here) /\ Here.etag = google.etag
      /\ google.is # "absent" => Has(Here)
  BY HereIsPast
<1>5. local.token <= google.etag
  BY <1>1 DEF EtagsOK
<1>6. /\ upload.lead \in upload.members /\ upload.members \subseteq Positions
      /\ upload.lead \in Positions
      /\ \A n \in upload.members : InDoubt(n) /\ ops[n].lead = upload.lead
  BY <1>1, UnderwayIsDoubt
<1>7. ASSUME NEW seen \in {Here, upload.seen},
             upload' = [upload EXCEPT !.answer = "invalid", !.seen = seen]
      PROVE  EventOK'
  <2>1. upload' = [upload EXCEPT !.at = "answered", !.from = upload.from, !.answer = "invalid",
                                 !.seen = seen]
    BY <1>7, <1>1 DEF EventTypeOK
  <2>90. GoesTo("answered", upload.from, "invalid", seen)
    BY <1>1, <1>2, <1>3, <1>4, <2>1 DEF GoesTo
  <2> QED
    BY <2>90, GoesOn
<1>8. ASSUME google.is = "alive", OpKind(upload.lead) = "create",
             upload' = [upload EXCEPT !.answer = "ok", !.seen = Here]
      PROVE  EventOK'
  <2>1. upload' = [upload EXCEPT !.at = "answered", !.from = upload.from, !.answer = "ok",
                                 !.seen = Here]
    BY <1>8, <1>1 DEF EventTypeOK
  <2>2. upload.lead = 1 /\ local.home = "here"
    BY <1>8, <1>6 DEF EventOK, RowOK
  <2>3. Done(upload.lead) > 0
    BY <2>2, <1>8 DEF EventOK, GoogleOK
  <2>4. \A n \in upload.members : Done(n) > 0
    BY <2>3, <1>6 DEF EventOK, OpsOK
  <2>90. GoesTo("answered", upload.from, "ok", Here)
    BY <1>1, <1>2, <1>3, <1>4, <1>5, <1>8, <2>1, <2>4 DEF GoesTo
  <2> QED
    BY <2>90, GoesOn
<1>9. ASSUME google.is = "alive", upload' = [upload EXCEPT !.answer = "changed", !.seen = Here]
      PROVE  EventOK'
  <2>1. upload' = [upload EXCEPT !.at = "answered", !.from = upload.from, !.answer = "changed",
                                 !.seen = Here]
    BY <1>9, <1>1 DEF EventTypeOK
  <2>90. GoesTo("answered", upload.from, "changed", Here)
    BY <1>1, <1>2, <1>3, <1>4, <1>5, <1>9, <2>1 DEF GoesTo
  <2> QED
    BY <2>90, GoesOn
<1>10. CASE FetchFails
  <2>1. upload' = [upload EXCEPT !.answer = "invalid", !.seen = upload.seen]
    BY <1>10, <1>1 DEF FetchFails, EventTypeOK
  <2> QED
    BY <2>1, <1>7
<1>11. CASE FetchCurrent
  <2>1. upload' = [upload EXCEPT !.seen = Here,
       !.answer = IF google.is # "alive" THEN "invalid"
                  ELSE IF OpKind(upload.lead) = "create" THEN "ok" ELSE "changed"]
    BY <1>11 DEF FetchCurrent, OpKind
  <2>2. CASE google.is # "alive"
    <3>1. upload' = [upload EXCEPT !.answer = "invalid", !.seen = Here]
      BY <2>1, <2>2, <1>1 DEF EventTypeOK
    <3> QED
      BY <3>1, <1>7
  <2>3. CASE google.is = "alive" /\ OpKind(upload.lead) = "create"
    <3>1. upload' = [upload EXCEPT !.answer = "ok", !.seen = Here]
      BY <2>1, <2>3, <1>1 DEF EventTypeOK
    <3> QED
      BY <3>1, <2>3, <1>8
  <2>4. CASE google.is = "alive" /\ OpKind(upload.lead) # "create"
    <3>1. upload' = [upload EXCEPT !.answer = "changed", !.seen = Here]
      BY <2>1, <2>4, <1>1 DEF EventTypeOK
    <3> QED
      BY <3>1, <2>4, <1>9
  <2> QED
    BY <2>2, <2>3, <2>4
<1> QED
  BY <1>10, <1>11


\* A late request that Google refuses, or that arrives when the worker is elsewhere.
LEMMA LateArrivesKeeps ==
  ASSUME EventOK, NEW r \in late, LateArrives(r)
  PROVE  EventOK'
<1>1. EventTypeOK
  BY DEF EventOK
<1>2. /\ late' = late \ {r} /\ ops' = ops /\ local' = local /\ upload' = upload
      /\ Receives(r)
  BY DEF LateArrives
<1>3. r \in Request /\ RequestOK(r)
  BY <1>1, UploadTyped DEF EventOK, RequestsOK
<1>4. \A n \in OpIds : Untouched(n) => n \notin r.members
  BY DEF Untouched
<1>5. UploadOK'
  BY <1>2 DEF EventOK, UploadOK, Positions, State, OpKind, GroupOK, Underway
<1>6. CASE ~Accepts(r)
  <2>1. google' = google /\ history' = history
    BY <1>2, <1>6 DEF Receives
  <2>2. EventTypeOK'
    BY <1>1, <1>2, <2>1 DEF EventTypeOK
  <2>3. RowOK' /\ GoogleOK' /\ EtagsOK' /\ OutcomesOK'
    BY <1>2, <2>1 DEF EventOK, RowOK, GoogleOK, EtagsOK, OutcomesOK, Doomed, Positions, ActiveOps,
           State, OpKind, Done, Past, Signed
  <2>4. RequestsOK'
    BY <1>2, <2>1 DEF EventOK, RequestsOK, RequestOK, GroupOK, Positions, State, OpKind, InDoubt, Clear
  <2>5. \A n : Untouched(n) => Untouched(n)'
    BY <1>2, <2>1 DEF Untouched, Done
  <2>6. AnswerOK'
    BY <1>2, <2>1, <2>5 DEF EventOK, AnswerOK, OpKind, Done, Has, Past, Signed
  <2>7. OpsOK'
    BY <1>2, <2>1, <2>5 DEF EventOK, OpsOK, Positions, State, OpKind, InDoubt, Clear, Done
  <2>8. OnceOK'
    BY <1>2, <2>1 DEF EventOK, OnceOK, Doomed, Positions, State, OpKind, InDoubt, Clear, Done, Has
  <2>9. ShownOK'
    BY <1>2, <2>1 DEF EventOK, ShownOK, Positions, State, OpKind, Open, Here
  <2> QED
    BY <1>5, <2>2, <2>3, <2>4, <2>6, <2>7, <2>8, <2>9 DEF EventOK
<1>7. CASE Accepts(r)
  <2>1. Commit(r) /\ UNCHANGED <<ops, local>> /\ late' \subseteq late
    BY <1>2, <1>7 DEF Receives
  <2>2. \A n \in r.members : n \in Positions /\ n \in OpIds
    BY <1>1, <1>3, OpsTyped DEF RequestOK, GroupOK
  <2>3. \A n \in r.members : State(n) \notin {"pending", "cancelled"}
    BY <1>4, <2>2 DEF EventOK, OpsOK
  <2>4. ~Doomed => \A n \in r.members : Done(n) = 0
    <3>1. CASE r.kind = "create"
      BY <1>7, <2>2, <3>1 DEF Accepts, EventOK, GoogleOK
    <3>2. CASE r.kind # "create"
      BY <1>7, <2>2, <3>2 DEF Accepts, EventOK, OnceOK
    <3> QED
      BY <3>1, <3>2
  <2>5. /\ google' \in [is : {"absent", "alive", "deleted"}, etag : Etags, val : [Groups -> Values]]
        /\ late' \subseteq Request /\ history' \in [applied : [OpIds -> Nat], foreign : 0..MaxForeign]
        /\ RowOK' /\ GoogleOK' /\ EtagsOK' /\ RequestsOK' /\ OpsOK' /\ OnceOK' /\ OutcomesOK'
        /\ google.is # "deleted" /\ google.is' # "absent" /\ google'.etag = google.etag + 1
        /\ google.etag \in Nat /\ r.members \subseteq OpIds
        /\ \A n \in OpIds : history'.applied[n] = (IF n \in r.members THEN Done(n) + 1 ELSE Done(n))
        /\ \A s \in Snapshot : Past(s) => Past(s)'
    BY <1>3, <1>7, <2>1, <2>3, <2>4, CommitKeeps
  <2>6. EventTypeOK'
    BY <1>1, <1>2, <2>5 DEF EventTypeOK
  <2>7. \A n \in OpIds : Untouched(n) => Untouched(n)'
    BY <1>2, <1>4, <2>5 DEF Untouched, Done
  <2>8. upload.members \subseteq OpIds /\ upload.seen \in Snapshot /\ upload.seen.etag \in Nat
        /\ local.token \in Nat
    BY <1>1, UploadTyped DEF Snapshot, Etags
  <2>9. \A n \in OpIds : Done(n) > 0 => history'.applied[n] > 0
    <3>1. \A n \in OpIds : Done(n) \in Nat
      BY <1>1, OpsTyped
    <3> QED
      BY <3>1, <2>5
  <2>10. Past(upload.seen)'
    <3>1. Past(upload.seen)
      BY DEF EventOK, AnswerOK
    <3>2. \A s : s = upload.seen => Past(s)'
      BY <2>5, <2>8, <3>1
    <3> QED
      BY <3>2, <1>2 DEF Past
  <2>11. AnswerOK'
    <3>1. AnswerOK
      BY DEF EventOK
    <3>2. upload.answer = "ok" => OpKind(upload.lead) # "delete"
                                  /\ \A n \in upload.members : history'.applied[n] > 0
      BY <3>1, <2>5, <2>8, <2>9 DEF AnswerOK
    <3>3. upload.from = "pending" /\ (upload.at \in {"send", "wait"} \/ upload.answer = "retry") =>
            \A n \in upload.members : Untouched(n)'
      BY <3>1, <2>7, <2>8 DEF AnswerOK
    <3>4. upload.answer # "gone"
      BY <3>1, <2>5 DEF AnswerOK
    <3>5. /\ upload.at = "reconcile" => upload.from = "ambiguous"
          /\ upload.answer \in {"ok", "changed"} => Has(upload.seen)
      BY <3>1 DEF AnswerOK
    <3> HIDE DEF AnswerOK
    <3>6. \A n \in upload.members : (Untouched(n)' <=> /\ history'.applied[n] = 0
                                                       /\ \A q \in late' : n \notin q.members)
      BY DEF Untouched, Done
    <3> QED
      BY <1>2, <2>10, <3>2, <3>3, <3>4, <3>5, <3>6 DEF AnswerOK, OpKind, Done, Has, Untouched
  <2>12. ShownOK'
    <3>1. local.token # google'.etag
      <4>1. local.token <= google.etag
        BY DEF EventOK, EtagsOK
      <4> QED
        BY <4>1, <2>5, <2>8
    <3>2. upload.seen.etag < google'.etag
      <4>1. upload.seen.etag <= google.etag
        BY DEF EventOK, AnswerOK, Past
      <4> QED
        BY <4>1, <2>5, <2>8
    <3> QED
      BY <1>2, <2>5, <3>1, <3>2 DEF EventOK, ShownOK, OpKind
  <2> QED
    BY <1>5, <2>5, <2>6, <2>11, <2>12 DEF EventOK
<1> QED
  BY <1>6, <1>7

\* Google takes the write, and the worker hears of it or does not.
LEMMA TakenKeeps ==
  ASSUME EventOK, upload.at = "wait", Accepts(Writing), Commit(Writing),
         UNCHANGED <<ops, local, late>>,
         \/ upload' = [upload EXCEPT !.at = "unsure"]
         \/ upload' = [upload EXCEPT !.at = "answered", !.answer = "ok",
                                     !.seen = [etag |-> google'.etag, val |-> google'.val]]
  PROVE  EventOK'
<1>1. EventTypeOK /\ Underway /\ UploadOK /\ AnswerOK
  BY DEF EventOK, Underway
<1>2. /\ Writing \in Request /\ RequestOK(Writing)
      /\ \A n \in Writing.members : n \in Positions /\ State(n) = "syncing"
      /\ ~Doomed => \A n \in Writing.members : Done(n) = 0
  BY WritingOK DEF Accepts
<1>3. Writing.members = upload.members /\ Writing.kind = OpKind(upload.lead)
  BY DEF Writing, OpKind
<1>4. /\ google' \in [is : {"absent", "alive", "deleted"}, etag : Etags, val : [Groups -> Values]]
      /\ late' \subseteq Request /\ history' \in [applied : [OpIds -> Nat], foreign : 0..MaxForeign]
      /\ RowOK' /\ GoogleOK' /\ EtagsOK' /\ RequestsOK' /\ OpsOK' /\ OnceOK' /\ OutcomesOK'
      /\ google.is # "deleted" /\ google.is' # "absent" /\ google'.etag = google.etag + 1
      /\ google.etag \in Nat /\ Writing.members \subseteq OpIds
      /\ (Writing.kind # "delete" => google'.is = "alive")
      /\ (Writing.kind = "delete" => google'.is = "deleted")
      /\ \A n \in OpIds : history'.applied[n] = (IF n \in Writing.members THEN Done(n) + 1 ELSE Done(n))
      /\ Signed(google.val)'
      /\ \A s \in Snapshot : Past(s) => Past(s)'
  BY <1>2, CommitKeeps
<1>5. upload.answer = "none" /\ upload.seen \in Snapshot /\ Past(upload.seen) /\ local.token \in Nat
  BY <1>1, UploadTyped DEF UploadOK, AnswerOK
<1>6. upload'.members = upload.members /\ upload'.lead = upload.lead /\ upload'.etag = upload.etag
      /\ upload'.from = upload.from
  BY <1>1 DEF EventTypeOK
<1>7. \/ /\ upload'.at = "unsure" /\ upload'.answer = "none" /\ upload'.seen = upload.seen
      \/ /\ upload'.at = "answered" /\ upload'.answer = "ok"
         /\ upload'.seen = [etag |-> google'.etag, val |-> google'.val]
  BY <1>1, <1>5 DEF EventTypeOK
<1>8. upload'.seen \in Snapshot /\ Past(upload.seen)' /\ upload'.seen.etag \in Nat
  <2>1. CASE upload'.seen = upload.seen
    <3>1. \A s : s = upload.seen => Past(s)'
      BY <1>4, <1>5
    <3> QED
      BY <3>1, <2>1, <1>5 DEF Past, Snapshot, Etags
  <2>2. CASE upload'.seen = [etag |-> google'.etag, val |-> google'.val]
    <3>1. upload'.seen.etag = google'.etag /\ upload'.seen.val = google'.val
      BY <2>2
    <3>2. upload'.seen \in Snapshot /\ google'.etag \in Nat
      BY <2>2, <1>4 DEF Snapshot, Etags
    <3> QED
      BY <3>1, <3>2, <1>4 DEF Past, Signed, Done
  <2> QED
    BY <1>7, <2>1, <2>2
<1>9. EventTypeOK'
  <2>1. upload' \in [at : {"idle", "lease", "reconcile", "send", "wait", "answered", "unsure"},
                 members : SUBSET OpIds, lead : 0..MaxOps, from : {"pending", "ambiguous"},
                 etag : Etags, answer : {"none", "ok", "conflict", "changed", "gone", "invalid", "retry"},
                 seen : Snapshot]
    <3>1. [etag |-> google'.etag, val |-> google'.val] \in Snapshot
      BY <1>4 DEF Snapshot
    <3> QED
      BY <1>1, <3>1 DEF EventTypeOK
  <2> QED
    BY <1>1, <1>4, <2>1 DEF EventTypeOK
<1>10. UploadOK'
  <2>1. Positions' = Positions /\ (\A n : State(n)' = State(n) /\ OpKind(n)' = OpKind(n)) /\ ops' = ops
    BY DEF Positions, State, OpKind
  <2> QED
    BY <1>1, <1>6, <1>7, <2>1 DEF UploadOK, GroupOK, Underway, State, OpKind
<1>11. AnswerOK'
  <2>1. \A n \in upload.members : history'.applied[n] > 0
    <3>1. \A n \in OpIds : Done(n) \in Nat
      BY <1>1, OpsTyped
    <3> QED
      BY <3>1, <1>3, <1>4
  <2>2. upload'.answer = "ok" =>
       IF OpKind(upload.lead) = "delete" THEN google'.is = "deleted"
       ELSE \A n \in upload.members : history'.applied[n] > 0
    BY <2>1, <1>3, <1>4
  <2>3. upload'.answer = "ok" => upload'.seen.etag # 0
    BY <1>4, <1>7
  <2>4. upload'.at \in {"answered", "unsure"} /\ upload'.answer \in {"none", "ok"}
    BY <1>7
  <2> QED
    BY <1>6, <1>8, <2>2, <2>3, <2>4 DEF AnswerOK, Has, OpKind, Done
<1>12. ShownOK'
  <2>1. local.token # google'.etag /\ local.token <= google'.etag
    <3>1. local.token <= google.etag
      BY DEF EventOK, EtagsOK
    <3> QED
      BY <3>1, <1>4, <1>5
  <2>2. upload'.answer = "ok" => upload'.seen.etag = google'.etag
    BY <1>7
  <2> QED
    BY <1>3, <1>4, <1>6, <1>7, <2>1, <2>2 DEF EventOK, ShownOK, OpKind
<1> QED
  BY <1>4, <1>9, <1>10, <1>11, <1>12 DEF EventOK

LEMMA AnsweredKeeps == EventOK /\ (Answered \/ AnswerLost) => EventOK'
<1> SUFFICES ASSUME EventOK, Answered \/ AnswerLost PROVE EventOK'
  OBVIOUS
<1>1. Underway /\ EventTypeOK /\ AnswerOK /\ UploadOK /\ upload.at = "wait" /\ EtagsOK
  BY DEF Answered, AnswerLost, Underway, EventOK
<1>2. /\ upload.from \in {"pending", "ambiguous"} /\ upload.seen \in Snapshot /\ upload.answer = "none"
      /\ Past(upload.seen)
  BY <1>1, UploadTyped DEF UploadOK, AnswerOK
<1>3. Receives(Writing) /\ UNCHANGED <<ops, local, late>>
  BY DEF Answered, AnswerLost
<1>4. CASE Accepts(Writing)
  <2>1. Commit(Writing)
    BY <1>3, <1>4 DEF Receives
  <2>2. \/ upload' = [upload EXCEPT !.at = "unsure"]
        \/ upload' = [upload EXCEPT !.at = "answered", !.answer = "ok",
                                    !.seen = [etag |-> google'.etag, val |-> google'.val]]
    BY <1>4 DEF Answered, AnswerLost
  <2> QED
    BY <1>1, <1>3, <1>4, <2>1, <2>2, TakenKeeps
<1>5. CASE ~Accepts(Writing)
  <2>1. google' = google /\ history' = history
    BY <1>3, <1>5 DEF Receives
  <2>2. CASE upload' = [upload EXCEPT !.at = "unsure"]
    <3>1. upload' = [upload EXCEPT !.at = "unsure", !.from = upload.from, !.answer = "none",
                                   !.seen = upload.seen]
      BY <1>1, <1>2, <2>2 DEF EventTypeOK
    <3>2. GoesTo("unsure", upload.from, "none", upload.seen)
      BY <1>1, <1>2, <1>3, <2>1, <3>1 DEF GoesTo
    <3> QED
      BY <3>2, GoesOn
  <2>3. ASSUME NEW answer \in Refusals(Writing),
               upload' = [upload EXCEPT !.at = "answered", !.answer = answer,
                                        !.seen = [etag |-> google'.etag, val |-> google'.val]]
        PROVE  EventOK'
    <3>1. upload' = [upload EXCEPT !.at = "answered", !.from = upload.from, !.answer = answer,
                                   !.seen = Here]
      BY <1>1, <2>1, <2>3 DEF EventTypeOK, Here
    <3>2. /\ answer \in {"conflict", "gone", "retry"}
          /\ answer = "gone" => OpKind(upload.lead) # "create" /\ google.is # "alive"
      BY <2>3 DEF Refusals, Writing, OpKind
    <3>3. answer = "gone" => google.is = "deleted"
      <4>1. SUFFICES ASSUME answer = "gone" PROVE google.is # "absent"
        BY <3>2, <1>1, UploadTyped
      <4>2. upload.etag # 0 /\ upload.etag = ops[upload.lead].etag
        BY <4>1, <3>2, <1>1 DEF UploadOK
      <4>3. upload.lead \in Positions
        BY <1>1, UnderwayIsDoubt
      <4>4. upload.etag <= google.etag /\ upload.etag \in Nat /\ google.etag \in Nat
        BY <4>2, <4>3, <1>1, UploadTyped DEF EtagsOK
      <4> QED
        BY <4>2, <4>4 DEF EventOK, GoogleOK
    <3>4. upload.from = "pending" => \A n \in upload.members : Untouched(n)'
      BY <1>1, <1>3, <2>1 DEF AnswerOK, Untouched, Done
    <3>5. Here \in Snapshot /\ Past(Here)
      BY HereIsPast
    <3>6. GoesTo("answered", upload.from, answer, Here)
      BY <1>1, <1>2, <1>3, <2>1, <3>1, <3>2, <3>3, <3>4, <3>5 DEF GoesTo
    <3> QED
      BY <3>6, GoesOn
  <2> QED
    BY <1>5, <2>2, <2>3 DEF Answered, AnswerLost
<1> QED
  BY <1>4, <1>5


-----------------------------------------------------------------------------
(* Operations change their states and the upload ends.                     *)

Restated ==
  /\ ops' \in Seq(Op) /\ Len(ops') = Len(ops)
  /\ UNCHANGED <<google, history>>
  /\ upload' \in {Asleep, [Asleep EXCEPT !.at = "lease"]}
  /\ late' = late \/ (upload.at = "wait" /\ late' = late \cup {Writing})
  /\ \A n \in Positions :
       /\ ops'[n].kind = ops[n].kind /\ ops'[n].group = ops[n].group /\ ops'[n].base = ops[n].base
       /\ State(n) \in Settled \cup {"conflict"} => ops'[n].state = State(n)
       /\ State(n) = "failed" => ops'[n].state \in {"failed", "conflict"}
       /\ State(n) = "ambiguous" => ops'[n].state \in {"ambiguous", "conflict"}
       /\ ops'[n].state = "ambiguous" =>
            State(n) \in {"ambiguous", "syncing"} /\ ops'[n].lead = ops[n].lead
       /\ ops'[n].state # "syncing"
       /\ ops'[n].state \in {"pending", "cancelled"} => Untouched(n)'
       /\ ops'[n].etag <= google.etag /\ (ops[n].etag # 0 => ops'[n].etag # 0)
  /\ \A n, m \in upload.members : ops'[n].state = ops'[m].state

LEMMA AsleepTyped ==
  /\ Asleep.members = {} /\ Asleep.lead = 0 /\ Asleep.from = "pending" /\ Asleep.etag = 0
  /\ Asleep.answer = "none" /\ Asleep.seen = NoBase /\ Asleep.at = "idle"
  /\ \A u : u \in {Asleep, [Asleep EXCEPT !.at = "lease"]} =>
       /\ u \in [at : {"idle", "lease", "reconcile", "send", "wait", "answered", "unsure"},
                 members : SUBSET OpIds, lead : 0..MaxOps, from : {"pending", "ambiguous"},
                 etag : Etags, answer : {"none", "ok", "conflict", "changed", "gone", "invalid", "retry"},
                 seen : Snapshot]
       /\ u.members = {} /\ u.lead = 0 /\ u.from = "pending" /\ u.etag = 0
       /\ u.answer = "none" /\ u.seen = NoBase /\ u.at \in {"idle", "lease"}
<1>1. NoBase \in Snapshot
  BY BoundsAssumption DEF NoBase, Snapshot, Etags, Values
<1>2. 0 \in 0..MaxOps /\ 0 \in Etags
  BY BoundsAssumption DEF Etags
<1> QED
  BY <1>1, <1>2 DEF Asleep

\* What was sent stays together, and nothing comes into doubt.
LEMMA RestatedKeeps ==
  ASSUME EventOK, Restated
  PROVE  /\ ops' \in Seq(Op) /\ Len(ops') <= MaxOps
         /\ late' \subseteq Request
         /\ upload' \in [at : {"idle", "lease", "reconcile", "send", "wait", "answered", "unsure"},
                 members : SUBSET OpIds, lead : 0..MaxOps, from : {"pending", "ambiguous"},
                 etag : Etags, answer : {"none", "ok", "conflict", "changed", "gone", "invalid", "retry"},
                 seen : Snapshot]
         /\ upload'.answer = "none"
         /\ Positions' = Positions /\ (Doomed' <=> Doomed)
         /\ RequestsOK' /\ UploadOK' /\ AnswerOK' /\ OpsOK'
         /\ \A n \in Positions : InDoubt(n)' => InDoubt(n) /\ ops'[n].lead = ops[n].lead
                                                /\ (Underway => n \in upload.members)
         /\ \A n \in Positions : Clear(n)' => Clear(n)
<1>1. EventTypeOK /\ UploadOK /\ OpsOK
  BY DEF EventOK
<1>2. /\ Positions = 1 .. Len(ops) /\ Len(ops) \in Nat /\ Positions \subseteq OpIds /\ Len(ops) <= MaxOps
      /\ \A n \in Positions : n \in Nat /\ ops[n].lead \in 0 .. MaxOps /\ ops[n].group \in Groups
                              /\ ops[n].etag \in Nat /\ State(n) \in Active \cup Settled
      /\ \A n \in OpIds : n \in Nat /\ Done(n) \in Nat
  BY <1>1, OpsTyped
<1>3. /\ ops' \in Seq(Op) /\ Len(ops') = Len(ops) /\ google' = google /\ history' = history
      /\ upload' \in {Asleep, [Asleep EXCEPT !.at = "lease"]}
      /\ late' = late \/ (upload.at = "wait" /\ late' = late \cup {Writing})
      /\ \A n, m \in upload.members : ops'[n].state = ops'[m].state
  BY DEF Restated
<1>4. ASSUME NEW n \in Positions
      PROVE  /\ ops'[n].kind = ops[n].kind /\ ops'[n].group = ops[n].group
             /\ State(n) \in Settled \cup {"conflict"} => ops'[n].state = State(n)
             /\ State(n) = "failed" => ops'[n].state \in {"failed", "conflict"}
             /\ State(n) = "ambiguous" => ops'[n].state \in {"ambiguous", "conflict"}
             /\ ops'[n].state = "ambiguous" =>
                    State(n) \in {"ambiguous", "syncing"} /\ ops'[n].lead = ops[n].lead
             /\ ops'[n].state # "syncing"
             /\ ops'[n].state \in {"pending", "cancelled"} => Untouched(n)'
             /\ ops'[n].etag <= google.etag /\ (ops[n].etag # 0 => ops'[n].etag # 0)
  BY DEF Restated
<1>5. Positions' = Positions
  BY <1>3 DEF Positions
<1>6. Doomed' <=> Doomed
  BY <1>4, <1>5 DEF Doomed, OpKind
<1>7. /\ upload' \in [at : {"idle", "lease", "reconcile", "send", "wait", "answered", "unsure"},
                 members : SUBSET OpIds, lead : 0..MaxOps, from : {"pending", "ambiguous"},
                 etag : Etags, answer : {"none", "ok", "conflict", "changed", "gone", "invalid", "retry"},
                 seen : Snapshot]
      /\ upload'.answer = "none" /\ upload'.at \in {"idle", "lease"} /\ upload'.members = {}
      /\ upload'.seen = NoBase /\ upload'.from = "pending"
  BY <1>3, AsleepTyped
<1>8. ASSUME NEW n \in Positions, Clear(n)' PROVE Clear(n)
  <2> SUFFICES ASSUME NEW m \in 1 .. (n - 1), State(m) \in {"failed", "conflict"} PROVE FALSE
    BY DEF Clear
  <2>1. m \in Positions
    BY <1>2
  <2>2. ops'[m].state \in {"failed", "conflict"}
    BY <2>1, <1>4
  <2> QED
    BY <2>2, <1>8 DEF Clear, State
<1>9. ASSUME NEW n \in Positions, InDoubt(n)'
      PROVE  InDoubt(n) /\ ops'[n].lead = ops[n].lead /\ (Underway => n \in upload.members)
  <2>1. ops'[n].state = "ambiguous" /\ Clear(n)'
    BY <1>9, <1>4 DEF InDoubt, State
  <2>2. InDoubt(n) /\ ops'[n].lead = ops[n].lead
    BY <2>1, <1>4, <1>8 DEF InDoubt
  <2> QED
    BY <2>2, <1>1, DoubtIsUnderway
<1>10. \A r \in late' : r \in Request /\ RequestOK(r)
  <2>1. \A r \in late : r \in Request /\ RequestOK(r)
    BY <1>1, UploadTyped DEF EventOK, RequestsOK
  <2>2. upload.at = "wait" => Writing \in Request /\ RequestOK(Writing)
    BY WritingOK
  <2> QED
    BY <2>1, <2>2, <1>3
<1>11. \A n \in Positions : State(n)' = ops'[n].state /\ OpKind(n)' = OpKind(n)
  BY <1>4 DEF State, OpKind
<1>12. RequestsOK'
  <2> SUFFICES ASSUME NEW r \in late'
               PROVE  RequestOK(r)'
    BY DEF RequestsOK
  <2>1. RequestOK(r) /\ GroupOK(r.lead, r.members)
    BY <1>10 DEF RequestOK
  <2>2. /\ r.lead \in r.members /\ r.members \subseteq Positions /\ r.lead \in Positions
        /\ \A m \in 1 .. (r.lead - 1) : m \in Positions
    BY <2>1, <1>2 DEF GroupOK
  <2>3. GroupOK(r.lead, r.members)'
    <3>1. \A m \in 1 .. (r.lead - 1) : ops'[m].state \in Settled
      BY <2>1, <2>2, <1>4 DEF GroupOK
    <3>2. \A m \in r.members : m >= r.lead /\ (m # r.lead => ops'[m].kind = "update")
      BY <2>1, <2>2, <1>4 DEF GroupOK, OpKind
    <3>3. ops'[r.lead].kind = "delete" => r.members = {r.lead}
      BY <2>1, <2>2, <1>4 DEF GroupOK, OpKind
    <3> QED
      BY <2>2, <3>1, <3>2, <3>3, <1>5 DEF GroupOK, State, OpKind
  <2>4. r.kind = ops'[r.lead].kind /\ r.etag <= google.etag
        /\ (r.kind # "create" => r.etag # 0 /\ ops'[r.lead].etag # 0)
    BY <2>1, <2>2, <1>4 DEF RequestOK, OpKind
  <2>5. \A n \in r.members : ops'[n].state \in {"ambiguous", "syncing"} => ops'[n].lead = r.lead
    BY <2>1, <2>2, <1>4 DEF RequestOK
  <2>6. ASSUME NEW n \in Positions, InDoubt(n)', ops'[n].lead = r.lead PROVE n \in r.members
    BY <2>1, <2>6, <1>9 DEF RequestOK
  <2>7. /\ \A g \in Groups : r.val[g] \in r.members \cup {0}
        /\ \A n \in r.members : ops'[n].kind = "update" => r.val[ops'[n].group] # 0
    BY <2>1, <2>2, <1>4 DEF RequestOK, OpKind
  <2> QED
    BY <2>3, <2>4, <2>5, <2>6, <2>7, <1>3, <1>5 DEF RequestOK, State, OpKind
<1>13. UploadOK'
  BY <1>4, <1>5, <1>7, <1>11 DEF UploadOK, Underway
<1>14. AnswerOK'
  <2>1. Past(NoBase)'
    <3>1. Past(NoBase)
      BY HereIsPast
    <3> QED
      BY <3>1, <1>3 DEF Past, Signed, Done, NoBase
  <2> QED
    BY <1>7, <2>1 DEF AnswerOK, Past
<1>15. \A n \in OpIds : n > Len(ops) => Untouched(n)'
  <2> SUFFICES ASSUME NEW n \in OpIds, n > Len(ops)
               PROVE  Untouched(n)'
    OBVIOUS
  <2>1. Untouched(n) /\ n \notin Positions
    BY <1>1, <1>2 DEF OpsOK
  <2>2. \A r \in late' : n \notin r.members
    BY <2>1, <1>10 DEF RequestOK, GroupOK
  <2> QED
    BY <2>1, <2>2, <1>3 DEF Untouched, Done
<1>16. ASSUME NEW n \in Positions, ops'[n].state = "ambiguous"
       PROVE  /\ ops'[n].lead \in 1 .. n
              /\ \A m \in 1 .. (ops'[n].lead - 1) : ops'[m].state \in Settled
              /\ ops'[n].lead # n => OpKind(n) = "update"
              /\ Clear(n)' => \A k \in ops'[n].lead .. n :
                               ops'[k].state = "ambiguous" /\ ops'[k].lead = ops'[n].lead
  <2>1. ops'[n].lead = ops[n].lead
    BY <1>4, <1>16
  <2>2. CASE State(n) = "ambiguous"
    <3>1. /\ ops[n].lead \in 1 .. n
          /\ \A m \in 1 .. (ops[n].lead - 1) : State(m) \in Settled
          /\ ops[n].lead # n => OpKind(n) = "update"
          /\ Clear(n) => \A k \in ops[n].lead .. n :
                           State(k) = "ambiguous" /\ ops[k].lead = ops[n].lead
      BY <2>2, <1>1 DEF OpsOK
    <3>2. \A m \in 1 .. (ops[n].lead - 1) : m \in Positions
      BY <3>1, <1>2
    <3>3. \A m \in 1 .. (ops[n].lead - 1) : ops'[m].state \in Settled
      BY <3>1, <3>2, <1>4
    <3>4. ASSUME Clear(n)', NEW k \in ops[n].lead .. n
          PROVE  ops'[k].state = "ambiguous" /\ ops'[k].lead = ops[n].lead
      <4>1. k \in Positions /\ (k # n => k \in 1 .. (n - 1))
        BY <3>1, <1>2
      <4>2. State(k) = "ambiguous" /\ ops[k].lead = ops[n].lead
        BY <3>1, <3>4, <1>8
      <4>3. k # n => ops'[k].state # "conflict"
        BY <3>4, <4>1 DEF Clear, State
      <4>4. ops'[k].state = "ambiguous"
        BY <4>1, <4>2, <4>3, <1>4, <1>16
      <4> QED
        BY <4>1, <4>2, <4>4, <1>4
    <3> QED
      BY <2>1, <3>1, <3>3, <3>4
  <2>3. CASE State(n) = "syncing"
    <3>1. n \in upload.members /\ Underway
      BY <2>3, <1>1 DEF UploadOK
    <3>2. /\ \A m \in 1 .. (upload.lead - 1) : State(m) \in Settled
          /\ \A m \in upload.members : m >= upload.lead /\ (m # upload.lead => OpKind(m) = "update")
          /\ \A k \in upload.lead .. n : k \in upload.members
          /\ \A m \in upload.members : ops[m].lead = upload.lead
          /\ upload.lead \in Positions /\ upload.members \subseteq Positions
      BY <3>1, <1>1 DEF UploadOK, GroupOK
    <3>3. ops[n].lead = upload.lead /\ upload.lead \in 1 .. n
      BY <3>1, <3>2, <1>2
    <3>4. \A m \in 1 .. (upload.lead - 1) : m \in Positions
      BY <3>3, <1>2
    <3>5. \A m \in 1 .. (upload.lead - 1) : ops'[m].state \in Settled
      BY <3>2, <3>4, <1>4
    <3>6. \A k \in upload.lead .. n : ops'[k].state = "ambiguous" /\ ops'[k].lead = upload.lead
      BY <3>1, <3>2, <1>3, <1>4, <1>16
    <3> QED
      BY <2>1, <3>1, <3>2, <3>3, <3>5, <3>6
  <2> QED
    BY <2>2, <2>3, <1>4, <1>16
<1>17. OpsOK'
  <2>1. \A n \in Positions : ops'[n].state \in {"pending", "cancelled"} => Untouched(n)'
    BY <1>4
  <2>2. ASSUME NEW n \in Positions, InDoubt(n)'
        PROVE  Done(n) > 0 <=> Done(ops'[n].lead) > 0
    BY <1>1, <1>9, <2>2 DEF OpsOK
  <2> QED
    BY <1>3, <1>5, <1>11, <1>15, <1>16, <2>1, <2>2 DEF OpsOK, State, OpKind, Done
<1>18. late' \subseteq Request
  BY <1>10
<1> QED
  BY <1>2, <1>3, <1>5, <1>6, <1>7, <1>8, <1>9, <1>12, <1>13, <1>14, <1>17, <1>18


\* The outcome of the upload is recorded with its members.
LEMMA MembersRestated ==
  ASSUME EventOK, Underway, NEW s \in Active \cup Settled, NEW lead \in 0 .. MaxOps,
         ops' = InState(upload.members, s, lead), upload' = Asleep, UNCHANGED <<google, history>>,
         late' = late \/ (upload.at = "wait" /\ late' = late \cup {Writing}),
         \/ s \in {"failed", "conflict", "succeeded"}
         \/ s = "ambiguous" /\ lead = upload.lead
         \/ s = "pending" /\ \A n \in upload.members : Untouched(n)'
  PROVE  /\ Restated
         /\ \A n \in Positions :
              /\ ops'[n].etag = ops[n].etag /\ ops'[n].base = ops[n].base
              /\ ops'[n].group = ops[n].group /\ ops'[n].kind = ops[n].kind
              /\ ops'[n].state = IF n \in upload.members THEN s ELSE State(n)
<1>1. EventTypeOK /\ UploadOK /\ OpsOK /\ EtagsOK
  BY DEF EventOK
<1>2. /\ ops' \in Seq(Op) /\ Len(ops') = Len(ops)
      /\ \A n \in Positions :
              /\ ops'[n].kind = ops[n].kind
              /\ ops'[n].group = ops[n].group
              /\ ops'[n].base = ops[n].base
              /\ ops'[n].etag = ops[n].etag
              /\ ops'[n].state = IF n \in upload.members THEN s ELSE ops[n].state
              /\ ops'[n].lead = IF n \in upload.members THEN lead ELSE ops[n].lead
  BY <1>1, InStateTyped
<1>3. \A n \in Positions : State(n) = "syncing" <=> n \in upload.members
  BY <1>1 DEF UploadOK
<1>4. \A n \in upload.members : n \in Positions /\ ops[n].lead = upload.lead
  BY <1>1, UnderwayIsDoubt
<1>5. Positions \subseteq OpIds
  BY <1>1, OpsTyped
<1>6. ASSUME NEW n \in Positions, State(n) \in {"pending", "cancelled"}
      PROVE  Untouched(n)'
  <2>1. Untouched(n)
    BY <1>1, <1>6 DEF OpsOK
  <2>2. upload.at = "wait" => n \notin Writing.members
    BY <1>6, WritingOK
  <2> QED
    BY <2>1, <2>2 DEF Untouched, Done
<1>7. ASSUME NEW n \in Positions
      PROVE  /\ State(n) \in Settled \cup {"conflict"} => ops'[n].state = State(n)
             /\ State(n) = "failed" => ops'[n].state \in {"failed", "conflict"}
             /\ State(n) = "ambiguous" => ops'[n].state \in {"ambiguous", "conflict"}
             /\ ops'[n].state = "ambiguous" =>
                    State(n) \in {"ambiguous", "syncing"} /\ ops'[n].lead = ops[n].lead
             /\ ops'[n].state # "syncing"
             /\ ops'[n].state \in {"pending", "cancelled"} => Untouched(n)'
             /\ ops'[n].etag <= google.etag /\ (ops[n].etag # 0 => ops'[n].etag # 0)
  <2>1. ops'[n].etag <= google.etag /\ (ops[n].etag # 0 => ops'[n].etag # 0)
    BY <1>1, <1>2 DEF EtagsOK
  <2>2. CASE n \in upload.members
    <3>1. ops'[n].state = s /\ ops'[n].lead = lead /\ State(n) = "syncing" /\ ops[n].lead = upload.lead
      BY <2>2, <1>2, <1>3, <1>4
    <3> QED
      BY <2>1, <2>2, <3>1 DEF Settled
  <2>3. CASE n \notin upload.members
    <3>1. ops'[n].state = State(n) /\ ops'[n].lead = ops[n].lead /\ State(n) # "syncing"
      BY <2>3, <1>2, <1>3 DEF State
    <3>2. State(n) \in {"pending", "cancelled"} => Untouched(n)'
      BY <1>6
    <3> QED
      BY <2>1, <3>1, <3>2
  <2> QED
    BY <2>2, <2>3
<1>8. \A n, m \in upload.members : ops'[n].state = ops'[m].state
  BY <1>2, <1>4
<1>9. upload' \in {Asleep, [Asleep EXCEPT !.at = "lease"]}
  OBVIOUS
<1>10. Restated
  BY <1>2, <1>7, <1>8, <1>9 DEF Restated
<1> QED
  BY <1>2, <1>10 DEF State

\* The row stays as it is.
LEMMA RestatedInPlace ==
  ASSUME EventOK, Restated, UNCHANGED local,
         \A n \in Positions : ops'[n].etag = ops[n].etag,
         \A n \in Positions : ops'[n].state = "succeeded" => State(n) = "succeeded",
         \A n \in Positions : ops'[n].state = "cancelled" => State(n) = "cancelled" \/ local.home = "here",
         \A n \in Positions : OpKind(n) = "delete" /\ ops'[n].state \in Settled =>
           \A m \in Positions : ops'[m].state \in Settled,
         google.is = "alive" => \A n \in Positions : OpKind(n) = "delete" /\ Open(n) =>
           ops'[n].state \in Active
  PROVE  EventOK'
<1>1. EventTypeOK
  BY DEF EventOK
<1>2. /\ ops' \in Seq(Op) /\ Len(ops') <= MaxOps
      /\ late' \subseteq Request
      /\ upload' \in [at : {"idle", "lease", "reconcile", "send", "wait", "answered", "unsure"},
                 members : SUBSET OpIds, lead : 0..MaxOps, from : {"pending", "ambiguous"},
                 etag : Etags, answer : {"none", "ok", "conflict", "changed", "gone", "invalid", "retry"},
                 seen : Snapshot]
      /\ upload'.answer = "none"
      /\ Positions' = Positions /\ (Doomed' <=> Doomed)
      /\ RequestsOK' /\ UploadOK' /\ AnswerOK' /\ OpsOK'
      /\ \A n \in Positions : InDoubt(n)' => InDoubt(n) /\ ops'[n].lead = ops[n].lead
  BY RestatedKeeps
<1>3. /\ Len(ops') = Len(ops) /\ google' = google /\ history' = history /\ local' = local
      /\ late' = late \/ (upload.at = "wait" /\ late' = late \cup {Writing})
      /\ \A n \in Positions :
           /\ ops'[n].kind = ops[n].kind /\ ops'[n].group = ops[n].group
           /\ State(n) \in Settled \cup {"conflict"} => ops'[n].state = State(n)
  BY DEF Restated
<1>4. /\ Positions = 1 .. Len(ops) /\ Len(ops) \in Nat
      /\ \A n \in Positions : State(n) \in Active \cup Settled
  BY <1>1, OpsTyped
<1>5. EventTypeOK'
  BY <1>1, <1>2, <1>3 DEF EventTypeOK
<1>6. ActiveOps' \subseteq ActiveOps
  BY <1>2, <1>3, <1>4 DEF ActiveOps, State, Active, Settled
<1>7. RowOK'
  <2>1. \A n \in Positions : OpKind(n)' = OpKind(n)
    BY <1>3 DEF OpKind
  <2>2. ops' # <<>> <=> ops # <<>>
    BY <1>1, <1>2, <1>3 DEF EventTypeOK
  <2>3. ops # <<>> => 1 \in Positions
    BY <1>1, <1>4 DEF EventTypeOK
  <2> QED
    BY <1>2, <1>3, <1>6, <2>1, <2>2, <2>3 DEF EventOK, RowOK
<1>8. GoogleOK'
  BY <1>3 DEF EventOK, GoogleOK, Signed, Done
<1>9. EtagsOK'
  BY <1>2, <1>3 DEF EventOK, EtagsOK, Past, Signed, Done, Has
<1>10. OnceOK'
  <2> SUFFICES ASSUME ~Doomed
               PROVE  /\ \A n \in Positions : Done(n) <= 1
                      /\ \A r \in late' : r.kind # "create" /\ r.etag = google.etag =>
                           \A n \in r.members : Done(n) = 0
                      /\ \A n \in Positions : InDoubt(n)' /\ Done(n) > 0 /\ ops'[ops'[n].lead].kind # "create" =>
                           /\ ops'[ops'[n].lead].etag < google.etag
                           /\ Has(local.base) /\ local.base.val[ops'[n].group] # google.val[ops'[n].group]
    BY <1>2, <1>3 DEF OnceOK, OpKind, Done, Has
  <2>1. upload.at = "wait" => (Writing.kind # "create" /\ Writing.etag = google.etag =>
                         \A n \in Writing.members : Done(n) = 0)
    BY WritingOK
  <2>2. \A r \in late' : r.kind # "create" /\ r.etag = google.etag =>
                           \A n \in r.members : Done(n) = 0
    BY <2>1, <1>3 DEF EventOK, OnceOK
  <2>3. \A n \in Positions : InDoubt(n) => ops[n].lead \in Positions
    <3> SUFFICES ASSUME NEW n \in Positions, InDoubt(n) PROVE ops[n].lead \in Positions
      OBVIOUS
    <3>1. State(n) = "ambiguous" => ops[n].lead \in 1 .. n
      BY DEF EventOK, OpsOK
    <3>2. State(n) = "syncing" => n \in upload.members /\ Underway
      BY DEF EventOK, UploadOK
    <3>3. State(n) = "syncing" => ops[n].lead \in Positions
      BY <3>2, <1>1, UnderwayIsDoubt DEF EventOK
    <3> QED
      BY <3>1, <3>3, <1>4 DEF InDoubt
  <2>4. ASSUME NEW n \in Positions, InDoubt(n)', Done(n) > 0, ops'[ops'[n].lead].kind # "create"
        PROVE  /\ ops'[ops'[n].lead].etag < google.etag
               /\ Has(local.base) /\ local.base.val[ops'[n].group] # google.val[ops'[n].group]
    <3>1. InDoubt(n) /\ ops'[n].lead = ops[n].lead /\ ops[n].lead \in Positions
      BY <2>3, <2>4, <1>2
    <3>2. OpKind(ops[n].lead) # "create"
      BY <3>1, <2>4, <1>3 DEF OpKind
    <3>3. /\ ops[ops[n].lead].etag < google.etag
          /\ Has(local.base) /\ local.base.val[ops[n].group] # google.val[ops[n].group]
      BY <3>1, <3>2, <2>4 DEF EventOK, OnceOK
    <3> QED
      BY <3>1, <3>3, <1>3
  <2> QED
    BY <2>2, <2>4 DEF EventOK, OnceOK
<1>11. OutcomesOK'
  <2>1. \A n \in Positions : State(n)' = ops'[n].state /\ OpKind(n)' = OpKind(n)
    BY <1>3 DEF State, OpKind
  <2>2. \A n \in Positions : OpKind(n) = "delete" /\ ops'[n].state \in Settled => ActiveOps' = {}
    BY <1>2 DEF ActiveOps, Active, Settled
  <2> QED
    BY <1>2, <1>3, <2>1, <2>2 DEF EventOK, OutcomesOK, Done
<1>12. ShownOK'
  <2>1. Here' = Here
    BY <1>3 DEF Here
  <2>2. \A n \in Positions : State(n) = "conflict" => ops'[n].state = "conflict"
    BY <1>3
  <2>3. \A n \in Positions : State(n)' = ops'[n].state /\ OpKind(n)' = OpKind(n)
    BY <1>3 DEF State, OpKind
  <2> QED
    BY <1>2, <1>3, <2>1, <2>2, <2>3 DEF EventOK, ShownOK, Open
<1> QED
  BY <1>2, <1>5, <1>7, <1>8, <1>9, <1>10, <1>11, <1>12 DEF EventOK

LEMMA RecordFailureKeeps == EventOK /\ RecordFailure => EventOK'
<1> SUFFICES ASSUME EventOK, RecordFailure PROVE EventOK'
  OBVIOUS
<1>1. Underway /\ UNCHANGED <<google, local, late, history>> /\ upload' = Asleep
      /\ ops' = InState(upload.members, "failed", 0)
  BY DEF RecordFailure, Underway
<1>2. EventTypeOK /\ UploadOK /\ OutcomesOK
  BY DEF EventOK
<1>3. 0 \in 0 .. MaxOps /\ "failed" \in Active \cup Settled
  BY BoundsAssumption DEF Active
<1>4. /\ Restated
      /\ \A n \in Positions :
              /\ ops'[n].etag = ops[n].etag
              /\ ops'[n].state = IF n \in upload.members THEN "failed" ELSE State(n)
  BY <1>1, <1>3, MembersRestated
<1>5. \A n \in Positions : State(n) = "syncing" <=> n \in upload.members
  BY <1>2 DEF UploadOK
<1>6. \A n \in Positions : OpKind(n) = "delete" /\ ops'[n].state \in Settled =>
           \A m \in Positions : ops'[m].state \in Settled
  <2> SUFFICES ASSUME NEW n \in Positions, OpKind(n) = "delete", ops'[n].state \in Settled,
                      NEW m \in Positions
               PROVE  ops'[m].state \in Settled
    OBVIOUS
  <2>1. State(n) \in Settled
    BY <1>4 DEF Settled
  <2>2. State(m) \notin Active
    BY <2>1, <1>2 DEF OutcomesOK, ActiveOps, State
  <2>3. State(m) \in Settled /\ m \notin upload.members
    BY <2>2, <1>2, <1>5, OpsTyped DEF Active
  <2> QED
    BY <2>3, <1>4
<1>7. \A n \in Positions : Open(n) => ops'[n].state \in Active
  BY <1>4 DEF Open, Active
<1>8. /\ \A n \in Positions : ops'[n].state = "succeeded" => State(n) = "succeeded"
      /\ \A n \in Positions : ops'[n].state = "cancelled" => State(n) = "cancelled"
  BY <1>4
<1> QED
  BY <1>1, <1>4, <1>6, <1>7, <1>8, RestatedInPlace

LEMMA RetryKeeps == EventOK /\ (RecordRetry \/ WorkerDies) => EventOK'
<1> SUFFICES ASSUME EventOK, RecordRetry \/ WorkerDies PROVE EventOK'
  OBVIOUS
<1>1. /\ Underway /\ UNCHANGED <<google, local, history>> /\ upload' = Asleep
      /\ late' = late \/ (upload.at = "wait" /\ late' = late \cup {Writing})
  BY DEF RecordRetry, WorkerDies, Underway
<1>2. EventTypeOK /\ UploadOK /\ OutcomesOK /\ AnswerOK
  BY DEF EventOK
<1>3. upload.lead \in 0 .. MaxOps /\ "ambiguous" \in Active \cup Settled /\ "pending" \in Active \cup Settled
      /\ upload.from \in {"ambiguous", "pending"}
  BY <1>2, UploadTyped DEF Active
<1>4. PICK s \in {"ambiguous", "pending"} :
              /\ Restated
              /\ \A n \in Positions :
                    /\ ops'[n].etag = ops[n].etag
                    /\ ops'[n].state = IF n \in upload.members THEN s ELSE State(n)
  <2>1. ASSUME ops' = InState(upload.members, "ambiguous", upload.lead)
        PROVE  /\ Restated
               /\ \A n \in Positions :
                    /\ ops'[n].etag = ops[n].etag
                    /\ ops'[n].state = IF n \in upload.members THEN "ambiguous" ELSE State(n)
    BY <1>1, <1>3, <2>1, MembersRestated
  <2>2. ASSUME RecordRetry, upload.from = "pending"
        PROVE  /\ Restated
               /\ \A n \in Positions :
                    /\ ops'[n].etag = ops[n].etag
                    /\ ops'[n].state = IF n \in upload.members THEN "pending" ELSE State(n)
    <3>1. ops' = InState(upload.members, "pending", upload.lead) /\ late' = late
      BY <2>2 DEF RecordRetry, RetryState
    <3>2. \A n \in upload.members : Untouched(n)
      BY <2>2, <1>2 DEF RecordRetry, AnswerOK
    <3>3. \A n \in upload.members : Untouched(n)'
      BY <3>1, <3>2, <1>1 DEF Untouched, Done
    <3> QED
      BY <1>1, <1>3, <3>1, <3>3, MembersRestated
  <2>3. ops' = InState(upload.members, "ambiguous", upload.lead) \/ (RecordRetry /\ upload.from = "pending")
    BY <1>3 DEF RecordRetry, RetryState, WorkerDies
  <2> QED
    BY <2>1, <2>2, <2>3
<1>5. \A n \in Positions : State(n) = "syncing" <=> n \in upload.members
  BY <1>2 DEF UploadOK
<1>6. \A n \in Positions : OpKind(n) = "delete" /\ ops'[n].state \in Settled =>
           \A m \in Positions : ops'[m].state \in Settled
  <2> SUFFICES ASSUME NEW n \in Positions, OpKind(n) = "delete", ops'[n].state \in Settled,
                      NEW m \in Positions
               PROVE  ops'[m].state \in Settled
    OBVIOUS
  <2>1. State(n) \in Settled
    BY <1>4 DEF Settled
  <2>2. State(m) \notin Active
    BY <2>1, <1>2 DEF OutcomesOK, ActiveOps, State
  <2>3. State(m) \in Settled /\ m \notin upload.members
    BY <2>2, <1>2, <1>5, OpsTyped DEF Active
  <2> QED
    BY <2>3, <1>4
<1>7. \A n \in Positions : Open(n) => ops'[n].state \in Active
  BY <1>4 DEF Open, Active
<1>8. /\ \A n \in Positions : ops'[n].state = "succeeded" => State(n) = "succeeded"
      /\ \A n \in Positions : ops'[n].state = "cancelled" => State(n) = "cancelled"
  BY <1>4
<1> QED
  BY <1>1, <1>4, <1>6, <1>7, <1>8, RestatedInPlace

LEMMA CancelUnsentKeeps ==
  ASSUME EventOK, NEW n \in OpIds, CancelUnsent(n)
  PROVE  EventOK'
<1>1. EventTypeOK /\ UploadOK /\ OpsOK /\ RowOK /\ EtagsOK /\ GoogleOK
  BY DEF EventOK
<1>2. /\ n \in Positions /\ State(n) \in {"pending", "ambiguous"}
      /\ \A m \in 1 .. (n - 1) : State(m) \in Settled
      /\ State(n) = "ambiguous" => ops[n].lead = n
      /\ upload.at = "lease" /\ CancelGroup(n) # {}
      /\ ops' = InState(CancelGroup(n), "cancelled", 0)
      /\ upload' = Asleep /\ UNCHANGED <<google, local, late, history>>
  BY DEF CancelUnsent, Leasable, Leader, State
<1>3. /\ CancelGroup(n) = n .. Len(ops) /\ n < Len(ops)
      /\ OpKind(n) = "create" /\ OpKind(Len(ops)) = "delete"
      /\ \A k \in (n + 1) .. Len(ops) : Joins(n, k)
  BY <1>1, <1>2, CancelGroupIsTheRest
<1>4. /\ Positions = 1 .. Len(ops) /\ Len(ops) \in Nat /\ Positions \subseteq OpIds /\ MaxOps \in Nat
      /\ \A k \in Positions : State(k) \in Active \cup Settled
  BY <1>1, OpsTyped
<1>5. State(n) = "pending"
  <2> SUFFICES ASSUME State(n) = "ambiguous" PROVE FALSE
    BY <1>2
  <2>1. Joins(n, Len(ops)) /\ Len(ops) \in Positions
    BY <1>2, <1>3, <1>4
  <2>2. State(Len(ops)) = "ambiguous" /\ ops[Len(ops)].lead = n
    BY <2>1, <1>2 DEF Joins, State
  <2>3. OpKind(Len(ops)) = "update"
    BY <2>1, <2>2, <1>1, <1>3, <1>4 DEF OpsOK
  <2> QED
    BY <2>3, <1>3
<1>6. \A k \in n .. Len(ops) : State(k) = "pending"
  <2> SUFFICES ASSUME NEW k \in n .. Len(ops) PROVE State(k) = "pending"
    OBVIOUS
  <2>1. k = n \/ k \in (n + 1) .. Len(ops)
    BY <1>2, <1>4
  <2> QED
    BY <2>1, <1>3, <1>5 DEF Joins, State
<1>7. /\ ops' \in Seq(Op) /\ Len(ops') = Len(ops)
      /\ \A k \in Positions :
              /\ ops'[k].kind = ops[k].kind
              /\ ops'[k].group = ops[k].group
              /\ ops'[k].base = ops[k].base
              /\ ops'[k].etag = ops[k].etag
              /\ ops'[k].state = IF k \in n .. Len(ops) THEN "cancelled" ELSE ops[k].state
              /\ ops'[k].lead = IF k \in n .. Len(ops) THEN 0 ELSE ops[k].lead
  <2>1. "cancelled" \in Active \cup Settled /\ 0 \in 0 .. MaxOps
    BY <1>4 DEF Settled
  <2> QED
    BY <2>1, <1>1, <1>2, <1>3, InStateTyped
<1>8. \A k \in Positions : k \in n .. Len(ops) \/ (k \in 1 .. (n - 1) /\ State(k) \in Settled)
  BY <1>2, <1>4
<1>9. \A k \in Positions : ops'[k].state \in Settled
  BY <1>7, <1>8 DEF State, Settled
<1>10. \A k \in Positions : State(k) \in {"pending", "cancelled"} => Untouched(k)'
  BY <1>1, <1>2 DEF OpsOK, Untouched, Done
<1>11. ASSUME NEW k \in Positions
       PROVE  /\ State(k) \in Settled \cup {"conflict"} => ops'[k].state = State(k)
              /\ State(k) # "failed" /\ State(k) # "ambiguous"
              /\ ops'[k].state # "ambiguous" /\ ops'[k].state # "syncing"
              /\ ops'[k].state \in {"pending", "cancelled"} => Untouched(k)'
              /\ ops'[k].state = "cancelled" => State(k) = "cancelled" \/ local.home = "here"
              /\ ops'[k].state = "succeeded" => State(k) = "succeeded"
  <2>1. local.home = "here"
    BY <1>1, <1>2, <1>3 DEF RowOK
  <2>2. CASE k \in n .. Len(ops)
    BY <2>1, <2>2, <1>6, <1>7, <1>10 DEF Settled
  <2>3. CASE k \in 1 .. (n - 1) /\ State(k) \in Settled /\ k \notin n .. Len(ops)
    <3>1. ops'[k].state = State(k)
      BY <2>3, <1>7 DEF State
    <3> QED
      BY <2>1, <2>3, <3>1, <1>10 DEF Settled
  <2>4. k \in 1 .. (n - 1) => k \notin n .. Len(ops)
    BY <1>2, <1>4
  <2> QED
    BY <2>2, <2>3, <2>4, <1>8
<1>12. upload.members = {}
  BY <1>1, <1>2 DEF UploadOK, Underway
<1>13. Restated
  <2>1. \A k \in Positions : ops'[k].etag <= google.etag /\ (ops[k].etag # 0 => ops'[k].etag # 0)
    BY <1>1, <1>7 DEF EtagsOK
  <2> QED
    BY <1>2, <1>7, <1>11, <1>12, <2>1 DEF Restated
<1>14. google.is # "alive"
  <2>1. n = 1 /\ local.home = "here"
    BY <1>1, <1>2, <1>3 DEF RowOK
  <2>2. Done(1) = 0
    BY <2>1, <1>1, <1>2, <1>5 DEF OpsOK, Untouched
  <2> QED
    BY <2>1, <2>2, <1>1 DEF GoogleOK
<1> QED
  BY <1>2, <1>7, <1>9, <1>11, <1>13, <1>14, RestatedInPlace


\* The row follows: what the new row must agree with.
LEMMA RestatedRow ==
  ASSUME EventOK, Restated,
         local' \in [home : {"here", "google"}, present : BOOLEAN, base : Snapshot, twin : BOOLEAN,
                     token : Etags],
         local'.home = local.home, local'.token <= google.etag, Past(local'.base),
         \A n \in Positions : OpKind(n) = "delete" => ~local'.present,
         local'.present /\ local.home = "here" => ops # <<>>,
         ~local'.present => local'.base = NoBase,
         ~Doomed /\ (\E n \in Positions : ops'[n].state \in Active) => local'.present,
         local'.present => Has(local'.base) \/ \A n \in Positions : ops'[n].etag = 0,
         ~Doomed => \A n \in Positions : ~(InDoubt(n)' /\ Done(n) > 0 /\ OpKind(ops[n].lead) # "create"),
         \A n \in Positions : ops'[n].state = "succeeded" => State(n) = "succeeded" \/
           (IF OpKind(n) = "delete" THEN google.is = "deleted" ELSE Done(n) > 0),
         \A n \in Positions : ops'[n].state = "cancelled" => State(n) = "cancelled",
         \A n \in Positions : OpKind(n) = "delete" /\ ops'[n].state \in Settled =>
           \A m \in Positions : ops'[m].state \in Settled,
         ShownOK'
  PROVE  EventOK'
<1>1. EventTypeOK
  BY DEF EventOK
<1>2. /\ ops' \in Seq(Op) /\ Len(ops') <= MaxOps
      /\ late' \subseteq Request
      /\ upload' \in [at : {"idle", "lease", "reconcile", "send", "wait", "answered", "unsure"},
                 members : SUBSET OpIds, lead : 0..MaxOps, from : {"pending", "ambiguous"},
                 etag : Etags, answer : {"none", "ok", "conflict", "changed", "gone", "invalid", "retry"},
                 seen : Snapshot]
      /\ Positions' = Positions /\ (Doomed' <=> Doomed)
      /\ RequestsOK' /\ UploadOK' /\ AnswerOK' /\ OpsOK'
      /\ \A n \in Positions : InDoubt(n)' => InDoubt(n) /\ ops'[n].lead = ops[n].lead
  BY RestatedKeeps
<1>3. /\ Len(ops') = Len(ops) /\ google' = google /\ history' = history
      /\ late' = late \/ (upload.at = "wait" /\ late' = late \cup {Writing})
      /\ \A n \in Positions :
           /\ ops'[n].kind = ops[n].kind /\ ops'[n].group = ops[n].group
           /\ State(n) \in Settled \cup {"conflict"} => ops'[n].state = State(n)
           /\ ops'[n].etag <= google.etag
  BY DEF Restated
<1>4. /\ Positions = 1 .. Len(ops) /\ Len(ops) \in Nat
      /\ \A n \in Positions : State(n) \in Active \cup Settled
  BY <1>1, OpsTyped
<1>5. EventTypeOK'
  BY <1>1, <1>2, <1>3 DEF EventTypeOK
<1>6. RowOK'
  <2>1. \A n \in Positions : OpKind(n)' = OpKind(n)
    BY <1>3 DEF OpKind
  <2>2. ops' # <<>> <=> ops # <<>>
    BY <1>1, <1>2, <1>3 DEF EventTypeOK
  <2>3. ops # <<>> => 1 \in Positions
    BY <1>1, <1>4 DEF EventTypeOK
  <2>4. ActiveOps' # {} => \E n \in Positions : ops'[n].state \in Active
    BY <1>2 DEF ActiveOps
  <2> QED
    BY <1>2, <1>3, <2>1, <2>2, <2>3, <2>4 DEF EventOK, RowOK
<1>7. GoogleOK'
  BY <1>3 DEF EventOK, GoogleOK, Signed, Done
<1>8. EtagsOK'
  <2>1. Past(local.base)'
    BY <1>3 DEF Past, Signed, Done
  <2> QED
    BY <1>2, <1>3, <2>1 DEF EtagsOK, Has
<1>9. OnceOK'
  <2> SUFFICES ASSUME ~Doomed
               PROVE  /\ \A n \in Positions : Done(n) <= 1
                      /\ \A r \in late' : r.kind # "create" /\ r.etag = google.etag =>
                           \A n \in r.members : Done(n) = 0
                      /\ \A n \in Positions : ~(InDoubt(n)' /\ Done(n) > 0 /\ ops'[ops'[n].lead].kind # "create")
    BY <1>2, <1>3 DEF OnceOK, OpKind, Done, Has
  <2>1. upload.at = "wait" => (Writing.kind # "create" /\ Writing.etag = google.etag =>
                         \A n \in Writing.members : Done(n) = 0)
    BY WritingOK
  <2>2. \A r \in late' : r.kind # "create" /\ r.etag = google.etag =>
                           \A n \in r.members : Done(n) = 0
    BY <2>1, <1>3 DEF EventOK, OnceOK
  <2>3. \A n \in Positions : InDoubt(n) => ops[n].lead \in Positions
    <3> SUFFICES ASSUME NEW n \in Positions, InDoubt(n) PROVE ops[n].lead \in Positions
      OBVIOUS
    <3>1. State(n) = "ambiguous" => ops[n].lead \in 1 .. n
      BY DEF EventOK, OpsOK
    <3>2. State(n) = "syncing" => n \in upload.members /\ Underway
      BY DEF EventOK, UploadOK
    <3>3. State(n) = "syncing" => ops[n].lead \in Positions
      BY <3>2, <1>1, UnderwayIsDoubt DEF EventOK
    <3> QED
      BY <3>1, <3>3, <1>4 DEF InDoubt
  <2>4. ASSUME NEW n \in Positions, InDoubt(n)', Done(n) > 0, ops'[ops'[n].lead].kind # "create"
        PROVE  FALSE
    <3>1. InDoubt(n) /\ ops'[n].lead = ops[n].lead /\ ops[n].lead \in Positions
      BY <2>3, <2>4, <1>2
    <3>2. OpKind(ops[n].lead) # "create"
      BY <3>1, <2>4, <1>3 DEF OpKind
    <3> QED
      BY <3>2, <2>4
  <2> QED
    BY <2>2, <2>4 DEF EventOK, OnceOK
<1>10. OutcomesOK'
  <2>1. \A n \in Positions : State(n)' = ops'[n].state /\ OpKind(n)' = OpKind(n)
    BY <1>3 DEF State, OpKind
  <2>2. \A n \in Positions : OpKind(n) = "delete" /\ ops'[n].state \in Settled => ActiveOps' = {}
    BY <1>2 DEF ActiveOps, Active, Settled
  <2> QED
    BY <1>2, <1>3, <2>1, <2>2 DEF EventOK, OutcomesOK, Done
<1> QED
  BY <1>2, <1>5, <1>6, <1>7, <1>8, <1>9, <1>10 DEF EventOK

\* The row under a baseline.
LEMMA ProjectedTyped ==
  ASSUME EventTypeOK, NEW list, DOMAIN list = Positions,
         \A n \in Positions : list[n].kind = ops[n].kind, NEW s \in Snapshot
  PROVE  /\ Projected(list, s) \in [home : {"here", "google"}, present : BOOLEAN, base : Snapshot,
                                    twin : BOOLEAN, token : Etags]
         /\ Projected(list, s).home = local.home /\ Projected(list, s).twin = local.twin
         /\ Projected(list, s).token = local.token
         /\ Projected(list, s).present =>
              \A n \in Positions : OpKind(n) = "delete" => list[n].state \notin Active
         /\ ~Projected(list, s).present =>
              \E n \in Positions : OpKind(n) = "delete" /\ list[n].state \in Active
         /\ Projected(list, s).present => Projected(list, s).base = s
         /\ ~Projected(list, s).present => Projected(list, s).base = NoBase
<1> DEFINE shown == \A n \in Positions : OpKind(n) = "delete" => list[n].state \notin Active
<1>1. Projected(list, s) = [local EXCEPT !.present = shown, !.base = IF shown THEN s ELSE NoBase]
  <2>1. (\A n \in DOMAIN list : list[n].kind = "delete" => list[n].state \notin Active) <=> shown
    BY DEF OpKind
  <2>2. (\A n \in DOMAIN list : list[n].kind = "delete" => list[n].state \notin Active) = shown
    BY <2>1
  <2> QED
    BY <2>2 DEF Projected
<1>2. local \in [home : {"here", "google"}, present : BOOLEAN, base : Snapshot, twin : BOOLEAN, token : Etags]
  BY DEF EventTypeOK
<1>3. NoBase \in Snapshot
  BY AsleepTyped, BoundsAssumption DEF NoBase, Snapshot, Etags, Values
<1>4. shown \in BOOLEAN
  OBVIOUS
<1> HIDE DEF shown
<1>5. CASE shown
  BY <1>1, <1>2, <1>3, <1>4, <1>5 DEF shown
<1>6. CASE ~shown
  BY <1>1, <1>2, <1>3, <1>4, <1>6 DEF shown
<1> QED
  BY <1>5, <1>6

LEMMA RecordConflictKeeps == EventOK /\ RecordConflict => EventOK'
<1> SUFFICES ASSUME EventOK, RecordConflict PROVE EventOK'
  OBVIOUS
<1>1. /\ Underway /\ UNCHANGED <<google, late, history>> /\ upload' = Asleep
      /\ upload.answer = "changed"
      /\ ops' = InState(upload.members, "conflict", 0)
      /\ local' = IF Has(ops[upload.lead].base) THEN Projected(ops', upload.seen) ELSE local
  BY DEF RecordConflict, Underway
<1>2. EventTypeOK /\ UploadOK /\ OutcomesOK /\ RowOK /\ EtagsOK /\ AnswerOK /\ ShownOK
  BY DEF EventOK
<1>3. 0 \in 0 .. MaxOps /\ "conflict" \in Active \cup Settled
  BY BoundsAssumption DEF Active
<1>4. /\ Restated
      /\ \A n \in Positions :
              /\ ops'[n].etag = ops[n].etag /\ ops'[n].kind = ops[n].kind
              /\ ops'[n].state = IF n \in upload.members THEN "conflict" ELSE State(n)
  BY <1>1, <1>3, MembersRestated
<1>5. \A n \in Positions : State(n) = "syncing" <=> n \in upload.members
  BY <1>2 DEF UploadOK
<1>6. /\ upload.lead \in upload.members /\ upload.lead \in Positions
      /\ upload.members \subseteq Positions
  BY <1>1, <1>2, UnderwayIsDoubt
<1>7. upload.lead \in ActiveOps
  BY <1>5, <1>6 DEF ActiveOps, Active, State
<1>8. \A n \in Positions : OpKind(n) = "delete" => State(n) \notin Settled /\ ops'[n].state \notin Settled
  <2>1. \A n \in Positions : OpKind(n) = "delete" => State(n) \notin Settled
    BY <1>2, <1>7 DEF OutcomesOK
  <2> QED
    BY <2>1, <1>4 DEF Settled
<1>9. \A n \in Positions : Open(n) => ops'[n].state \in Active
  BY <1>4 DEF Open, Active
<1>10. /\ \A n \in Positions : ops'[n].state = "succeeded" => State(n) = "succeeded"
       /\ \A n \in Positions : ops'[n].state = "cancelled" => State(n) = "cancelled"
  BY <1>4
<1>11. CASE ~Has(ops[upload.lead].base)
  <2>1. local' = local
    BY <1>1, <1>11
  <2> QED
    BY <1>4, <1>8, <1>9, <1>10, <2>1, RestatedInPlace
<1>12. CASE Has(ops[upload.lead].base)
  <2>1. /\ upload.seen \in Snapshot /\ Past(upload.seen) /\ Has(upload.seen)
        /\ local.token <= upload.seen.etag /\ local.token \in Nat /\ google.etag \in Nat
        /\ google.is = "alive" \/ upload.seen.etag < google.etag
        /\ local.token <= google.etag
    BY <1>1, <1>2, UploadTyped DEF AnswerOK, ShownOK, EtagsOK
  <2>2. DOMAIN ops' = Positions
    BY <1>1, <1>2, <1>3, InStateTyped
  <2>3. \A n \in Positions : State(n) \in Active \cup Settled /\ ops'[n].state \in Active \cup Settled
    BY <1>2, <1>3, <1>4, OpsTyped
  <2>4. /\ local' \in [home : {"here", "google"}, present : BOOLEAN, base : Snapshot,
                                    twin : BOOLEAN, token : Etags]
        /\ local'.home = local.home /\ local'.twin = local.twin
        /\ local'.token = local.token
        /\ local'.present =>
              \A n \in Positions : OpKind(n) = "delete" => ops'[n].state \notin Active
        /\ ~local'.present =>
              \E n \in Positions : OpKind(n) = "delete" /\ ops'[n].state \in Active
        /\ local'.present => local'.base = upload.seen
        /\ ~local'.present => local'.base = NoBase
    <3>1. local' = Projected(ops', upload.seen)
      BY <1>1, <1>12
    <3>2. \A n \in Positions : ops'[n].kind = ops[n].kind
      BY <1>4
    <3> QED
      BY <3>1, <3>2, <1>2, <2>1, <2>2, ProjectedTyped
  <2>5. \A n \in Positions : OpKind(n) = "delete" => ~local'.present
    BY <2>3, <2>4, <1>8
  <2>6. ~Doomed => local'.present
    BY <2>4 DEF Doomed
  <2>7. Past(local'.base)
    <3>1. Past(NoBase)
      BY HereIsPast
    <3> QED
      BY <2>1, <2>4, <3>1
  <2>8. ops # <<>>
    BY <1>2, <1>6, OpsTyped DEF EventTypeOK
  <2>9. \A n \in Positions : ~InDoubt(n)'
    <3> SUFFICES ASSUME NEW n \in Positions, InDoubt(n)' PROVE FALSE
      OBVIOUS
    <3>1. n \in upload.members
      BY <1>1, <1>4, RestatedKeeps
    <3> QED
      BY <3>1, <1>4 DEF InDoubt, State
  <2>10. google.is = "alive" /\ local.token = google.etag => upload.seen = Here
    <3> SUFFICES ASSUME local.token = google.etag PROVE upload.seen = Here
      OBVIOUS
    <3>1. upload.seen.etag = google.etag /\ upload.seen.etag # 0
      BY <2>1 DEF Past, Has, Snapshot, Etags
    <3>2. upload.seen.val = google.val
      BY <3>1, <2>1 DEF Past
    <3> QED
      BY <3>1, <3>2, <2>1 DEF Here, Snapshot
  <2>11. google.is # "alive" => local.token # google.etag
    BY <2>1 DEF Snapshot, Etags
  <2>12. ShownOK'
    <3>1. Positions' = Positions /\ upload'.answer = "none"
      BY <1>4, RestatedKeeps
    <3>2. \A n \in Positions : State(n)' = ops'[n].state /\ OpKind(n)' = OpKind(n)
      BY <1>4 DEF State, OpKind
    <3>3. Here' = Here /\ google' = google
      BY <1>1 DEF Here
    <3>4. local.twin => local.home = "here" /\ ~local.present /\ google.is # "absent"
      BY <1>2 DEF ShownOK
    <3>5. local.twin => ~local'.present
      BY <3>4, <2>5, <1>2, <1>7 DEF RowOK, Doomed
    <3>6. ~local'.present => \E n \in Positions : OpKind(n) = "delete" /\ ops'[n].state \in Active
      BY <2>4
    <3> QED
      BY <2>4, <2>10, <2>11, <3>1, <3>2, <3>3, <3>4, <3>5, <3>6 DEF ShownOK, Open
  <2> QED
    BY <1>4, <1>8, <1>10, <2>1, <2>4, <2>5, <2>6, <2>7, <2>8, <2>9, <2>12, RestatedRow
<1> QED
  BY <1>11, <1>12


LEMMA DeleteDoneKeeps == EventOK /\ RecordSuccess /\ OpKind(upload.lead) = "delete" => EventOK'
<1> SUFFICES ASSUME EventOK, RecordSuccess, OpKind(upload.lead) = "delete" PROVE EventOK'
  OBVIOUS
<1>1. /\ Underway /\ UNCHANGED <<google, late, history>> /\ upload' = Asleep
      /\ upload.answer \in {"ok", "gone"}
      /\ ops' = InState(upload.members, "succeeded", 0)
      /\ local' = [local EXCEPT !.present = FALSE, !.base = NoBase]
  BY DEF RecordSuccess, Underway, OpKind
<1>2. EventTypeOK /\ UploadOK /\ OutcomesOK /\ RowOK /\ EtagsOK /\ AnswerOK /\ ShownOK
  BY DEF EventOK
<1>3. 0 \in 0 .. MaxOps /\ "succeeded" \in Active \cup Settled
  BY BoundsAssumption DEF Settled
<1>4. /\ Restated
      /\ \A n \in Positions :
              /\ ops'[n].etag = ops[n].etag /\ ops'[n].kind = ops[n].kind
              /\ ops'[n].state = IF n \in upload.members THEN "succeeded" ELSE State(n)
  BY <1>1, <1>3, MembersRestated
<1>5. /\ upload.lead \in upload.members /\ upload.lead \in Positions
      /\ upload.members = {upload.lead}
      /\ \A m \in 1 .. (upload.lead - 1) : State(m) \in Settled
  BY <1>1, <1>2, UnderwayIsDoubt DEF UploadOK, GroupOK
<1>6. google.is = "deleted"
  BY <1>1, <1>2 DEF AnswerOK
<1>7. upload.lead = Len(ops)
  BY <1>2, <1>5 DEF RowOK
<1>8. \A m \in Positions : ops'[m].state \in Settled
  <2>1. \A m \in Positions : m = upload.lead \/ m \in 1 .. (upload.lead - 1)
    BY <1>2, <1>7, OpsTyped
  <2> QED
    BY <2>1, <1>4, <1>5 DEF Settled
<1>9. NoBase \in Snapshot /\ Past(NoBase)
  BY HereIsPast
<1>10. /\ local' \in [home : {"here", "google"}, present : BOOLEAN, base : Snapshot, twin : BOOLEAN,
                      token : Etags]
       /\ local'.home = local.home /\ local'.twin = local.twin /\ local'.token = local.token
       /\ local'.present = FALSE /\ local'.base = NoBase
  BY <1>1, <1>2, <1>9 DEF EventTypeOK
<1>11. Doomed
  BY <1>5 DEF Doomed
<1>12. ShownOK'
  <2>1. upload'.answer = "none"
    BY <1>1, AsleepTyped
  <2>2. local.twin => local.home = "here" /\ google.is # "absent"
    BY <1>2 DEF ShownOK
  <2>3. local.token = google.etag => ~local.twin
    BY <1>2, <1>6 DEF ShownOK
  <2> QED
    BY <1>1, <1>6, <1>10, <2>1, <2>2, <2>3 DEF ShownOK
<1>13. local.token <= google.etag
  BY <1>2 DEF EtagsOK
<1>14. \A n \in Positions : ops'[n].state = "succeeded" =>
          State(n) = "succeeded" \/
           (IF OpKind(n) = "delete" THEN google.is = "deleted" ELSE Done(n) > 0)
  BY <1>4, <1>5, <1>6
<1>15. \A n \in Positions : ops'[n].state = "cancelled" => State(n) = "cancelled"
  BY <1>4
<1>16. Past(local'.base)
  BY <1>9, <1>10
<1> QED
  BY <1>4, <1>8, <1>10, <1>11, <1>12, <1>13, <1>14, <1>15, <1>16, RestatedRow

LEMMA WriteDoneKeeps == EventOK /\ RecordSuccess /\ OpKind(upload.lead) # "delete" => EventOK'
<1> SUFFICES ASSUME EventOK, RecordSuccess, OpKind(upload.lead) # "delete" PROVE EventOK'
  OBVIOUS
<1>0. PICK done : done = InState(upload.members, "succeeded", 0)
  OBVIOUS
<1>1. /\ Underway /\ UNCHANGED <<google, late, history>> /\ upload' = Asleep
      /\ upload.answer = "ok"
      /\ ops' = Rebased(done, OldBase, upload.seen)
      /\ local' = Projected(done, upload.seen)
  BY <1>0 DEF RecordSuccess, Underway, OpKind
<1>2. EventTypeOK /\ UploadOK /\ OutcomesOK /\ RowOK /\ EtagsOK /\ AnswerOK /\ ShownOK /\ OpsOK
  BY DEF EventOK
<1>3. 0 \in 0 .. MaxOps /\ "succeeded" \in Active \cup Settled
  BY BoundsAssumption DEF Settled
<1>4. /\ done \in Seq(Op) /\ Len(done) = Len(ops) /\ DOMAIN done = Positions
      /\ \A n \in Positions :
              /\ done[n].kind = ops[n].kind
              /\ done[n].group = ops[n].group
              /\ done[n].base = ops[n].base
              /\ done[n].etag = ops[n].etag
              /\ done[n].state = IF n \in upload.members THEN "succeeded" ELSE ops[n].state
              /\ done[n].lead = IF n \in upload.members THEN 0 ELSE ops[n].lead
  <2>1. IsInState(done, upload.members, "succeeded", 0)
    BY <1>0, <1>2, <1>3, ListInState
  <2> QED
    BY <2>1 DEF IsInState
<1>5. /\ upload.seen \in Snapshot /\ Past(upload.seen) /\ Has(upload.seen) /\ OldBase \in Snapshot
      /\ upload.seen.etag \in Nat /\ upload.seen.etag # 0 /\ upload.seen.etag <= google.etag
      /\ local.token <= upload.seen.etag /\ local.token \in Nat /\ google.etag \in Nat
      /\ google.is = "alive" \/ upload.seen.etag < google.etag
      /\ local.token <= google.etag
  <2>1. /\ upload.seen \in Snapshot /\ Past(upload.seen) /\ Has(upload.seen)
        /\ local.token <= upload.seen.etag /\ local.token \in Nat /\ google.etag \in Nat
        /\ google.is = "alive" \/ upload.seen.etag < google.etag
        /\ local.token <= google.etag
    BY <1>1, <1>2, UploadTyped DEF AnswerOK, ShownOK, EtagsOK
  <2>2. OldBase \in Snapshot
    BY HereIsPast DEF OldBase
  <2>3. upload.seen.etag \in Nat
    BY <2>1 DEF Snapshot, Etags
  <2>4. upload.seen.etag # 0
    BY <2>1 DEF Has
  <2>5. upload.seen.etag <= google.etag
    BY <2>1 DEF Past
  <2> QED
    BY <2>1, <2>2, <2>3, <2>4, <2>5
<1>6. /\ ops' \in Seq(Op) /\ Len(ops') = Len(ops)
      /\ \A n \in Positions :
              /\ ops'[n].kind = done[n].kind /\ ops'[n].group = done[n].group
              /\ ops'[n].base = done[n].base /\ ops'[n].lead = done[n].lead
              /\ ops'[n].state = done[n].state
                 \/ (ops'[n].state = "conflict" /\ done[n].kind = "update"
                     /\ done[n].state \in {"pending", "syncing", "ambiguous", "failed"})
              /\ ops'[n].etag \in {done[n].etag, upload.seen.etag}
  <2>1. EventTypeOK /\ done \in Seq(Op) /\ Len(done) = Len(ops)
    BY <1>2, <1>4
  <2>2. PICK old, new \in Snapshot : old = OldBase /\ new = upload.seen
    BY <1>5
  <2>3. PICK f : f = Rebased(done, old, new)
    OBVIOUS
  <2>4. IsRebased(f, done, old, new)
    BY <2>1, <2>3, ListRebased
  <2>5. ops' = f
    BY <1>1, <2>2, <2>3
  <2> QED
    BY <2>2, <2>4, <2>5 DEF IsRebased
<1>7. /\ upload.lead \in upload.members /\ upload.lead \in Positions
      /\ upload.members \subseteq Positions
      /\ \A m \in upload.members : OpKind(m) # "delete"
  <2>1. \A m \in upload.members : m # upload.lead => OpKind(m) = "update"
    BY <1>1, <1>2 DEF UploadOK, GroupOK
  <2> QED
    BY <1>1, <1>2, <2>1, UnderwayIsDoubt
<1>8. \A n \in Positions : State(n) = "syncing" <=> n \in upload.members
  BY <1>2 DEF UploadOK
<1>9. upload.lead \in ActiveOps
  BY <1>7, <1>8 DEF ActiveOps, Active, State
<1>10. \A n \in Positions : State(n) \in Active \cup Settled
  BY <1>2, OpsTyped
<1>11. ASSUME NEW n \in Positions, OpKind(n) = "delete"
       PROVE  /\ State(n) \in Active /\ n \notin upload.members
              /\ done[n].state \in Active /\ ops'[n].state \in Active
  <2>1. State(n) \in Active /\ n \notin upload.members
    BY <1>2, <1>7, <1>9, <1>10, <1>11 DEF OutcomesOK
  <2>2. done[n].state \in Active
    BY <2>1, <1>4 DEF State
  <2> QED
    BY <2>1, <2>2, <1>4, <1>6 DEF Active
<1>12. ASSUME NEW n \in Positions
       PROVE  /\ State(n) \in Settled \cup {"conflict"} => ops'[n].state = State(n)
              /\ State(n) = "failed" => ops'[n].state \in {"failed", "conflict"}
              /\ State(n) = "ambiguous" => ops'[n].state \in {"ambiguous", "conflict"}
              /\ ops'[n].state = "ambiguous" =>
                    State(n) \in {"ambiguous", "syncing"} /\ ops'[n].lead = ops[n].lead
              /\ ops'[n].state # "syncing"
              /\ ops'[n].state \in {"pending", "cancelled"} => Untouched(n)'
              /\ ops'[n].etag <= google.etag /\ (ops[n].etag # 0 => ops'[n].etag # 0)
              /\ ops'[n].state = "cancelled" => State(n) = "cancelled"
              /\ ops'[n].state = "succeeded" => State(n) = "succeeded" \/ n \in upload.members
              /\ n \in upload.members => ops'[n].state = "succeeded"
  <2>1. ops'[n].etag <= google.etag /\ (ops[n].etag # 0 => ops'[n].etag # 0)
    BY <1>2, <1>4, <1>5, <1>6 DEF EtagsOK
  <2>2. CASE n \in upload.members
    <3>1. ops'[n].state = "succeeded" /\ State(n) = "syncing"
      BY <2>2, <1>4, <1>6, <1>8
    <3> QED
      BY <2>1, <2>2, <3>1 DEF Settled
  <2>3. CASE n \notin upload.members
    <3>1. /\ done[n].state = State(n) /\ ops'[n].lead = ops[n].lead /\ State(n) # "syncing"
          /\ ops'[n].state = State(n) \/ (ops'[n].state = "conflict"
                     /\ State(n) \in {"pending", "syncing", "ambiguous", "failed"})
      BY <2>3, <1>4, <1>6, <1>8 DEF State
    <3>2. State(n) \in {"pending", "cancelled"} => Untouched(n)'
      BY <1>1, <1>2 DEF OpsOK, Untouched, Done
    <3> QED
      BY <2>1, <2>3, <3>1, <3>2 DEF Settled
  <2> QED
    BY <2>2, <2>3
<1>13. Restated
  <2>1. \A n, m \in upload.members : ops'[n].state = ops'[m].state
    BY <1>7, <1>12
  <2>2. upload' \in {Asleep, [Asleep EXCEPT !.at = "lease"]}
    BY <1>1
  <2> QED
    BY <1>1, <1>4, <1>6, <1>12, <2>1, <2>2 DEF Restated
<1>14. /\ local' \in [home : {"here", "google"}, present : BOOLEAN, base : Snapshot,
                                    twin : BOOLEAN, token : Etags]
       /\ local'.home = local.home /\ local'.twin = local.twin
       /\ local'.token = local.token
       /\ local'.present =>
              \A n \in Positions : OpKind(n) = "delete" => done[n].state \notin Active
       /\ ~local'.present =>
              \E n \in Positions : OpKind(n) = "delete" /\ done[n].state \in Active
       /\ local'.present => local'.base = upload.seen
       /\ ~local'.present => local'.base = NoBase
  BY <1>1, <1>2, <1>4, <1>5, ProjectedTyped
<1>15. \A n \in Positions : OpKind(n) = "delete" => ~local'.present
  BY <1>11, <1>14
<1>16. ~Doomed => local'.present
  BY <1>14 DEF Doomed
<1>17. Past(local'.base)
  <2>1. Past(NoBase)
    BY HereIsPast
  <2> QED
    BY <1>5, <1>14, <2>1
<1>18. ops # <<>>
  BY <1>2, <1>7, OpsTyped DEF EventTypeOK
<1>19. \A n \in Positions : ~InDoubt(n)'
  <2> SUFFICES ASSUME NEW n \in Positions, InDoubt(n)' PROVE FALSE
    OBVIOUS
  <2>1. n \in upload.members
    BY <1>1, <1>13, RestatedKeeps
  <2> QED
    BY <2>1, <1>12 DEF InDoubt, State
<1>20. google.is = "alive" /\ local.token = google.etag => upload.seen = Here
  <2> SUFFICES ASSUME local.token = google.etag PROVE upload.seen = Here
    OBVIOUS
  <2>1. upload.seen.etag = google.etag /\ upload.seen.etag # 0
    BY <1>5
  <2>2. upload.seen.val = google.val
    BY <2>1, <1>5 DEF Past
  <2> QED
    BY <2>1, <2>2, <1>5 DEF Here, Snapshot
<1>21. google.is # "alive" => local.token # google.etag
  BY <1>5
<1>22. ShownOK'
  <2>1. Positions' = Positions /\ upload'.answer = "none"
    BY <1>13, RestatedKeeps
  <2>2. \A n \in Positions : State(n)' = ops'[n].state /\ OpKind(n)' = OpKind(n)
    BY <1>4, <1>6 DEF State, OpKind
  <2>3. Here' = Here /\ google' = google
    BY <1>1 DEF Here
  <2>4. local.twin => local.home = "here" /\ ~local.present /\ google.is # "absent"
    BY <1>2 DEF ShownOK
  <2>5. local.twin => ~local'.present
    BY <2>4, <1>15, <1>2, <1>9 DEF RowOK, Doomed
  <2>6. ~local'.present => \E n \in Positions : OpKind(n) = "delete" /\ ops'[n].state \in Active
    BY <1>11, <1>14
  <2> QED
    BY <1>14, <1>20, <1>21, <2>1, <2>2, <2>3, <2>4, <2>5, <2>6 DEF ShownOK, Open
<1>23. \A n \in Positions : ops'[n].state = "succeeded" => State(n) = "succeeded" \/
           (IF OpKind(n) = "delete" THEN google.is = "deleted" ELSE Done(n) > 0)
  BY <1>1, <1>2, <1>7, <1>12 DEF AnswerOK
<1>24. \A n \in Positions : OpKind(n) = "delete" => ops'[n].state \notin Settled
  BY <1>11 DEF Active, Settled
<1> QED
  BY <1>5, <1>12, <1>13, <1>14, <1>15, <1>16, <1>17, <1>18, <1>19, <1>22, <1>23, <1>24, RestatedRow


-----------------------------------------------------------------------------
(* A pull.                                                                 *)

\* Nothing changes but where the worker is.
LEMMA QuietKeeps ==
  ASSUME EventOK, upload.at \in {"idle", "lease"},
         UNCHANGED <<google, ops, local, late, history>>,
         upload' \in {Asleep, [Asleep EXCEPT !.at = "lease"]}
  PROVE  EventOK'
<1>1. EventTypeOK /\ UploadOK /\ OpsOK /\ EtagsOK /\ OutcomesOK
  BY DEF EventOK
<1>2. /\ ops \in Seq(Op) /\ \A n \in Positions : State(n) \in Active \cup Settled
  BY <1>1, OpsTyped DEF EventTypeOK
<1>3. upload.members = {}
  BY <1>1 DEF UploadOK, Underway
<1>4. ASSUME NEW n \in Positions
      PROVE  /\ State(n) # "syncing" /\ ops[n].etag <= google.etag
             /\ State(n) \in {"pending", "cancelled"} => Untouched(n)'
  <2>1. State(n) # "syncing"
    BY <1>1, <1>3 DEF UploadOK
  <2>2. State(n) \in {"pending", "cancelled"} => Untouched(n)'
    BY <1>1 DEF OpsOK, Untouched, Done
  <2> QED
    BY <1>1, <2>1, <2>2 DEF EtagsOK
<1>5. Restated
  BY <1>2, <1>3, <1>4 DEF Restated, State
<1>6. \A n \in Positions : OpKind(n) = "delete" /\ State(n) \in Settled =>
           \A m \in Positions : State(m) \in Settled
  BY <1>1, <1>2 DEF OutcomesOK, ActiveOps, State
<1> QED
  BY <1>5, <1>6, RestatedInPlace DEF State, Open

\* The pull of an event that is live, and has its row.
LEMMA FoundLiveKeeps ==
  ASSUME EventOK, Pull, google.is = "alive", google.etag # local.token, FindsRow
  PROVE  EventOK'
<1>1. /\ UNCHANGED <<google, late, history>> /\ upload.at = "idle"
      /\ upload' = [Asleep EXCEPT !.at = "lease"]
      /\ ops' = Rebased(ops, OldBase, Here)
      /\ local' = [Projected(ops, Here) EXCEPT !.token = google.etag, !.twin = FALSE]
  BY DEF Pull, PullLive
<1>2. EventTypeOK /\ UploadOK /\ OutcomesOK /\ RowOK /\ EtagsOK /\ ShownOK /\ OpsOK /\ OnceOK
  BY DEF EventOK
<1>3. /\ Here \in Snapshot /\ Past(Here) /\ Here.etag = google.etag /\ Here.val = google.val
      /\ Has(Here) /\ OldBase \in Snapshot /\ google.etag \in Nat
      /\ NoBase \in Snapshot /\ Past(NoBase)
  BY HereIsPast, UploadTyped DEF OldBase, EventOK
<1>4. /\ ops \in Seq(Op) /\ Len(ops) \in Nat /\ Positions = 1 .. Len(ops) /\ DOMAIN ops = Positions
      /\ \A n \in Positions : State(n) \in Active \cup Settled /\ OpKind(n) \in Kinds
                              /\ ops[n].group \in Groups
  BY <1>2, OpsTyped DEF EventTypeOK
<1>5. IsRebased(ops', ops, OldBase, Here)
  <2>1. PICK old, new \in Snapshot : old = OldBase /\ new = Here
    BY <1>3
  <2>2. PICK f : f = Rebased(ops, old, new)
    OBVIOUS
  <2>3. IsRebased(f, ops, old, new)
    BY <2>2, <1>2, <1>4, ListRebased
  <2> QED
    BY <2>1, <2>2, <2>3, <1>1
<1>6. /\ ops' \in Seq(Op) /\ Len(ops') = Len(ops)
      /\ \A n \in Positions :
            /\ ops'[n].kind = ops[n].kind /\ ops'[n].group = ops[n].group
            /\ ops'[n].base = ops[n].base /\ ops'[n].lead = ops[n].lead
            /\ ops'[n].state = State(n)
               \/ (ops'[n].state = "conflict" /\ OpKind(n) = "update"
                   /\ State(n) \in {"pending", "syncing", "ambiguous", "failed"})
            /\ ops'[n].etag \in {ops[n].etag, google.etag}
  BY <1>3, <1>5 DEF IsRebased, State, OpKind
<1>7. ASSUME NEW n \in Positions, Has(OldBase), OpKind(n) = "update",
             State(n) = "ambiguous", ops'[n].state # "conflict"
      PROVE  OldBase.val[ops[n].group] = google.val[ops[n].group]
  BY <1>3, <1>5, <1>7 DEF IsRebased, State, OpKind
<1>8. upload.members = {} /\ \A n \in Positions : State(n) # "syncing"
  BY <1>1, <1>2 DEF UploadOK, Underway
<1>9. ASSUME NEW n \in Positions
      PROVE  /\ State(n) \in Settled \cup {"conflict"} => ops'[n].state = State(n)
             /\ State(n) = "failed" => ops'[n].state \in {"failed", "conflict"}
             /\ State(n) = "ambiguous" => ops'[n].state \in {"ambiguous", "conflict"}
             /\ ops'[n].state = "ambiguous" => State(n) = "ambiguous" /\ ops'[n].lead = ops[n].lead
             /\ ops'[n].state # "syncing"
             /\ ops'[n].state \in {"pending", "cancelled"} => Untouched(n)'
             /\ ops'[n].etag <= google.etag /\ (ops[n].etag # 0 => ops'[n].etag # 0)
             /\ ops'[n].state = "cancelled" => State(n) = "cancelled"
             /\ ops'[n].state = "succeeded" => State(n) = "succeeded"
  <2>1. State(n) \in {"pending", "cancelled"} => Untouched(n)'
    BY <1>1, <1>2 DEF OpsOK, Untouched, Done
  <2>2. ops'[n].etag <= google.etag /\ (ops[n].etag # 0 => ops'[n].etag # 0)
    BY <1>2, <1>3, <1>6 DEF EtagsOK, Has
  <2> QED
    BY <1>6, <1>8, <2>1, <2>2 DEF Settled
<1>10. Restated
  BY <1>1, <1>6, <1>8, <1>9 DEF Restated
<1>11. ASSUME NEW n \in Positions, OpKind(n) = "delete"
       PROVE  State(n) \in Active /\ ops'[n].state \in Active
  <2>1. local.home = "google"
    BY <1>2, <1>11, UploadTyped DEF RowOK, FindsRow
  <2>2. State(n) \notin Settled
    BY <1>2, <1>11, <2>1 DEF OutcomesOK, Settled
  <2> QED
    BY <2>2, <1>4, <1>6, <1>11
<1>12. /\ local' \in [home : {"here", "google"}, present : BOOLEAN, base : Snapshot,
                      twin : BOOLEAN, token : Etags]
       /\ local'.home = local.home /\ local'.twin = FALSE /\ local'.token = google.etag
       /\ local'.present => \A n \in Positions : OpKind(n) # "delete"
       /\ ~local'.present => \E n \in Positions : OpKind(n) = "delete"
       /\ local'.present => local'.base = Here
       /\ ~local'.present => local'.base = NoBase
  <2>1. PICK row : row = Projected(ops, Here)
    OBVIOUS
  <2>2. /\ row \in [home : {"here", "google"}, present : BOOLEAN, base : Snapshot,
                    twin : BOOLEAN, token : Etags]
        /\ row.home = local.home
        /\ row.present => \A n \in Positions : OpKind(n) = "delete" => ops[n].state \notin Active
        /\ ~row.present => \E n \in Positions : OpKind(n) = "delete" /\ ops[n].state \in Active
        /\ row.present => row.base = Here
        /\ ~row.present => row.base = NoBase
    BY <2>1, <1>2, <1>3, <1>4, ProjectedTyped
  <2>3. local' = [row EXCEPT !.token = google.etag, !.twin = FALSE]
    BY <1>1, <2>1
  <2>4. row.present => \A n \in Positions : OpKind(n) # "delete"
    BY <2>2, <1>11 DEF State
  <2>5. google.etag \in Etags
    BY <1>3 DEF Etags
  <2> QED
    BY <2>2, <2>3, <2>4, <2>5
<1>13. local'.present /\ local.home = "here" => ops # <<>>
  BY <1>2 DEF RowOK, FindsRow
<1>14. ASSUME ~Doomed, NEW n \in Positions, InDoubt(n)', Done(n) > 0, OpKind(ops[n].lead) # "create"
       PROVE  FALSE
  <2>1. InDoubt(n) /\ ops'[n].state = "ambiguous" /\ State(n) = "ambiguous"
    BY <1>9, <1>10, <1>14, RestatedKeeps DEF InDoubt, State
  <2>2. n \in ActiveOps
    BY <2>1 DEF ActiveOps, State, Active
  <2>3. OldBase = local.base
    BY <1>2, <1>14, <2>2 DEF RowOK, OldBase
  <2>4. Has(OldBase) /\ OldBase.val[ops[n].group] # google.val[ops[n].group]
    BY <1>2, <1>14, <2>1, <2>3 DEF OnceOK
  <2>5. OpKind(n) = "update"
    <3>1. ops[n].lead # n => OpKind(n) = "update"
      BY <1>2, <2>1 DEF OpsOK
    <3>2. OpKind(n) # "delete"
      BY <1>14 DEF Doomed
    <3> QED
      BY <3>1, <3>2, <1>4, <1>14 DEF Kinds
  <2> QED
    BY <2>1, <2>4, <2>5, <1>7
<1>15. ShownOK'
  <2>1. upload'.answer = "none" /\ Positions' = Positions
    BY <1>10, RestatedKeeps
  <2>2. Here' = Here /\ google' = google
    BY <1>1 DEF Here
  <2>3. ~local'.present => \E n \in Positions : OpKind(n)' = "delete" /\ Open(n)'
    BY <1>6, <1>11, <1>12 DEF Open, State, OpKind
  <2> QED
    BY <1>12, <2>1, <2>2, <2>3 DEF ShownOK
<1>16. local'.token <= google.etag /\ Past(local'.base)
  BY <1>3, <1>12
<1>17. \A n \in Positions : OpKind(n) = "delete" => ~local'.present /\ ops'[n].state \notin Settled
  BY <1>11, <1>12 DEF Active, Settled
<1>18. ~Doomed => local'.present
  BY <1>12 DEF Doomed
<1> QED
  BY <1>3, <1>9, <1>10, <1>12, <1>13, <1>14, <1>15, <1>16, <1>17, <1>18, RestatedRow

\* The pull of an event that is gone, and has its row.
LEMMA FoundDeletedKeeps ==
  ASSUME EventOK, Pull, google.is # "alive", google.etag # local.token, FindsRow
  PROVE  EventOK'
<1>1. /\ UNCHANGED <<google, late, history>> /\ upload.at = "idle"
      /\ upload' = [Asleep EXCEPT !.at = "lease"]
      /\ ops' = [n \in Positions |-> IF n \in ActiveOps
                                     THEN [ops[n] EXCEPT !.state = "conflict"] ELSE ops[n]]
      /\ local' = [local EXCEPT !.token = google.etag, !.twin = FALSE,
                                !.present = @ /\ KeepsRow,
                                !.base = IF KeepsRow THEN @ ELSE NoBase]
  BY DEF Pull, PullDeleted
<1>2. EventTypeOK /\ UploadOK /\ OutcomesOK /\ RowOK /\ EtagsOK /\ ShownOK /\ OpsOK /\ GoogleOK
  BY DEF EventOK
<1>3. NoBase \in Snapshot /\ Past(NoBase) /\ google.etag \in Nat /\ Past(local.base) /\ local.token \in Nat
  BY HereIsPast, UploadTyped DEF EventOK
<1>4. /\ ops \in Seq(Op) /\ Len(ops) \in Nat /\ Positions = 1 .. Len(ops) /\ DOMAIN ops = Positions
      /\ \A n \in Positions : State(n) \in Active \cup Settled /\ ops[n] \in Op
  BY <1>2, OpsTyped DEF EventTypeOK
<1>5. google.is = "deleted"
  BY <1>2, <1>3, UploadTyped DEF GoogleOK, EtagsOK
<1>6. ASSUME NEW n \in Positions
      PROVE  /\ ops'[n] \in Op
             /\ ops'[n].kind = ops[n].kind /\ ops'[n].group = ops[n].group
             /\ ops'[n].base = ops[n].base /\ ops'[n].etag = ops[n].etag
             /\ ops'[n].lead = ops[n].lead
             /\ ops'[n].state = IF State(n) \in Active THEN "conflict" ELSE State(n)
  <2>1. ops[n] \in Op
    BY <1>4
  <2>2. CASE n \in ActiveOps
    <3>1. ops'[n] = [ops[n] EXCEPT !.state = "conflict"] /\ State(n) \in Active
      BY <1>1, <2>2 DEF ActiveOps, State
    <3> QED
      BY <2>1, <3>1 DEF Op, Active
  <2>3. CASE n \notin ActiveOps
    <3>1. ops'[n] = ops[n] /\ State(n) \notin Active
      BY <1>1, <2>3 DEF ActiveOps, State
    <3> QED
      BY <2>1, <3>1 DEF State
  <2> QED
    BY <2>2, <2>3
<1>7. ops' \in Seq(Op) /\ Len(ops') = Len(ops)
  <2>1. ops' \in [Positions -> Op]
    <3>1. ops' = [n \in Positions |-> ops'[n]]
      BY <1>1
    <3> QED
      BY <3>1, <1>6
  <2>2. PICK f : f = ops'
    OBVIOUS
  <2>3. f \in Seq(Op) /\ Len(f) = Len(ops)
    BY <1>2, <2>1, <2>2, IsAList
  <2> QED
    BY <2>2, <2>3
<1>8. upload.members = {}
  BY <1>1, <1>2 DEF UploadOK, Underway
<1>9. ASSUME NEW n \in Positions
      PROVE  /\ State(n) \in Settled \cup {"conflict"} => ops'[n].state = State(n)
             /\ ops'[n].state \in Settled \cup {"conflict"}
             /\ ops'[n].state \in Settled <=> State(n) \in Settled
             /\ State(n) = "failed" => ops'[n].state = "conflict"
             /\ State(n) = "ambiguous" => ops'[n].state = "conflict"
             /\ ops'[n].state = "cancelled" => Untouched(n)'
             /\ ops'[n].etag <= google.etag
             /\ ops'[n].state = "cancelled" => State(n) = "cancelled"
             /\ ops'[n].state = "succeeded" => State(n) = "succeeded"
  <2>1. State(n) \in {"pending", "cancelled"} => Untouched(n)'
    BY <1>1, <1>2 DEF OpsOK, Untouched, Done
  <2>2. ops'[n].etag <= google.etag
    BY <1>2, <1>6 DEF EtagsOK
  <2>3. State(n) \in Active \cup Settled
    BY <1>4
  <2> QED
    BY <1>6, <2>1, <2>2, <2>3 DEF Settled, Active
<1>10. Restated
  BY <1>1, <1>6, <1>7, <1>8, <1>9 DEF Restated, Settled
<1>11. /\ local' \in [home : {"here", "google"}, present : BOOLEAN, base : Snapshot,
                      twin : BOOLEAN, token : Etags]
       /\ local'.home = local.home /\ local'.twin = FALSE /\ local'.token = google.etag
       /\ local'.present = (local.present /\ KeepsRow)
       /\ local'.base = IF KeepsRow THEN local.base ELSE NoBase
  <2>1. local \in [home : {"here", "google"}, present : BOOLEAN, base : Snapshot,
                   twin : BOOLEAN, token : Etags]
    BY <1>2 DEF EventTypeOK
  <2>2. PICK keeps \in BOOLEAN : keeps = KeepsRow
    BY DEF KeepsRow
  <2>3. local' = [local EXCEPT !.token = google.etag, !.twin = FALSE,
                               !.present = local.present /\ keeps,
                               !.base = IF keeps THEN local.base ELSE NoBase]
    BY <1>1, <2>2
  <2>4. google.etag \in Etags
    BY <1>3 DEF Etags
  <2> QED
    BY <2>1, <2>2, <2>3, <2>4, <1>3
<1>12. KeepsRow <=> \E n \in Positions : State(n) \in Active
  BY DEF KeepsRow, ActiveOps, State
<1>13. Past(local'.base) /\ local'.token <= google.etag
  BY <1>3, <1>11
<1>14. \A n \in Positions : OpKind(n) = "delete" => ~local'.present
  BY <1>2, <1>11 DEF RowOK
<1>15. local'.present /\ local.home = "here" => ops # <<>>
  BY <1>2, <1>11 DEF RowOK
<1>16. ~local'.present => local'.base = NoBase
  BY <1>2, <1>11 DEF RowOK
<1>17. ~Doomed /\ (\E n \in Positions : ops'[n].state \in Active) => local'.present
  <2>1. (\E n \in Positions : ops'[n].state \in Active) => KeepsRow
    BY <1>6, <1>12
  <2> QED
    BY <2>1, <1>2, <1>11 DEF RowOK, KeepsRow
<1>18. local'.present => Has(local'.base) \/ \A n \in Positions : ops'[n].etag = 0
  BY <1>2, <1>6, <1>11 DEF EtagsOK
<1>19. \A n \in Positions : ~InDoubt(n)'
  BY <1>9 DEF InDoubt, State, Settled
<1>20. \A n \in Positions : OpKind(n) = "delete" /\ ops'[n].state \in Settled =>
           \A m \in Positions : ops'[m].state \in Settled
  <2> SUFFICES ASSUME NEW n \in Positions, OpKind(n) = "delete", ops'[n].state \in Settled,
                      NEW m \in Positions
               PROVE  ops'[m].state \in Settled
    OBVIOUS
  <2>1. State(n) \in Settled
    BY <1>9
  <2>2. State(m) \notin Active
    BY <2>1, <1>2 DEF OutcomesOK, ActiveOps, State
  <2> QED
    BY <2>2, <1>4, <1>9
<1>21. ShownOK'
  <2>1. upload'.answer = "none" /\ Positions' = Positions
    BY <1>10, RestatedKeeps
  <2>2. local'.present => \E n \in Positions : State(n)' = "conflict"
    BY <1>6, <1>11, <1>12 DEF State
  <2> QED
    BY <1>1, <1>5, <1>11, <2>1, <2>2 DEF ShownOK
<1> QED
  BY <1>9, <1>10, <1>11, <1>13, <1>14, <1>15, <1>16, <1>17, <1>18, <1>19, <1>20, <1>21, RestatedRow

\* The pull of an event without a row.
LEMMA NotFoundKeeps ==
  ASSUME EventOK, Pull, google.etag # local.token, ~FindsRow
  PROVE  EventOK'
<1>1. EventTypeOK /\ UploadOK /\ OutcomesOK /\ RowOK /\ EtagsOK /\ ShownOK /\ OpsOK /\ GoogleOK
  BY DEF EventOK
<1>2. PICK alive \in BOOLEAN : alive <=> google.is = "alive"
  OBVIOUS
<1>3. /\ UNCHANGED <<google, ops, late, history>> /\ upload.at = "idle"
      /\ upload' = [Asleep EXCEPT !.at = "lease"]
      /\ local' = [local EXCEPT !.token = google.etag, !.twin = alive]
  BY <1>2 DEF Pull, PullLive, PullDeleted
<1>4. google.etag \in Nat /\ Past(local.base) /\ local.token \in Nat
  BY HereIsPast, UploadTyped DEF EventOK
<1>5. google.is \in {"alive", "deleted"}
  BY <1>1, <1>4, UploadTyped DEF GoogleOK, EtagsOK
<1>6. /\ ops \in Seq(Op) /\ \A n \in Positions : State(n) \in Active \cup Settled
  BY <1>1, OpsTyped DEF EventTypeOK
<1>7. upload.members = {} /\ \A n \in Positions : State(n) # "syncing"
  BY <1>1, <1>3 DEF UploadOK, Underway
<1>8. ASSUME NEW n \in Positions
      PROVE  /\ State(n) # "syncing" /\ ops[n].etag <= google.etag
             /\ State(n) \in {"pending", "cancelled"} => Untouched(n)'
  <2>1. State(n) \in {"pending", "cancelled"} => Untouched(n)'
    BY <1>1, <1>3 DEF OpsOK, Untouched, Done
  <2> QED
    BY <1>1, <1>7, <2>1 DEF EtagsOK
<1>9. Restated
  BY <1>3, <1>6, <1>7, <1>8 DEF Restated, State
<1>10. /\ local' \in [home : {"here", "google"}, present : BOOLEAN, base : Snapshot,
                      twin : BOOLEAN, token : Etags]
       /\ local'.home = local.home /\ local'.twin = alive /\ local'.token = google.etag
       /\ local'.present = local.present /\ local'.base = local.base
  BY <1>1, <1>3, <1>4 DEF EventTypeOK, Etags
<1>11. ~local.present /\ local.home = "here" /\ local.base = NoBase
  BY <1>1, UploadTyped DEF FindsRow, RowOK
<1>12. ~Doomed => ActiveOps = {}
  BY <1>1, <1>11 DEF RowOK
<1>13. ~Doomed => \A n \in Positions : State(n) \notin Active
  BY <1>12 DEF ActiveOps, State
<1>14. \A n \in Positions : ops'[n] = ops[n]
  BY <1>3
<1>15. ~Doomed => \A n \in Positions : ~InDoubt(n)'
  BY <1>13, <1>14 DEF InDoubt, State, Active
<1>16. \A n \in Positions : OpKind(n) = "delete" /\ State(n) \in Settled =>
           \A m \in Positions : State(m) \in Settled
  BY <1>1, <1>6 DEF OutcomesOK, ActiveOps, State
<1>17. ShownOK'
  <2>1. upload'.answer = "none"
    BY <1>9, RestatedKeeps
  <2> QED
    BY <1>2, <1>3, <1>5, <1>10, <1>11, <2>1 DEF ShownOK
<1>18. local'.token <= google.etag /\ Past(local'.base)
  BY <1>4, <1>10
<1> QED
  BY <1>9, <1>10, <1>11, <1>13, <1>14, <1>15, <1>16, <1>17, <1>18, RestatedRow DEF State

LEMMA PullKeeps == EventOK /\ Pull => EventOK'
<1> SUFFICES ASSUME EventOK, Pull PROVE EventOK'
  OBVIOUS
<1>1. CASE google.etag = local.token
  BY <1>1, QuietKeeps DEF Pull
<1>2. CASE google.etag # local.token
  BY <1>2, FoundLiveKeeps, FoundDeletedKeeps, NotFoundKeeps
<1> QED
  BY <1>1, <1>2

LEMMA NothingToLeaseKeeps == EventOK /\ NothingToLease => EventOK'
  BY QuietKeeps DEF NothingToLease


-----------------------------------------------------------------------------
(* The worker takes up an upload.                                          *)

\* The upload n .. e begins: its members are of one mind, and nothing before it is open.
Begins(n, e) ==
  /\ n \in Positions /\ e \in n .. Len(ops)
  /\ upload.at = "lease" /\ State(n) \in {"pending", "ambiguous"}
  /\ \A m \in 1 .. (n - 1) : State(m) \in Settled
  /\ State(n) = "ambiguous" => ops[n].lead = n
  /\ OpKind(n) = "delete" => e = n
  /\ \A k \in n .. e : /\ k # n => OpKind(k) = "update"
                       /\ State(k) = State(n)
                       /\ State(n) = "ambiguous" => ops[k].lead = n
  /\ \A k \in Positions : State(n) = "ambiguous" /\ State(k) = "ambiguous" /\ Clear(k)
                          /\ ops[k].lead = n => k \in n .. e
  /\ UNCHANGED <<google, local, late, history>>
  /\ ops' \in Seq(Op) /\ Len(ops') = Len(ops)
  /\ \A k \in Positions :
       /\ ops'[k].kind = ops[k].kind /\ ops'[k].group = ops[k].group
       /\ ops'[k].base = ops[k].base /\ ops'[k].etag = ops[k].etag
       /\ ops'[k].state = IF k \in n .. e THEN "syncing" ELSE State(k)
       /\ ops'[k].lead = IF k \in n .. e THEN n ELSE ops[k].lead
  /\ upload' = [Asleep EXCEPT
       !.at = IF State(n) = "ambiguous" THEN "reconcile" ELSE "send",
       !.members = n .. e, !.lead = n, !.from = State(n), !.etag = ops[n].etag]

LEMMA LeaseBegins ==
  ASSUME EventOK, NEW n \in OpIds, Lease(n)
  PROVE  \E e \in n .. Len(ops) : Begins(n, e)
<1>1. EventTypeOK /\ OpsOK /\ RowOK
  BY DEF EventOK
<1>2. /\ n \in Positions /\ State(n) \in {"pending", "ambiguous"}
      /\ \A m \in 1 .. (n - 1) : State(m) \in Settled
      /\ State(n) = "ambiguous" => ops[n].lead = n
      /\ upload.at = "lease" /\ UNCHANGED <<google, local, late, history>>
      /\ ops' = InState(UploadGroup(n), "syncing", n)
      /\ upload' = [Asleep EXCEPT
            !.at = IF State(n) = "ambiguous" THEN "reconcile" ELSE "send",
            !.members = UploadGroup(n), !.lead = n, !.from = State(n), !.etag = ops[n].etag]
  BY DEF Lease, Leasable, Leader, State
<1>3. PICK e \in n .. Len(ops) :
           /\ UploadGroup(n) = n .. e
           /\ OpKind(n) = "delete" => e = n
           /\ \A k \in (n + 1) .. e : OpKind(k) = "update" /\ Joins(n, k)
           /\ OpKind(n) # "delete" /\ e < Len(ops) =>
                ~(OpKind(e + 1) = "update" /\ Joins(n, e + 1))
  BY <1>1, <1>2, UploadGroupIsARange
<1>4. /\ Positions = 1 .. Len(ops) /\ Len(ops) \in Nat /\ n \in 1 .. Len(ops) /\ e \in Nat
      /\ n \in 0 .. MaxOps /\ MaxOps \in Nat
  BY <1>1, <1>2, OpsTyped DEF OpIds
<1>5. ASSUME NEW k \in n .. e
      PROVE  /\ k # n => OpKind(k) = "update"
             /\ State(k) = State(n)
             /\ State(n) = "ambiguous" => ops[k].lead = n
  <2>1. k = n \/ k \in (n + 1) .. e
    BY <1>4
  <2> QED
    BY <2>1, <1>2, <1>3 DEF Joins, State
<1>6. ASSUME NEW k \in Positions, State(n) = "ambiguous", State(k) = "ambiguous", Clear(k),
             ops[k].lead = n
      PROVE  k \in n .. e
  <2>1. /\ n \in 1 .. k
        /\ \A j \in n .. k : State(j) = "ambiguous" /\ ops[j].lead = n
    BY <1>1, <1>6 DEF OpsOK
  <2>2. SUFFICES ASSUME k > e PROVE FALSE
    BY <2>1, <1>4
  <2>3. e + 1 \in n .. k /\ e + 1 \in Positions /\ e < Len(ops) /\ e + 1 # n
    BY <2>1, <2>2, <1>3, <1>4
  <2>4. State(e + 1) = "ambiguous" /\ ops[e + 1].lead = n
    BY <2>1, <2>3
  <2>5. OpKind(e + 1) = "update"
    BY <2>3, <2>4, <1>1 DEF OpsOK
  <2>6. Joins(n, e + 1)
    <3>1. ops[n].state = "ambiguous" /\ ops[n].lead = n /\ n # 0
      BY <1>2, <1>4, <1>6 DEF State
    <3> QED
      BY <2>4, <3>1 DEF Joins, State
  <2>7. OpKind(n) # "delete"
    <3>1. OpKind(n) = "delete" => n = Len(ops)
      BY <1>1, <1>2 DEF RowOK
    <3> QED
      BY <3>1, <2>1, <2>2, <1>3, <1>4
  <2> QED
    BY <2>3, <2>5, <2>6, <2>7, <1>3
<1>7. /\ ops' \in Seq(Op) /\ Len(ops') = Len(ops)
      /\ \A k \in Positions :
            /\ ops'[k].kind = ops[k].kind /\ ops'[k].group = ops[k].group
            /\ ops'[k].base = ops[k].base /\ ops'[k].etag = ops[k].etag
            /\ ops'[k].state = IF k \in n .. e THEN "syncing" ELSE ops[k].state
            /\ ops'[k].lead = IF k \in n .. e THEN n ELSE ops[k].lead
  <2>1. PICK f, G : f = InState(G, "syncing", n) /\ G = UploadGroup(n)
    OBVIOUS
  <2>2. "syncing" \in Active \cup Settled
    BY DEF Active
  <2>3. IsInState(f, G, "syncing", n)
    BY <1>1, <1>4, <2>1, <2>2, ListInState
  <2>4. ops' = f /\ G = n .. e
    BY <1>2, <1>3, <2>1
  <2> QED
    BY <2>3, <2>4 DEF IsInState
<1> QED
  BY <1>2, <1>3, <1>5, <1>6, <1>7 DEF Begins, State

LEMMA BeginsKeeps ==
  ASSUME EventOK, NEW n, NEW e, Begins(n, e)
  PROVE  EventOK'
<1> DEFINE G == n .. e
<1>1. EventTypeOK /\ OpsOK /\ RowOK /\ UploadOK /\ EtagsOK /\ RequestsOK
  BY DEF EventOK
<1>2. /\ Positions = 1 .. Len(ops) /\ Len(ops) \in Nat /\ Positions \subseteq OpIds /\ Len(ops) <= MaxOps
      /\ \A k \in Positions : k \in Nat /\ ops[k].lead \in 0 .. MaxOps /\ ops[k].etag \in Nat
                              /\ State(k) \in Active \cup Settled
      /\ MaxOps \in Nat
  BY <1>1, OpsTyped
<1>3. /\ n \in Positions /\ e \in n .. Len(ops)
      /\ upload.at = "lease" /\ State(n) \in {"pending", "ambiguous"}
      /\ \A m \in 1 .. (n - 1) : State(m) \in Settled
      /\ State(n) = "ambiguous" => ops[n].lead = n
      /\ OpKind(n) = "delete" => e = n
      /\ google' = google /\ local' = local /\ late' = late /\ history' = history
      /\ ops' \in Seq(Op) /\ Len(ops') = Len(ops)
  BY DEF Begins
<1>4. ASSUME NEW k \in G
      PROVE  /\ k # n => OpKind(k) = "update"
             /\ State(k) = State(n)
             /\ State(n) = "ambiguous" => ops[k].lead = n
  BY DEF Begins
<1>5. ASSUME NEW k \in Positions, State(n) = "ambiguous", State(k) = "ambiguous", Clear(k),
             ops[k].lead = n
      PROVE  k \in G
  BY <1>5 DEF Begins
<1>6. ASSUME NEW k \in Positions
      PROVE  /\ ops'[k].kind = ops[k].kind /\ ops'[k].group = ops[k].group
             /\ ops'[k].base = ops[k].base /\ ops'[k].etag = ops[k].etag
             /\ k \in G => ops'[k].state = "syncing" /\ ops'[k].lead = n
             /\ k \notin G => ops'[k].state = State(k) /\ ops'[k].lead = ops[k].lead
  BY DEF Begins
<1>7. /\ upload' \in [at : {"idle", "lease", "reconcile", "send", "wait", "answered", "unsure"},
                 members : SUBSET OpIds, lead : 0..MaxOps, from : {"pending", "ambiguous"},
                 etag : Etags, answer : {"none", "ok", "conflict", "changed", "gone", "invalid", "retry"},
                 seen : Snapshot]
      /\ upload'.at = (IF State(n) = "ambiguous" THEN "reconcile" ELSE "send")
      /\ upload'.members = G /\ upload'.lead = n /\ upload'.from = State(n)
      /\ upload'.etag = ops[n].etag /\ upload'.answer = "none" /\ upload'.seen = NoBase
  <2>1. upload' = [Asleep EXCEPT
            !.at = IF State(n) = "ambiguous" THEN "reconcile" ELSE "send",
            !.members = G, !.lead = n, !.from = State(n), !.etag = ops[n].etag]
    BY DEF Begins
  <2>2. G \in SUBSET OpIds /\ n \in 0 .. MaxOps /\ ops[n].etag \in Etags
    BY <1>2, <1>3 DEF OpIds, Etags
  <2>3. Asleep \in [at : {"idle", "lease", "reconcile", "send", "wait", "answered", "unsure"},
                 members : SUBSET OpIds, lead : 0..MaxOps, from : {"pending", "ambiguous"},
                 etag : Etags, answer : {"none", "ok", "conflict", "changed", "gone", "invalid", "retry"},
                 seen : Snapshot] /\ Asleep.answer = "none" /\ Asleep.seen = NoBase
    BY AsleepTyped
  <2> HIDE DEF G
  <2> QED
    BY <2>1, <2>2, <2>3, <1>3
<1>8. n \in G /\ G \subseteq Positions /\ \A k \in G : k >= n /\ \A j \in n .. k : j \in G
  BY <1>2, <1>3
<1> HIDE DEF G
<1>9. Positions' = Positions /\ upload'.at \in {"reconcile", "send"} /\ Underway'
  BY <1>3, <1>7 DEF Positions, Underway
<1>10. \A k \in Positions : State(k)' = ops'[k].state /\ OpKind(k)' = OpKind(k)
  BY <1>6 DEF State, OpKind
<1>11. (Doomed' <=> Doomed) /\ ActiveOps' = ActiveOps
  <2>1. Doomed' <=> Doomed
    BY <1>6, <1>9 DEF Doomed, OpKind
  <2>2. \A k \in Positions : ops'[k].state \in Active <=> State(k) \in Active
    BY <1>3, <1>4, <1>6 DEF Active
  <2> QED
    BY <1>9, <2>1, <2>2 DEF ActiveOps, State
<1>12. upload.members = {} /\ \A k \in Positions : State(k) # "syncing"
  BY <1>1, <1>3 DEF UploadOK, Underway
<1>13. \A k \in Positions : ops'[k].state \in {"failed", "conflict"} <=> State(k) \in {"failed", "conflict"}
  BY <1>3, <1>4, <1>6
<1>14. ASSUME NEW k \in Positions PROVE Clear(k)' <=> Clear(k)
  <2>1. \A m \in 1 .. (k - 1) : m \in Positions
    BY <1>2
  <2> QED
    BY <2>1, <1>10, <1>13 DEF Clear
<1>15. \A k \in Positions : State(k) \in Settled => ops'[k].state = State(k)
  BY <1>3, <1>4, <1>6 DEF Settled
<1>16. ASSUME NEW k \in G, State(n) = "pending" PROVE Untouched(k) /\ State(k) = "pending"
  BY <1>1, <1>4, <1>8, <1>16 DEF OpsOK
<1>17. ASSUME NEW k \in Positions, k \in G, State(n) = "ambiguous", InDoubt(k)'
       PROVE  InDoubt(k) /\ ops[k].lead = n
  BY <1>4, <1>14, <1>17 DEF InDoubt
<1>18. ASSUME NEW k \in Positions, k \notin G, InDoubt(k)'
       PROVE  InDoubt(k) /\ State(k) = "ambiguous" /\ ops'[k].lead = ops[k].lead
  <2>1. ops'[k].state = State(k) /\ ops'[k].lead = ops[k].lead
    BY <1>6, <1>18
  <2> QED
    BY <2>1, <1>10, <1>12, <1>14, <1>18 DEF InDoubt
<1>19. \A k \in OpIds : Untouched(k)' <=> Untouched(k)
  BY <1>3 DEF Untouched, Done
<1>20. EventTypeOK'
  BY <1>1, <1>2, <1>3, <1>7 DEF EventTypeOK
<1>21. RowOK'
  <2>1. (ops' # <<>> <=> ops # <<>>) /\ (ops # <<>> => 1 \in Positions)
    BY <1>1, <1>2, <1>3 DEF EventTypeOK
  <2> QED
    BY <1>1, <1>3, <1>9, <1>10, <1>11, <2>1 DEF RowOK
<1>22. GoogleOK'
  BY <1>3 DEF EventOK, GoogleOK, Signed, Done
<1>23. EtagsOK'
  BY <1>1, <1>3, <1>6, <1>9 DEF EtagsOK, Past, Signed, Done, Has
<1>24. ASSUME NEW r \in late PROVE RequestOK(r)'
  <2>1. RequestOK(r) /\ GroupOK(r.lead, r.members)
    BY <1>1 DEF RequestsOK, RequestOK
  <2>2. /\ r.lead \in r.members /\ r.members \subseteq Positions /\ r.lead \in Positions
        /\ \A m \in 1 .. (r.lead - 1) : m \in Positions
    BY <2>1, <1>2 DEF GroupOK
  <2>3. GroupOK(r.lead, r.members)'
    <3>1. \A m \in 1 .. (r.lead - 1) : ops'[m].state \in Settled
      BY <2>1, <2>2, <1>15 DEF GroupOK
    <3>2. \A m \in r.members : m >= r.lead /\ (m # r.lead => ops'[m].kind = "update")
      BY <2>1, <2>2, <1>6 DEF GroupOK, OpKind
    <3>3. ops'[r.lead].kind = "delete" => r.members = {r.lead}
      BY <2>1, <2>2, <1>6 DEF GroupOK, OpKind
    <3> QED
      BY <2>2, <3>1, <3>2, <3>3, <1>9 DEF GroupOK, State, OpKind
  <2>4. r.kind = ops'[r.lead].kind /\ r.etag <= google.etag
        /\ (r.kind # "create" => r.etag # 0 /\ ops'[r.lead].etag # 0)
    BY <2>1, <2>2, <1>6 DEF RequestOK, OpKind
  <2>5. ASSUME NEW k \in r.members, ops'[k].state \in {"ambiguous", "syncing"}
        PROVE  ops'[k].lead = r.lead
    <3>1. CASE k \in G /\ State(n) = "pending"
      BY <3>1, <1>16 DEF Untouched
    <3>2. CASE k \in G /\ State(n) = "ambiguous"
      BY <3>2, <2>1, <2>2, <1>4, <1>6 DEF RequestOK
    <3>3. CASE k \notin G
      BY <3>3, <2>1, <2>2, <2>5, <1>6 DEF RequestOK
    <3> QED
      BY <3>1, <3>2, <3>3, <1>3
  <2>6. ASSUME NEW k \in Positions, InDoubt(k)', ops'[k].lead = r.lead PROVE k \in r.members
    <3>1. CASE k \in G /\ State(n) = "pending"
      <4>1. n = r.lead
        BY <2>6, <3>1, <1>6
      <4> QED
        BY <4>1, <2>2, <3>1, <1>8, <1>16 DEF Untouched
    <3>2. CASE k \in G /\ State(n) = "ambiguous"
      BY <3>2, <2>1, <2>6, <1>6, <1>17 DEF RequestOK
    <3>3. CASE k \notin G
      BY <3>3, <2>1, <2>6, <1>18 DEF RequestOK
    <3> QED
      BY <3>1, <3>2, <3>3, <1>3
  <2>7. /\ \A g \in Groups : r.val[g] \in r.members \cup {0}
        /\ \A k \in r.members : ops'[k].kind = "update" => r.val[ops'[k].group] # 0
    BY <2>1, <2>2, <1>6 DEF RequestOK, OpKind
  <2> QED
    BY <2>3, <2>4, <2>5, <2>6, <2>7, <1>3, <1>9 DEF RequestOK, State, OpKind
<1>25. RequestsOK'
  BY <1>3, <1>24 DEF RequestsOK
<1>26. UploadOK'
  <2>1. GroupOK(n, G)'
    <3>1. \A m \in 1 .. (n - 1) : ops'[m].state \in Settled
      BY <1>2, <1>3, <1>15
    <3>2. \A m \in G : m >= n /\ (m # n => ops'[m].kind = "update")
      BY <1>4, <1>6, <1>8 DEF OpKind
    <3>3. ops'[n].kind = "delete" => G = {n}
      BY <1>2, <1>3, <1>6 DEF OpKind, G
    <3> QED
      BY <3>1, <3>2, <3>3, <1>8, <1>9 DEF GroupOK, State, OpKind
  <2>2. \A k \in Positions : ops'[k].state = "syncing" <=> k \in G
    BY <1>6, <1>12
  <2>3. \A m \in G : \A k \in n .. m : k \in G
    BY <1>8
  <2>4. (\A m \in G : ops'[m].lead = n) /\ ops'[n].etag = ops[n].etag
    BY <1>6, <1>8
  <2> QED
    BY <2>1, <2>2, <2>3, <2>4, <1>7, <1>9, <1>10 DEF UploadOK
<1>27. AnswerOK'
  <2>1. Past(NoBase)'
    <3>1. Past(NoBase)
      BY HereIsPast
    <3> QED
      BY <3>1, <1>3 DEF Past, Signed, Done, NoBase
  <2>2. State(n) = "pending" => \A k \in G : Untouched(k)'
    BY <1>2, <1>8, <1>16, <1>19
  <2>3. upload'.at = "reconcile" => upload'.from = "ambiguous"
    BY <1>3, <1>7
  <2>4. Past(upload.seen)'
    BY <2>1, <1>7 DEF Past
  <2> QED
    BY <1>7, <1>9, <2>2, <2>3, <2>4 DEF AnswerOK
<1>28. ASSUME NEW k \in Positions, ops'[k].state = "ambiguous"
       PROVE  /\ ops'[k].lead \in 1 .. k
              /\ \A m \in 1 .. (ops'[k].lead - 1) : ops'[m].state \in Settled
              /\ ops'[k].lead # k => OpKind(k) = "update"
              /\ Clear(k)' => \A j \in ops'[k].lead .. k :
                               ops'[j].state = "ambiguous" /\ ops'[j].lead = ops'[k].lead
  <2>1. k \notin G /\ State(k) = "ambiguous" /\ ops'[k].lead = ops[k].lead
    BY <1>6, <1>28
  <2>2. /\ ops[k].lead \in 1 .. k
        /\ \A m \in 1 .. (ops[k].lead - 1) : State(m) \in Settled
        /\ ops[k].lead # k => OpKind(k) = "update"
        /\ Clear(k) => \A j \in ops[k].lead .. k :
                         State(j) = "ambiguous" /\ ops[j].lead = ops[k].lead
    BY <2>1, <1>1 DEF OpsOK
  <2>3. \A m \in 1 .. (ops[k].lead - 1) : ops'[m].state \in Settled
    <3>1. \A m \in 1 .. (ops[k].lead - 1) : m \in Positions
      BY <2>2, <1>2
    <3> QED
      BY <2>2, <3>1, <1>15
  <2>4. ASSUME Clear(k)', NEW j \in ops[k].lead .. k
        PROVE  ops'[j].state = "ambiguous" /\ ops'[j].lead = ops[k].lead
    <3>1. Clear(k) /\ State(j) = "ambiguous" /\ ops[j].lead = ops[k].lead /\ j \in Positions
      BY <2>2, <2>4, <1>2, <1>14
    <3>2. j \notin G
      <4>1. SUFFICES ASSUME j \in G PROVE FALSE
        OBVIOUS
      <4>2. State(n) = "ambiguous" /\ ops[k].lead = n
        BY <3>1, <4>1, <1>4
      <4> QED
        BY <4>2, <3>1, <2>1, <1>5
    <3> QED
      BY <3>1, <3>2, <1>6
  <2> QED
    BY <2>1, <2>2, <2>3, <2>4
<1>29. OpsOK'
  <2>1. \A k \in Positions : ops'[k].state \in {"pending", "cancelled"} => Untouched(k)'
    BY <1>1, <1>2, <1>6, <1>19 DEF OpsOK
  <2>2. \A k \in OpIds : k > Len(ops) => Untouched(k)'
    BY <1>1, <1>19 DEF OpsOK
  <2>3. ASSUME NEW k \in Positions, InDoubt(k)'
        PROVE  Done(k) > 0 <=> Done(ops'[k].lead) > 0
    <3>1. CASE k \in G /\ State(n) = "pending"
      <4>1. Done(k) = 0 /\ Done(n) = 0
        BY <3>1, <1>8, <1>16 DEF Untouched
      <4> QED
        BY <4>1, <3>1, <1>6
    <3>2. CASE k \in G /\ State(n) = "ambiguous"
      BY <3>2, <2>3, <1>1, <1>6, <1>17 DEF OpsOK
    <3>3. CASE k \notin G
      BY <3>3, <2>3, <1>1, <1>18 DEF OpsOK
    <3> QED
      BY <3>1, <3>2, <3>3, <1>3
  <2>4. \A k \in Positions : ops'[k].state = "ambiguous" =>
              /\ ops'[k].lead \in 1 .. k
              /\ \A m \in 1 .. (ops'[k].lead - 1) : ops'[m].state \in Settled
              /\ ops'[k].lead # k => OpKind(k) = "update"
              /\ Clear(k)' => \A j \in ops'[k].lead .. k :
                               ops'[j].state = "ambiguous" /\ ops'[j].lead = ops'[k].lead
    BY <1>28
  <2>5. \A k \in Positions : InDoubt(k)' => (Done(k) > 0 <=> Done(ops'[k].lead) > 0)
    BY <2>3
  <2> QED
    BY <1>3, <1>9, <1>10, <2>1, <2>2, <2>4, <2>5 DEF OpsOK, State, OpKind, Done
<1>30. OnceOK'
  <2>1. ASSUME ~Doomed, NEW k \in Positions, InDoubt(k)', Done(k) > 0, ops'[ops'[k].lead].kind # "create"
        PROVE  /\ ops'[ops'[k].lead].etag < google.etag
               /\ Has(local.base) /\ local.base.val[ops'[k].group] # google.val[ops'[k].group]
    <3>1. ~(k \in G /\ State(n) = "pending")
      BY <2>1, <1>16 DEF Untouched
    <3>2. InDoubt(k) /\ ops'[k].lead = ops[k].lead
      BY <2>1, <3>1, <1>3, <1>6, <1>17, <1>18
    <3>3. ops[k].lead \in Positions
      <4>1. State(k) = "ambiguous"
        BY <3>2, <1>12 DEF InDoubt
      <4>2. ops[k].lead \in 1 .. k
        BY <4>1, <1>1 DEF OpsOK
      <4> QED
        BY <4>2, <1>2
    <3>4. OpKind(ops[k].lead) # "create"
      BY <2>1, <3>2, <3>3, <1>6 DEF OpKind
    <3>5. /\ ops[ops[k].lead].etag < google.etag
          /\ Has(local.base) /\ local.base.val[ops[k].group] # google.val[ops[k].group]
      BY <2>1, <3>2, <3>4 DEF EventOK, OnceOK
    <3> QED
      BY <3>2, <3>3, <3>5, <1>6
  <2> QED
    BY <2>1, <1>3, <1>9, <1>11 DEF EventOK, OnceOK, OpKind, Done, Has
<1>31. OutcomesOK'
  <2>1. n \in ActiveOps
    BY <1>3 DEF ActiveOps, State, Active
  <2>2. \A k \in Positions : ops'[k].state \in Settled => State(k) = ops'[k].state
    BY <1>6 DEF Settled
  <2>3. \A k \in Positions : OpKind(k) = "delete" => ops'[k].state \notin Settled
    BY <2>1, <2>2 DEF EventOK, OutcomesOK
  <2> QED
    BY <1>3, <1>9, <1>10, <2>2, <2>3 DEF EventOK, OutcomesOK, Done, Settled
<1>32. ShownOK'
  <2>1. Here' = Here
    BY <1>3 DEF Here
  <2>2. \A k \in Positions : Open(k) => ops'[k].state \in Active
    BY <1>6 DEF Open, Active
  <2>3. \A k \in Positions : State(k) = "conflict" => ops'[k].state = "conflict"
    BY <1>3, <1>4, <1>6
  <2> QED
    BY <1>3, <1>7, <1>9, <1>10, <2>1, <2>2, <2>3 DEF EventOK, ShownOK, Open
<1> QED
  BY <1>20, <1>21, <1>22, <1>23, <1>25, <1>26, <1>27, <1>29, <1>30, <1>31, <1>32 DEF EventOK

LEMMA LeaseKeeps ==
  ASSUME EventOK, NEW n \in OpIds, Lease(n)
  PROVE  EventOK'
  BY LeaseBegins, BeginsKeeps


-----------------------------------------------------------------------------
(* The user and the other clients.                                         *)

\* A new operation after the others, none of which deletes the event.
Appends(op) ==
  /\ ~Doomed /\ Len(ops) < MaxOps /\ op \in Op /\ op.state = "pending" /\ op.etag <= google.etag
  /\ ops' = Append(ops, op) /\ UNCHANGED <<google, upload, late, history>>
  /\ local' \in [home : {"here", "google"}, present : BOOLEAN, base : Snapshot, twin : BOOLEAN,
                 token : Etags]
  /\ local'.home = local.home /\ local'.token = local.token /\ Past(local'.base)
  /\ op.kind # "delete" => local'.base = local.base

LEMMA AppendsKeeps ==
  ASSUME EventOK, NEW op, Appends(op)
  PROVE  /\ EventTypeOK' /\ GoogleOK' /\ RequestsOK' /\ UploadOK' /\ AnswerOK' /\ OpsOK' /\ OnceOK'
         /\ OutcomesOK'
         /\ Len(ops') = Len(ops) + 1 /\ Positions' = 1 .. (Len(ops) + 1) /\ Positions \subseteq Positions'
         /\ Positions = 1 .. Len(ops) /\ Len(ops) \in Nat
         /\ \A n \in Positions : ops'[n] = ops[n]
         /\ ops'[Len(ops) + 1] = op
         /\ ops' # <<>>
<1>1. EventTypeOK /\ UploadOK /\ OpsOK /\ RequestsOK
  BY DEF EventOK
<1>2. /\ Positions = 1 .. Len(ops) /\ Len(ops) \in Nat /\ Positions \subseteq OpIds /\ Len(ops) <= MaxOps
      /\ \A n \in Positions : n \in Nat /\ ops[n].lead \in 0 .. MaxOps
      /\ \A n \in OpIds : n \in Nat /\ Done(n) \in Nat
      /\ MaxOps \in Nat /\ ops \in Seq(Op)
  BY <1>1, OpsTyped DEF EventTypeOK
<1>3. /\ ~Doomed /\ Len(ops) < MaxOps /\ op \in Op /\ op.state = "pending"
      /\ ops' = Append(ops, op)
      /\ google' = google /\ upload' = upload /\ late' = late /\ history' = history
      /\ local' \in [home : {"here", "google"}, present : BOOLEAN, base : Snapshot, twin : BOOLEAN,
                     token : Etags]
      /\ local'.home = local.home /\ (op.kind # "delete" => local'.base = local.base)
  BY DEF Appends
<1>0. PICK N \in Nat : N = Len(ops) + 1
  BY <1>2
<1>4. /\ ops' \in Seq(Op) /\ Len(ops') = N /\ ops'[N] = op /\ N \in OpIds /\ N \notin Positions
      /\ \A n \in Positions : ops'[n] = ops[n]
  <2>1. \A n \in 1 .. Len(ops) : Append(ops, op)[n] = ops[n]
    BY <1>2, <1>3
  <2> QED
    BY <2>1, <1>0, <1>2, <1>3 DEF OpIds
<1>5. /\ Positions' = 1 .. N /\ Positions \subseteq Positions' /\ N \in Positions'
      /\ \A n \in Positions' : n \in Positions \/ n = N
  BY <1>0, <1>2, <1>4 DEF Positions
<1>6. N > Len(ops) /\ N \in Nat
  BY <1>0, <1>2
<1>7. ops' # <<>>
  BY <1>4, <1>6
<1>8. /\ \A n \in Positions : State(n)' = State(n) /\ OpKind(n)' = OpKind(n)
      /\ State(N)' = "pending" /\ OpKind(N)' = op.kind
  BY <1>3, <1>4 DEF State, OpKind
<1>9. ASSUME NEW n \in Positions
      PROVE  (Clear(n)' <=> Clear(n)) /\ (InDoubt(n)' <=> InDoubt(n))
  <2>1. \A m \in 1 .. (n - 1) : m \in Positions
    BY <1>2
  <2> QED
    BY <2>1, <1>8 DEF Clear, InDoubt
<1>10. ~InDoubt(N)'
  BY <1>8 DEF InDoubt
<1>11. \A n : Untouched(n)' <=> Untouched(n)
  BY <1>3 DEF Untouched, Done
<1>12. EventTypeOK'
  BY <1>1, <1>2, <1>3, <1>4, <1>6 DEF EventTypeOK, OpIds
<1>13. GoogleOK'
  BY <1>3 DEF EventOK, GoogleOK, Signed, Done
<1>14. \A n \in Positions, M \in SUBSET Positions : GroupOK(n, M) => GroupOK(n, M)'
  <2> SUFFICES ASSUME NEW n \in Positions, NEW M \in SUBSET Positions, GroupOK(n, M)
               PROVE  GroupOK(n, M)'
    OBVIOUS
  <2>1. \A m \in 1 .. (n - 1) : m \in Positions
    BY <1>2
  <2> QED
    BY <2>1, <1>5, <1>8 DEF GroupOK
<1>15. ASSUME NEW r \in late PROVE RequestOK(r)'
  <2>1. RequestOK(r) /\ GroupOK(r.lead, r.members)
    BY <1>1 DEF RequestsOK, RequestOK
  <2>2. r.lead \in r.members /\ r.members \subseteq Positions /\ r.lead \in Positions
    BY <2>1 DEF GroupOK
  <2>3. GroupOK(r.lead, r.members)'
    BY <2>1, <2>2, <1>14
  <2>4. r.kind = OpKind(r.lead)'
        /\ (r.kind # "create" => r.etag # 0 /\ ops'[r.lead].etag # 0)
    BY <2>1, <2>2, <1>4, <1>8 DEF RequestOK
  <2>5. \A n \in r.members : State(n)' \in {"ambiguous", "syncing"} => ops'[n].lead = r.lead
    BY <2>1, <2>2, <1>4, <1>8 DEF RequestOK
  <2>6. ASSUME NEW n \in Positions', InDoubt(n)', ops'[n].lead = r.lead PROVE n \in r.members
    BY <2>1, <2>6, <1>4, <1>5, <1>9, <1>10 DEF RequestOK
  <2>7. \A n \in r.members : OpKind(n)' = "update" => r.val[ops'[n].group] # 0
    BY <2>1, <2>2, <1>4, <1>8 DEF RequestOK
  <2> QED
    BY <2>1, <2>3, <2>4, <2>5, <2>6, <2>7, <1>3 DEF RequestOK
<1>16. RequestsOK'
  BY <1>3, <1>15 DEF RequestsOK
<1>17. Underway => upload.lead \in Positions /\ upload.members \subseteq Positions
                   /\ \A m \in upload.members : m \in Positions
  BY <1>1 DEF UploadOK, GroupOK
<1>18. UploadOK'
  <2>1. Underway' <=> Underway
    BY <1>3 DEF Underway
  <2>2. upload.members \subseteq Positions
    BY <1>1, <1>17 DEF UploadOK
  <2>3. \A n \in Positions' : State(n)' = "syncing" <=> n \in upload.members
    BY <2>2, <1>1, <1>4, <1>5, <1>8 DEF UploadOK
  <2>4. Underway => GroupOK(upload.lead, upload.members)'
    BY <1>1, <1>3, <1>14, <1>17 DEF UploadOK
  <2>5. Underway => /\ \A m \in upload.members : ops'[m].lead = upload.lead
                    /\ upload.etag = ops'[upload.lead].etag
                    /\ OpKind(upload.lead)' = OpKind(upload.lead)
    BY <1>1, <1>3, <1>4, <1>8, <1>17 DEF UploadOK, OpKind
  <2>6. upload.at = "wait" => Underway
    BY DEF Underway
  <2> QED
    BY <2>1, <2>3, <2>4, <2>5, <2>6, <1>1, <1>3 DEF UploadOK
<1>19. AnswerOK'
  <2>1. upload.answer # "none" => Underway
    BY <1>1 DEF UploadOK, Underway
  <2>2. Underway => OpKind(upload.lead)' = OpKind(upload.lead)
    BY <1>3, <1>8, <1>17 DEF OpKind
  <2> QED
    BY <2>1, <2>2, <1>3, <1>11 DEF EventOK, AnswerOK, Past, Signed, Done, Has
<1>20. OpsOK'
  <2>1. \A n \in Positions' : State(n)' \in {"pending", "cancelled"} => Untouched(n)'
    <3>1. Untouched(N)
      BY <1>1, <1>4, <1>6 DEF OpsOK
    <3> QED
      BY <3>1, <1>1, <1>5, <1>8, <1>11 DEF OpsOK
  <2>2. \A n \in OpIds : n > Len(ops') => Untouched(n)'
    <3>1. \A n \in OpIds : n > N => n > Len(ops)
      BY <1>0, <1>2
    <3> QED
      BY <3>1, <1>1, <1>4, <1>11 DEF OpsOK
  <2>3. ASSUME NEW n \in Positions', State(n)' = "ambiguous"
        PROVE  /\ ops'[n].lead \in 1 .. n
               /\ \A m \in 1 .. (ops'[n].lead - 1) : State(m)' \in Settled
               /\ ops'[n].lead # n => OpKind(n)' = "update"
               /\ Clear(n)' => \A k \in ops'[n].lead .. n :
                                State(k)' = "ambiguous" /\ ops'[k].lead = ops'[n].lead
    <3>1. n \in Positions /\ State(n) = "ambiguous" /\ ops'[n] = ops[n]
      BY <2>3, <1>4, <1>5, <1>8
    <3>2. /\ ops[n].lead \in 1 .. n
          /\ \A m \in 1 .. (ops[n].lead - 1) : State(m) \in Settled
          /\ ops[n].lead # n => OpKind(n) = "update"
          /\ Clear(n) => \A k \in ops[n].lead .. n :
                           State(k) = "ambiguous" /\ ops[k].lead = ops[n].lead
      BY <3>1, <1>1 DEF OpsOK
    <3>3. /\ \A m \in 1 .. (ops[n].lead - 1) : m \in Positions
          /\ \A k \in ops[n].lead .. n : k \in Positions
      BY <3>1, <3>2, <1>2
    <3> QED
      BY <3>1, <3>2, <3>3, <1>4, <1>8, <1>9
  <2>4. ASSUME NEW n \in Positions', InDoubt(n)'
        PROVE  Done(n) > 0 <=> Done(ops'[n].lead) > 0
    BY <2>4, <1>1, <1>4, <1>5, <1>9, <1>10 DEF OpsOK
  <2>5. \A n \in Positions' : State(n)' = "ambiguous" =>
               /\ ops'[n].lead \in 1 .. n
               /\ \A m \in 1 .. (ops'[n].lead - 1) : State(m)' \in Settled
               /\ ops'[n].lead # n => OpKind(n)' = "update"
               /\ Clear(n)' => \A k \in ops'[n].lead .. n :
                                State(k)' = "ambiguous" /\ ops'[k].lead = ops'[n].lead
    BY <2>3
  <2>6. \A n \in Positions' : InDoubt(n)' => (Done(n) > 0 <=> Done(ops'[n].lead) > 0)
    BY <2>4
  <2> QED
    BY <1>3, <2>1, <2>2, <2>5, <2>6 DEF OpsOK, Done
<1>21. ASSUME NEW n \in Positions, InDoubt(n) PROVE ops[n].lead \in Positions
  <2>1. State(n) = "ambiguous" => ops[n].lead \in 1 .. n
    BY <1>1 DEF OpsOK
  <2>2. State(n) = "syncing" => ops[n].lead \in Positions
    BY <1>1, <1>17 DEF UploadOK
  <2> QED
    BY <2>1, <2>2, <1>2, <1>21 DEF InDoubt
<1>22. OnceOK'
  <2> SUFFICES ASSUME op.kind # "delete"
               PROVE  OnceOK'
    BY <1>5, <1>8 DEF OnceOK, Doomed
  <2>1. local'.base = local.base
    BY <1>3
  <2>2. \A n \in Positions' : Done(n) <= 1
    <3>1. Done(N) = 0
      BY <1>1, <1>4, <1>6 DEF OpsOK, Untouched
    <3> QED
      BY <3>1, <1>3, <1>5 DEF EventOK, OnceOK
  <2>3. ASSUME NEW n \in Positions', InDoubt(n)', Done(n) > 0, ops'[ops'[n].lead].kind # "create"
        PROVE  /\ ops'[ops'[n].lead].etag < google.etag
               /\ Has(local.base) /\ local.base.val[ops'[n].group] # google.val[ops'[n].group]
    <3>1. n \in Positions /\ InDoubt(n)
      BY <2>3, <1>5, <1>9, <1>10
    <3>2. ops'[n] = ops[n] /\ ops'[ops[n].lead] = ops[ops[n].lead]
      BY <3>1, <1>4, <1>21
    <3> QED
      BY <2>3, <3>1, <3>2, <1>3 DEF EventOK, OnceOK, OpKind
  <2> QED
    BY <2>1, <2>2, <2>3, <1>3 DEF EventOK, OnceOK, OpKind, Done, Has
<1>23. OutcomesOK'
  <2>1. \A n \in Positions : OpKind(n) # "delete"
    BY <1>3 DEF Doomed
  <2>2. \A n \in Positions' : OpKind(n)' = "delete" => State(n)' \notin Settled
    BY <2>1, <1>5, <1>8 DEF Settled
  <2>3. \A n \in Positions' : State(n)' \in Settled => n \in Positions
    BY <1>5, <1>8 DEF Settled
  <2> QED
    BY <2>2, <2>3, <1>3, <1>8 DEF EventOK, OutcomesOK, Settled, Done
<1> QED
  BY <1>0, <1>2, <1>4, <1>5, <1>7, <1>12, <1>13, <1>16, <1>18, <1>19, <1>20, <1>22, <1>23

LEMMA QueuedTyped ==
  ASSUME EventOK, NEW g \in Groups, NEW kind \in Kinds
  PROVE  /\ Queued(kind, g) \in Op /\ Queued(kind, g).state = "pending" /\ Queued(kind, g).kind = kind
         /\ Queued(kind, g).etag = local.base.etag /\ local.base.etag <= google.etag
<1>1. local.base \in Snapshot /\ Past(local.base)
  BY HereIsPast
<1>2. 0 \in 0 .. MaxOps /\ local.base.etag \in Etags
  BY <1>1, BoundsAssumption DEF Snapshot
<1>3. "pending" \in Active \cup Settled
  BY DEF Active
<1> QED
  BY <1>1, <1>2, <1>3 DEF Queued, Op, Past

LEMMA CreateKeeps == EventOK /\ Create => EventOK'
<1> SUFFICES ASSUME EventOK, Create PROVE EventOK'
  OBVIOUS
<1>1. EventTypeOK /\ RowOK /\ OpsOK /\ EtagsOK /\ GoogleOK /\ ShownOK /\ UploadOK
  BY DEF EventOK
<1>2. PICK g \in Groups : ops' = <<Queued("create", g)>>
  BY DEF Create
<1>3. /\ local.home = "here" /\ ops = <<>> /\ MaxOps > 0
      /\ local' = [local EXCEPT !.present = TRUE]
      /\ UNCHANGED <<google, upload, late, history>>
  BY DEF Create
<1>4. PICK op : op = Queued("create", g)
  OBVIOUS
<1>5. /\ op \in Op /\ op.state = "pending" /\ op.kind = "create"
      /\ op.etag = local.base.etag /\ local.base.etag <= google.etag
  BY <1>4, QueuedTyped DEF Kinds
<1>6. /\ local' \in [home : {"here", "google"}, present : BOOLEAN, base : Snapshot, twin : BOOLEAN,
                     token : Etags]
      /\ local'.home = local.home /\ local'.token = local.token /\ local'.base = local.base
      /\ local'.present = TRUE /\ local'.twin = local.twin
  BY <1>1, <1>3 DEF EventTypeOK
<1>7. Len(ops) = 0 /\ Positions = {} /\ ops' = Append(ops, op) /\ ~Doomed
  BY <1>2, <1>3, <1>4 DEF Positions, Doomed
<1>8. Appends(op)
  BY <1>1, <1>3, <1>5, <1>6, <1>7 DEF Appends, EtagsOK
<1>9. /\ EventTypeOK' /\ GoogleOK' /\ RequestsOK' /\ UploadOK' /\ AnswerOK' /\ OpsOK' /\ OnceOK'
      /\ OutcomesOK' /\ Positions' = 1 .. 1 /\ ops'[1] = op /\ ops' # <<>>
  BY <1>7, <1>8, AppendsKeeps
<1>10. \A n \in Positions' : n = 1
  BY <1>9
<1>11. google.is = "absent"
  <2>1. 1 \in OpIds /\ MaxOps \in Nat /\ 1 > Len(ops)
    BY <1>3, <1>7, BoundsAssumption DEF OpIds
  <2>2. Done(1) = 0
    BY <2>1, <1>1 DEF OpsOK, Untouched
  <2> QED
    BY <2>2, <1>1, <1>3 DEF GoogleOK
<1>12. RowOK'
  BY <1>3, <1>5, <1>6, <1>9, <1>10 DEF RowOK, OpKind, Doomed
<1>13. EtagsOK'
  <2>1. Past(local.base)'
    BY <1>1, <1>3, <1>6 DEF EtagsOK, Past, Signed, Done
  <2> QED
    BY <2>1, <1>1, <1>3, <1>5, <1>6, <1>9, <1>10 DEF EtagsOK, Has
<1>14. ShownOK'
  <2>1. upload.members = {} /\ ~Underway
    BY <1>1, <1>7 DEF UploadOK, GroupOK
  <2>2. upload.answer = "none"
    BY <2>1, <1>1 DEF UploadOK, Underway
  <2> QED
    BY <2>2, <1>1, <1>3, <1>6, <1>11 DEF ShownOK
<1> QED
  BY <1>9, <1>12, <1>13, <1>14 DEF EventOK

LEMMA EditKeeps ==
  ASSUME EventOK, NEW kind \in {"update", "delete"}, NEW g \in Groups,
         local.present, Len(ops) < MaxOps,
         ops' = Append(ops, Queued(kind, g)),
         local' = IF kind = "update" THEN local ELSE [local EXCEPT !.present = FALSE, !.base = NoBase],
         UNCHANGED <<google, upload, late, history>>
  PROVE  EventOK'
<1>1. EventTypeOK /\ RowOK /\ OpsOK /\ EtagsOK /\ GoogleOK /\ ShownOK /\ UploadOK
  BY DEF EventOK
<1>2. PICK op : op = Queued(kind, g)
  OBVIOUS
<1>3. /\ op \in Op /\ op.state = "pending" /\ op.kind = kind
      /\ op.etag = local.base.etag /\ local.base.etag <= google.etag
  BY <1>2, QueuedTyped DEF Kinds
<1>4. local \in [home : {"here", "google"}, present : BOOLEAN, base : Snapshot, twin : BOOLEAN,
                 token : Etags]
  BY <1>1 DEF EventTypeOK
<1>5. NoBase \in Snapshot /\ Past(NoBase) /\ Past(local.base)
  BY HereIsPast
<1>6. /\ local' \in [home : {"here", "google"}, present : BOOLEAN, base : Snapshot, twin : BOOLEAN,
                     token : Etags]
      /\ local'.home = local.home /\ local'.token = local.token /\ local'.twin = local.twin
      /\ kind = "update" => local' = local
      /\ kind = "delete" => local'.present = FALSE /\ local'.base = NoBase
      /\ Past(local'.base)
  BY <1>4, <1>5
<1>7. ~Doomed
  BY <1>1 DEF RowOK, Doomed
<1>8. Appends(op)
  BY <1>2, <1>3, <1>6, <1>7 DEF Appends
<1>9. /\ EventTypeOK' /\ GoogleOK' /\ RequestsOK' /\ UploadOK' /\ AnswerOK' /\ OpsOK' /\ OnceOK'
      /\ OutcomesOK' /\ Len(ops') = Len(ops) + 1
      /\ Positions' = 1 .. (Len(ops) + 1) /\ Positions \subseteq Positions'
      /\ Positions = 1 .. Len(ops) /\ Len(ops) \in Nat
      /\ \A n \in Positions : ops'[n] = ops[n]
      /\ ops'[Len(ops) + 1] = op /\ ops' # <<>>
  BY <1>8, AppendsKeeps
<1>0. PICK N \in Nat : N = Len(ops) + 1
  BY <1>9
<1>10. N \in Positions' /\ N = Len(ops') /\ \A n \in Positions' : n \in Positions \/ n = N
  BY <1>0, <1>9
<1>11. local.home = "here" => 1 \in Positions /\ OpKind(1) = "create"
  <2>1. ops \in Seq(Op)
    BY <1>1 DEF EventTypeOK
  <2> QED
    BY <2>1, <1>1, <1>9 DEF RowOK
<1>12. /\ \A n \in Positions : OpKind(n)' = OpKind(n) /\ State(n)' = State(n) /\ OpKind(n) # "delete"
       /\ OpKind(N)' = kind /\ State(N)' = "pending"
  BY <1>0, <1>3, <1>7, <1>9 DEF OpKind, State, Doomed
<1>13. RowOK'
  <2>1. \A n \in Positions' : OpKind(n)' = "create" => n = 1 /\ local'.home = "here"
    BY <1>1, <1>6, <1>10, <1>12 DEF RowOK
  <2>2. local'.home = "here" => OpKind(1)' = "create"
    BY <1>6, <1>11, <1>12
  <2>3. \A n \in Positions' : OpKind(n)' = "delete" => n = Len(ops') /\ ~local'.present
    BY <1>6, <1>10, <1>12
  <2>4. ~local'.present => local'.base = NoBase
    BY <1>1, <1>6 DEF RowOK
  <2>5. kind = "delete" => Doomed'
    BY <1>10, <1>12 DEF Doomed
  <2>6. kind = "update" => local'.present
    BY <1>6
  <2> QED
    BY <2>1, <2>2, <2>3, <2>4, <2>5, <2>6, <1>9 DEF RowOK
<1>14. EtagsOK'
  <2>1. Past(local.base)'
    BY <1>6 DEF Past, Signed, Done
  <2>2. \A n \in Positions : ops'[n].etag <= google.etag /\ (ops[n].etag # 0 => Has(local.base))
    BY <1>1, <1>9 DEF EtagsOK
  <2>3. ops'[N] = op
    BY <1>0, <1>9
  <2>4. local'.present => local' = local
    BY <1>6
  <2> QED
    BY <2>1, <2>2, <2>3, <2>4, <1>1, <1>3, <1>6, <1>9, <1>10 DEF EtagsOK, Has
<1>15. ShownOK'
  <2>1. upload.answer # "none" => Underway
    BY <1>1 DEF UploadOK, Underway
  <2>2. Underway => upload.lead \in Positions
    BY <1>1 DEF UploadOK, GroupOK
  <2>3. upload.answer # "none" => OpKind(upload.lead)' = OpKind(upload.lead)
    BY <2>1, <2>2, <1>12 DEF OpKind
  <2>4. kind = "delete" => \E n \in Positions' : OpKind(n)' = "delete" /\ Open(n)'
    BY <1>10, <1>12 DEF Open, Active
  <2>5. Here' = Here
    BY DEF Here
  <2>6. \A n \in Positions : State(n) = "conflict" => State(n)' = "conflict"
    BY <1>12
  <2> QED
    BY <2>3, <2>4, <2>5, <2>6, <1>1, <1>6, <1>9 DEF ShownOK
<1> QED
  BY <1>9, <1>13, <1>14, <1>15 DEF EventOK

LEMMA UserKeeps == EventOK /\ User => EventOK'
<1> SUFFICES ASSUME EventOK, User PROVE EventOK'
  OBVIOUS
<1>1. CASE Create
  BY <1>1, CreateKeeps
<1>2. ASSUME NEW g \in Groups, Update(g) PROVE EventOK'
  <2>1. local.present /\ Len(ops) < MaxOps /\ ops' = Append(ops, Queued("update", g))
        /\ local' = local /\ UNCHANGED <<google, upload, late, history>>
    BY <1>2 DEF Update
  <2>2. PICK kind \in {"update", "delete"} : kind = "update"
    OBVIOUS
  <2> QED
    BY <2>1, <2>2, EditKeeps
<1>3. CASE Delete
  <2>1. PICK g \in Groups : ops' = Append(ops, Queued("delete", g))
    BY <1>3 DEF Delete
  <2>2. /\ local.present /\ Len(ops) < MaxOps
        /\ local' = [local EXCEPT !.present = FALSE, !.base = NoBase]
        /\ UNCHANGED <<google, upload, late, history>>
    BY <1>3 DEF Delete
  <2>3. PICK kind \in {"update", "delete"} : kind = "delete"
    OBVIOUS
  <2> QED
    BY <2>1, <2>2, <2>3, EditKeeps
<1> QED
  BY <1>1, <1>2, <1>3 DEF User

\* Another client changes or deletes the event: every etag known here is of the past.
LEMMA ForeignKeeps == EventOK /\ Foreign => EventOK'
<1> SUFFICES ASSUME EventOK, Foreign PROVE EventOK'
  OBVIOUS
<1>1. EventTypeOK /\ RowOK /\ OpsOK /\ EtagsOK /\ GoogleOK /\ ShownOK /\ UploadOK /\ RequestsOK
      /\ AnswerOK /\ OnceOK /\ OutcomesOK
  BY DEF EventOK
<1>2. /\ Positions = 1 .. Len(ops) /\ Len(ops) \in Nat /\ Positions \subseteq OpIds
      /\ \A n \in Positions : ops[n].group \in Groups /\ ops[n].lead \in 0 .. MaxOps /\ ops[n].etag \in Nat
      /\ MaxOps \in Nat /\ MaxForeign \in Nat /\ google.etag \in Nat /\ history.foreign \in Nat
      /\ google.val \in [Groups -> Values] /\ local.base \in Snapshot /\ local.token \in Nat
  BY <1>1, OpsTyped, UploadTyped, BoundsAssumption
<1>3. /\ google.is = "alive" /\ history.foreign < MaxForeign
      /\ history' = [history EXCEPT !.foreign = @ + 1]
      /\ ops' = ops /\ local' = local /\ upload' = upload /\ late' = late
      /\ google'.is \in {"alive", "deleted"} /\ google'.etag = google.etag + 1
      /\ google' \in [is : {"absent", "alive", "deleted"}, etag : Etags, val : [Groups -> Values]]
      /\ \A g \in Groups : google'.val[g] = google.val[g] \/ google'.val[g] = MaxOps + history.foreign + 1
  <2>1. google \in [is : {"absent", "alive", "deleted"}, etag : Etags, val : [Groups -> Values]]
    BY <1>1 DEF EventTypeOK
  <2>2. google.etag + 1 \in Etags
    BY <1>2 DEF Etags
  <2>3. ASSUME NEW g \in Groups, ForeignWrite(g)
        PROVE  /\ google.is = "alive" /\ history.foreign < MaxForeign
               /\ google'.is = "alive" /\ google'.etag = google.etag + 1
               /\ google' \in [is : {"absent", "alive", "deleted"}, etag : Etags, val : [Groups -> Values]]
               /\ \A h \in Groups : google'.val[h] = google.val[h]
                                    \/ google'.val[h] = MaxOps + history.foreign + 1
    <3>1. /\ google.is = "alive" /\ history.foreign < MaxForeign
          /\ google' = [google EXCEPT !.etag = @ + 1, !.val[g] = MaxOps + history.foreign + 1]
      BY <2>3 DEF ForeignWrite
    <3>2. PICK v \in Values : v = MaxOps + history.foreign + 1
      BY <3>1, <1>2 DEF Values
    <3>3. google' = [google EXCEPT !.etag = google.etag + 1, !.val = [google.val EXCEPT ![g] = v]]
      BY <2>1, <3>1, <3>2
    <3>4. [google.val EXCEPT ![g] = v] \in [Groups -> Values]
      BY <1>2, <3>2
    <3>5. \A h \in Groups : [google.val EXCEPT ![g] = v][h] = IF h = g THEN v ELSE google.val[h]
      BY <1>2
    <3> QED
      BY <2>1, <2>2, <3>1, <3>2, <3>3, <3>4, <3>5
  <2>4. ASSUME ForeignDelete
        PROVE  /\ google.is = "alive" /\ history.foreign < MaxForeign
               /\ google'.is = "deleted" /\ google'.etag = google.etag + 1
               /\ google' \in [is : {"absent", "alive", "deleted"}, etag : Etags, val : [Groups -> Values]]
               /\ google'.val = google.val
    BY <2>1, <2>2, <2>4 DEF ForeignDelete
  <2>5. /\ history' = [history EXCEPT !.foreign = @ + 1]
        /\ ops' = ops /\ local' = local /\ upload' = upload /\ late' = late
    BY DEF Foreign, ForeignWrite, ForeignDelete
  <2> QED
    BY <2>3, <2>4, <2>5 DEF Foreign
<1>4. /\ history'.applied = history.applied /\ history'.foreign = history.foreign + 1
      /\ history' \in [applied : [OpIds -> Nat], foreign : 0..MaxForeign]
  <2>1. history \in [applied : [OpIds -> Nat], foreign : 0..MaxForeign]
    BY <1>1 DEF EventTypeOK
  <2>2. history.foreign + 1 \in 0..MaxForeign
    BY <1>2, <1>3
  <2>3. history' = [history EXCEPT !.foreign = history.foreign + 1]
    BY <1>3
  <2> QED
    BY <2>1, <2>2, <2>3
<1>5. EventTypeOK'
  BY <1>1, <1>3, <1>4 DEF EventTypeOK
<1>6. \A val : Signed(val) /\ (\A g \in Groups : val[g] \in Nat) => Signed(val)'
  <2> SUFFICES ASSUME NEW val, Signed(val), \A g \in Groups : val[g] \in Nat
               PROVE  Signed(val)'
    OBVIOUS
  <2>1. \A g \in Groups : val[g] <= MaxOps + history'.foreign
    BY <1>2, <1>4 DEF Signed
  <2> QED
    BY <2>1, <1>4 DEF Signed, Done
<1>7. \A s \in Snapshot : Past(s) => Past(s)' /\ s.etag < google'.etag
  <2> SUFFICES ASSUME NEW s \in Snapshot, Past(s)
               PROVE  Past(s)' /\ s.etag < google'.etag
    OBVIOUS
  <2>1. s.etag \in Nat /\ s.val \in [Groups -> Values] /\ \A g \in Groups : s.val[g] \in Nat
    BY <1>2 DEF Snapshot, Etags, Values
  <2>2. s.etag <= google.etag /\ Signed(s.val)
    BY DEF Past
  <2>3. s.etag < google'.etag
    BY <2>1, <2>2, <1>2, <1>3
  <2>4. Signed(s.val)'
    BY <2>1, <2>2, <1>6
  <2> QED
    BY <2>1, <2>3, <2>4, <1>2, <1>3 DEF Past
<1>8. RowOK'
  BY <1>1, <1>3 DEF RowOK, Positions, OpKind, Doomed, ActiveOps
<1>9. GoogleOK'
  <2>1. Signed(google.val)'
    <3>1. /\ \A g \in Groups : google.val[g] \in OpIds => Done(google.val[g]) > 0
          /\ \A g \in Groups : google.val[g] <= MaxOps + history.foreign
      BY <1>1 DEF GoogleOK, Signed
    <3>2. ASSUME NEW g \in Groups
          PROVE  /\ google'.val[g] \in OpIds => Done(google'.val[g]) > 0
                 /\ google'.val[g] <= MaxOps + history'.foreign
      <4>1. google.val[g] \in Nat
        BY <1>2 DEF Values
      <4>2. CASE google'.val[g] = google.val[g]
        BY <4>1, <4>2, <3>1, <1>2, <1>4
      <4>3. CASE google'.val[g] = MaxOps + history.foreign + 1
        BY <4>3, <1>2, <1>4 DEF OpIds
      <4> QED
        BY <4>2, <4>3, <1>3
    <3> QED
      BY <3>2, <1>4 DEF Signed, Done
  <2>2. google'.is # "absent" /\ google'.etag > 0
    BY <1>2, <1>3
  <2> QED
    BY <2>1, <2>2, <1>1, <1>3, <1>4 DEF GoogleOK, Done
<1>10. EtagsOK'
  <2>1. Past(local.base)'
    BY <1>1, <1>2, <1>3, <1>7 DEF EtagsOK
  <2>2. \A n \in Positions : ops[n].etag <= google'.etag
    BY <1>1, <1>2, <1>3 DEF EtagsOK
  <2>3. local.token <= google'.etag
    BY <1>1, <1>2, <1>3 DEF EtagsOK
  <2> QED
    BY <2>1, <2>2, <2>3, <1>1, <1>3 DEF EtagsOK, Positions, Has
<1>11. ASSUME NEW r \in late PROVE RequestOK(r)' /\ r.etag < google'.etag
  <2>1. RequestOK(r) /\ r.etag \in Nat
    BY <1>1, UploadTyped DEF RequestsOK, Request, Etags
  <2>2. r.etag < google'.etag /\ r.etag <= google'.etag
    BY <2>1, <1>2, <1>3 DEF RequestOK
  <2> QED
    BY <2>1, <2>2, <1>3 DEF RequestOK, GroupOK, Positions, State, OpKind, InDoubt, Clear
<1>12. RequestsOK'
  BY <1>3, <1>11 DEF RequestsOK
<1>13. UploadOK'
  BY <1>1, <1>3 DEF UploadOK, Positions, State, OpKind, GroupOK, Underway
<1>14. upload.seen \in Snapshot /\ Past(upload.seen)
  BY HereIsPast
<1>15. AnswerOK'
  <2>1. Past(upload.seen)'
    BY <1>3, <1>7, <1>14
  <2>2. \A n : Untouched(n) => Untouched(n)'
    BY <1>3, <1>4 DEF Untouched, Done
  <2> QED
    BY <2>1, <2>2, <1>1, <1>3, <1>4 DEF AnswerOK, OpKind, Done, Has
<1>16. OpsOK'
  BY <1>1, <1>3, <1>4 DEF OpsOK, Positions, State, OpKind, InDoubt, Clear, Untouched, Done
<1>17. OnceOK'
  <2>1. \A r \in late : ~(r.etag = google'.etag)
    <3>1. ASSUME NEW r \in late PROVE ~(r.etag = google'.etag)
      <4>1. r.etag \in Nat /\ r.etag < google'.etag
        BY <1>1, <1>11, UploadTyped DEF Request, Etags
      <4> QED
        BY <4>1, <1>2, <1>3
    <3> QED
      BY <3>1
  <2>2. ASSUME ~Doomed, NEW n \in Positions, InDoubt(n), Done(n) > 0, OpKind(ops[n].lead) # "create"
        PROVE  /\ ops[ops[n].lead].etag < google'.etag
               /\ Has(local.base) /\ local.base.val[ops[n].group] # google'.val[ops[n].group]
    <3>1. /\ ops[ops[n].lead].etag < google.etag
          /\ Has(local.base) /\ local.base.val[ops[n].group] # google.val[ops[n].group]
      BY <2>2, <1>1 DEF OnceOK
    <3>2. ops[n].lead \in Positions
      <4>1. State(n) = "ambiguous" => ops[n].lead \in 1 .. n
        BY <1>1 DEF OpsOK
      <4>2. State(n) = "syncing" => n \in upload.members /\ Underway
        BY <1>1 DEF UploadOK
      <4>3. State(n) = "syncing" => ops[n].lead \in Positions
        BY <4>2, <1>1, UnderwayIsDoubt
      <4> QED
        BY <4>1, <4>3, <1>2, <2>2 DEF InDoubt
    <3>3. ops[ops[n].lead].etag < google'.etag
      BY <3>1, <3>2, <1>2, <1>3
    <3>4. local.base.val[ops[n].group] # MaxOps + history.foreign + 1
      <4>1. local.base.val[ops[n].group] <= MaxOps + history.foreign
        BY <1>1, <1>2 DEF EtagsOK, Past, Signed
      <4>2. local.base.val[ops[n].group] \in Nat
        BY <1>2 DEF Snapshot, Values
      <4> QED
        BY <4>1, <4>2, <1>2
    <3> QED
      BY <3>1, <3>3, <3>4, <1>2, <1>3
  <2>3. \A n \in Positions : InDoubt(n)' <=> InDoubt(n)
    BY <1>3 DEF InDoubt, Clear, State
  <2>4. (Doomed' <=> Doomed) /\ Positions' = Positions
    BY <1>3 DEF Doomed, OpKind, Positions
  <2> QED
    BY <2>1, <2>2, <2>3, <2>4, <1>1, <1>3, <1>4 DEF OnceOK, OpKind, Done, Has
<1>18. OutcomesOK'
  BY <1>1, <1>3, <1>4 DEF OutcomesOK, Positions, State, OpKind, ActiveOps, Done
<1>19. ShownOK'
  <2>1. local.token # google'.etag
    BY <1>1, <1>2, <1>3 DEF EtagsOK
  <2>2. upload.seen.etag < google'.etag
    BY <1>7, <1>14
  <2> QED
    BY <2>1, <2>2, <1>1, <1>3 DEF ShownOK, OpKind
<1> QED
  BY <1>5, <1>8, <1>9, <1>10, <1>12, <1>13, <1>15, <1>16, <1>17, <1>18, <1>19 DEF EventOK


-----------------------------------------------------------------------------
(* Every step keeps the invariant.                                         *)

LEMMA EventInitOK == EventInit => EventOK
<1> SUFFICES ASSUME EventInit PROVE EventOK
  OBVIOUS
<1>1. PICK home \in {"here", "google"}, one \in {0, 1}, known \in BOOLEAN :
        /\ known <=> home = "google"
        /\ one = IF known THEN 1 ELSE 0
        /\ google = [is |-> IF known THEN "alive" ELSE "absent", etag |-> one, val |-> [g \in Groups |-> 0]]
        /\ local = [home |-> home, present |-> known, twin |-> FALSE,
                    base |-> [NoBase EXCEPT !.etag = one], token |-> one]
  BY DEF EventInit
<1>2. ops = <<>> /\ upload = Asleep /\ late = {}
      /\ history = [applied |-> [n \in OpIds |-> 0], foreign |-> 0]
  BY DEF EventInit
<1>3. MaxOps \in Nat /\ MaxForeign \in Nat /\ 0 \in Values
  BY BoundsAssumption DEF Values
<1>4. [g \in Groups |-> 0] \in [Groups -> Values] /\ one \in Nat
  BY <1>3
<1>5. [NoBase EXCEPT !.etag = one] = [etag |-> one, val |-> [g \in Groups |-> 0]]
  BY DEF NoBase
<1>6. /\ local.home = home /\ local.present = known /\ local.twin = FALSE /\ local.token = one
      /\ local.base = [etag |-> one, val |-> [g \in Groups |-> 0]]
      /\ google.etag = one /\ google.val = [g \in Groups |-> 0]
      /\ google.is = IF known THEN "alive" ELSE "absent"
  BY <1>1, <1>5
<1>7. local.base \in Snapshot /\ local.base = Here
  BY <1>4, <1>6 DEF Snapshot, Etags, Here
<1>8. Positions = {} /\ ~Doomed /\ ActiveOps = {} /\ Len(ops) = 0
  BY <1>2 DEF Positions, Doomed, ActiveOps
<1>9. /\ upload.answer = "none" /\ upload.at = "idle" /\ upload.members = {} /\ upload.seen = NoBase
      /\ upload.from = "pending" /\ ~Underway
  BY <1>2, AsleepTyped DEF Underway
<1>10. \A n \in OpIds : Done(n) = 0
  BY <1>2 DEF Done
<1>11. \A val : (\A g \in Groups : val[g] = 0) => Signed(val)
  BY <1>2, <1>3 DEF Signed, OpIds
<1>12. EventTypeOK
  <2>1. upload \in [at : {"idle", "lease", "reconcile", "send", "wait", "answered", "unsure"},
                 members : SUBSET OpIds, lead : 0..MaxOps, from : {"pending", "ambiguous"},
                 etag : Etags, answer : {"none", "ok", "conflict", "changed", "gone", "invalid", "retry"},
                 seen : Snapshot]
    BY <1>2, AsleepTyped
  <2>2. google \in [is : {"absent", "alive", "deleted"}, etag : Etags, val : [Groups -> Values]]
    BY <1>1, <1>4 DEF Etags
  <2>3. local \in [home : {"here", "google"}, present : BOOLEAN, base : Snapshot, twin : BOOLEAN,
                   token : Etags]
    BY <1>1, <1>4, <1>6, <1>7 DEF Etags
  <2>4. history \in [applied : [OpIds -> Nat], foreign : 0..MaxForeign]
    BY <1>2, <1>3
  <2>5. ops \in Seq(Op) /\ Len(ops) <= MaxOps
    BY <1>2, <1>3
  <2>6. late \subseteq Request
    BY <1>2
  <2> QED
    BY <2>1, <2>2, <2>3, <2>4, <2>5, <2>6 DEF EventTypeOK
<1>13. RowOK
  <2>1. ~known => local.base = NoBase
    BY <1>1, <1>6 DEF NoBase
  <2> QED
    BY <2>1, <1>1, <1>2, <1>6, <1>8 DEF RowOK
<1>14. Signed(google.val) /\ Signed(local.base.val) /\ Signed(NoBase.val)
  BY <1>6, <1>11 DEF NoBase
<1>15. GoogleOK
  BY <1>1, <1>6, <1>10, <1>14 DEF GoogleOK
<1>16. Past(local.base) /\ Past(NoBase)
  BY <1>4, <1>6, <1>14 DEF Past, NoBase
<1>17. EtagsOK
  BY <1>4, <1>6, <1>8, <1>16 DEF EtagsOK
<1>18. RequestsOK /\ UploadOK
  BY <1>2, <1>8, <1>9 DEF RequestsOK, UploadOK
<1>19. AnswerOK
  BY <1>9, <1>16 DEF AnswerOK
<1>20. OpsOK
  BY <1>2, <1>8, <1>10 DEF OpsOK, Untouched
<1>21. OnceOK /\ OutcomesOK
  BY <1>2, <1>8 DEF OnceOK, OutcomesOK
<1>22. ShownOK
  BY <1>1, <1>6, <1>7, <1>9 DEF ShownOK
<1> QED
  BY <1>12, <1>13, <1>15, <1>17, <1>18, <1>19, <1>20, <1>21, <1>22 DEF EventOK

LEMMA UploadKeeps == EventOK /\ Upload => EventOK'
<1>1. ASSUME EventOK, NEW n \in OpIds, Lease(n) \/ CancelUnsent(n) PROVE EventOK'
  BY <1>1, LeaseKeeps, CancelUnsentKeeps
<1>2. EventOK /\ (NothingToLease \/ Send \/ Answered \/ Reconcile) => EventOK'
  BY NothingToLeaseKeeps, SendKeeps, AnsweredKeeps, ReconcileKeeps
<1>3. EventOK /\ (RecordSuccess \/ FetchCurrent \/ RecordConflict \/ RecordFailure \/ RecordRetry) => EventOK'
  BY DeleteDoneKeeps, WriteDoneKeeps, FetchKeeps, RecordConflictKeeps, RecordFailureKeeps, RetryKeeps
<1> QED
  BY <1>1, <1>2, <1>3 DEF Upload

LEMMA TroubleKeeps == EventOK /\ Trouble => EventOK'
<1>1. ASSUME EventOK, NEW answer \in {"retry", "invalid"}, TurnedDown(answer) PROVE EventOK'
  BY <1>1, TurnedDownKeeps
<1>2. EventOK /\ (AnswerLost \/ TimesOut \/ ReconcileFails \/ FetchFails \/ WorkerDies) => EventOK'
  BY AnsweredKeeps, TimesOutKeeps, ReconcileKeeps, FetchKeeps, RetryKeeps
<1> QED
  BY <1>1, <1>2 DEF Trouble

LEMMA EventStutters == EventOK /\ UNCHANGED eventVars => EventOK'
<1> SUFFICES ASSUME EventOK, UNCHANGED eventVars PROVE EventOK'
  OBVIOUS
<1>1. google' = google /\ ops' = ops /\ local' = local /\ upload' = upload /\ late' = late
      /\ history' = history
  BY DEF eventVars
<1>2. /\ \A n : State(n)' = State(n) /\ OpKind(n)' = OpKind(n) /\ Done(n)' = Done(n)
      /\ \A n : (Clear(n)' <=> Clear(n)) /\ (InDoubt(n)' <=> InDoubt(n)) /\ (Untouched(n)' <=> Untouched(n))
      /\ \A n : Open(n)' <=> Open(n)
      /\ Positions' = Positions /\ ActiveOps' = ActiveOps /\ (Doomed' <=> Doomed) /\ Here' = Here
      /\ (Underway' <=> Underway)
      /\ \A n, M : GroupOK(n, M)' <=> GroupOK(n, M)
      /\ \A s : (Past(s)' <=> Past(s)) /\ (Signed(s)' <=> Signed(s))
  BY <1>1 DEF State, OpKind, Done, Clear, InDoubt, Untouched, Open, Positions, ActiveOps, Doomed, Here,
       Underway, GroupOK, Past, Signed
<1>3. EventTypeOK' /\ RowOK' /\ GoogleOK'
  BY <1>1, <1>2 DEF EventOK, EventTypeOK, RowOK, GoogleOK, Signed, Done
<1>4. EtagsOK' /\ RequestsOK' /\ UploadOK'
  BY <1>1, <1>2 DEF EventOK, EtagsOK, RequestsOK, RequestOK, UploadOK, Past, Signed, Done, GroupOK,
       State, OpKind
<1>5. AnswerOK' /\ OpsOK'
  BY <1>1, <1>2 DEF EventOK, AnswerOK, OpsOK, Past, Signed, Done, OpKind, State, Has
<1>6. OnceOK' /\ OutcomesOK' /\ ShownOK'
  BY <1>1, <1>2 DEF EventOK, OnceOK, OutcomesOK, ShownOK, OpKind, State, Has, Done
<1> QED
  BY <1>3, <1>4, <1>5, <1>6 DEF EventOK

LEMMA EventKeeps == EventOK /\ [EventNext]_eventVars => EventOK'
<1>1. ASSUME EventOK, NEW r \in late, LateArrives(r) PROVE EventOK'
  BY <1>1, LateArrivesKeeps
<1> QED
  BY <1>1, UserKeeps, ForeignKeeps, PullKeeps, UploadKeeps, TroubleKeeps, EventStutters DEF EventNext

\* The invariant holds whatever the bounds are.
LEMMA EventIsOK == EventSpec => []EventOK
  BY EventInitOK, EventKeeps, PTL DEF EventSpec

\* The variables keep their types.
THEOREM EventTyped == EventSpec => []EventTypeOK
<1>1. EventOK => EventTypeOK
  BY DEF EventOK
<1> QED
  BY <1>1, EventIsOK, PTL

LEMMA DoomedSince ==
  ASSUME EventTypeOK, RowOK, NEW n \in Positions, Doomed
  PROVE  DeletedSince(n)
<1>1. Positions = 1 .. Len(ops) /\ Len(ops) \in Nat
  BY OpsTyped
<1>2. PICK m \in Positions : OpKind(m) = "delete" /\ m = Len(ops)
  BY DEF Doomed, RowOK
<1> QED
  BY <1>1, <1>2 DEF DeletedSince, OpKind

\* A write takes effect at Google at most once, however often it is sent again, unless
\* the user deletes the event; what is recorded as done was done, and what is recorded
\* as cancelled never was.
THEOREM EventRecordedTruly == EventSpec => []RecordedTruly
<1>1. EventOK => RecordedTruly
  <2> SUFFICES ASSUME EventOK, NEW n \in Positions
               PROVE  /\ Done(n) <= 1 \/ DeletedSince(n)
                      /\ State(n) = "succeeded" =>
                           Done(n) > 0 \/ (OpKind(n) = "delete" /\ google.is = "deleted")
                      /\ State(n) = "cancelled" => Done(n) = 0
    BY DEF RecordedTruly, Done, State, OpKind
  <2>1. EventTypeOK /\ RowOK /\ OnceOK /\ OutcomesOK /\ OpsOK
    BY DEF EventOK
  <2>2. Done(n) <= 1 \/ DeletedSince(n)
    BY <2>1, DoomedSince DEF OnceOK
  <2> QED
    BY <2>1, <2>2 DEF OutcomesOK, OpsOK, Untouched
<1> QED
  BY <1>1, EventIsOK, PTL

\* The event is never shown twice; and once every edit is settled and a pull has covered
\* the last change, the row shows what Google has.
THEOREM EventInStep == EventSpec => []InStep
<1>1. EventOK => InStep
  <2> SUFFICES ASSUME EventOK PROVE InStep
    OBVIOUS
  <2>1. RowOK /\ ShownOK
    BY DEF EventOK
  <2>2. ~(local.present /\ local.twin)
    BY <2>1 DEF ShownOK
  <2>3. ASSUME ActiveOps = {}, local.token = google.etag, google.is # "absent"
        PROVE  IF google.is = "alive" THEN local.twin \/ (local.present /\ local.base = Here)
               ELSE ~local.twin /\ ~local.present
    <3>1. \A n \in Positions : ~Open(n) /\ State(n) # "conflict"
      BY <2>3 DEF ActiveOps, Open, State, Active
    <3>2. google.is = "alive" \/ google.is = "deleted"
      BY <2>3, UploadTyped DEF EventOK
    <3> QED
      BY <2>1, <2>3, <3>1, <3>2 DEF ShownOK
  <2> QED
    BY <2>2, <2>3 DEF InStep
<1> QED
  BY <1>1, EventIsOK, PTL

-----------------------------------------------------------------------------
(* What the edits that are still to be written were made on.  As long as   *)
(* nothing is deleted they agree with the row's baseline in their own      *)
(* groups: a pull or a receipt that brings another value into one of them  *)
(* puts it in conflict.                                                    *)

\* An edit that may still be sent.
Waiting(n) == OpKind(n) = "update" /\ State(n) \in {"pending", "ambiguous", "syncing"} /\ Clear(n)

\* The operation's group is in val what it was when the user made the edit.
Unchanged(n, val) == ops[n].base.val[ops[n].group] = val[ops[n].group]

WaitingOK(n) ==
  /\ Has(ops[n].base) => /\ local.present /\ Has(local.base)
                         /\ ops[n].etag = local.base.etag /\ Unchanged(n, local.base.val)
  /\ ~Has(ops[n].base) => ops[n].etag = 0
  /\ \A m \in 1 .. (n - 1) : Waiting(m) /\ Has(ops[m].base) => Has(ops[n].base)

EditsOK == ~Doomed => \A n \in Positions : Waiting(n) => WaitingOK(n)

\* What a patch on its way writes, and what the user saw there.
PatchOK(r) ==
  r.kind = "update" =>
    /\ \A g \in Groups : r.val[g] # 0 => ops[r.val[g]].group = g
    /\ ~Doomed /\ r.etag = google.etag => \A n \in r.members : Unchanged(n, google.val)

BlankOK == google.is = "absent" => \A g \in Groups : google.val[g] = 0

BaselinesOK == BlankOK /\ EditsOK /\ \A r \in late : PatchOK(r)

\* The list changes, and no edit that was done, failed or in conflict waits again.
Narrows ==
  /\ Positions' = Positions
  /\ \A n \in Positions : /\ ops'[n].kind = ops[n].kind /\ ops'[n].group = ops[n].group
                          /\ ops'[n].base = ops[n].base /\ ops'[n].etag = ops[n].etag
  /\ \A n \in Positions : Waiting(n)' => Waiting(n)

LEMMA NarrowsKeeps ==
  ASSUME EventTypeOK, EditsOK, Narrows, local' = local
  PROVE  EditsOK'
<1> SUFFICES ASSUME ~Doomed', NEW n \in Positions', Waiting(n)' PROVE WaitingOK(n)'
  BY DEF EditsOK
<1>1. Positions' = Positions /\ Positions = 1 .. Len(ops) /\ Len(ops) \in Nat /\ n \in Positions
  BY OpsTyped DEF Narrows
<1>2. ~Doomed
  BY <1>1 DEF Doomed, OpKind, Narrows
<1>3. WaitingOK(n) /\ ops'[n].base = ops[n].base /\ ops'[n].etag = ops[n].etag
      /\ ops'[n].group = ops[n].group
  BY <1>1, <1>2 DEF EditsOK, Narrows
<1>4. ASSUME NEW m \in 1 .. (n - 1), Waiting(m)', Has(ops[m].base)' PROVE Has(ops[n].base)'
  <2>1. m \in Positions
    BY <1>1
  <2>2. Waiting(m) /\ Has(ops[m].base)
    BY <2>1, <1>4 DEF Narrows, Has
  <2> QED
    BY <2>2, <1>3 DEF WaitingOK, Has
<1> QED
  BY <1>3, <1>4 DEF WaitingOK, Unchanged, Has

\* New states for operations that are underway or may be.
LEMMA InStateNarrows ==
  ASSUME EventTypeOK, NEW G, NEW s \in Active \cup Settled, NEW lead \in 0 .. MaxOps,
         ops' = InState(G, s, lead),
         \A n \in Positions : n \in G => State(n) \in {"pending", "ambiguous", "syncing"}
  PROVE  Narrows
<1>1. /\ ops' \in Seq(Op) /\ Len(ops') = Len(ops)
      /\ \A n \in Positions :
              /\ ops'[n].kind = ops[n].kind /\ ops'[n].group = ops[n].group
              /\ ops'[n].base = ops[n].base /\ ops'[n].etag = ops[n].etag
              /\ ops'[n].state = IF n \in G THEN s ELSE ops[n].state
  BY InStateTyped
<1>2. Positions = 1 .. Len(ops) /\ Len(ops) \in Nat /\ Positions' = Positions
  BY <1>1, OpsTyped DEF Positions
<1>3. ASSUME NEW n \in Positions, Waiting(n)' PROVE Waiting(n)
  <2>1. OpKind(n) = "update" /\ ops'[n].state \in {"pending", "ambiguous", "syncing"}
        /\ \A m \in 1 .. (n - 1) : ops'[m].state \notin {"failed", "conflict"}
    BY <1>1, <1>3 DEF Waiting, OpKind, State, Clear
  <2>2. State(n) \in {"pending", "ambiguous", "syncing"}
    BY <1>1, <2>1 DEF State
  <2>3. ASSUME NEW m \in 1 .. (n - 1) PROVE State(m) \notin {"failed", "conflict"}
    <3>1. m \in Positions
      BY <1>2
    <3>2. CASE m \in G
      BY <3>1, <3>2
    <3>3. CASE m \notin G
      BY <3>1, <3>3, <2>1, <1>1 DEF State
    <3> QED
      BY <3>2, <3>3
  <2> QED
    BY <2>1, <2>2, <2>3 DEF Waiting, Clear
<1> QED
  BY <1>1, <1>2, <1>3 DEF Narrows

\* A list that is about to get a new baseline: nothing is underway any more.
BeforeRebase(list) ==
  /\ list \in Seq(Op) /\ Len(list) = Len(ops) /\ DOMAIN list = Positions
  /\ \A n \in Positions :
       /\ list[n].kind = ops[n].kind /\ list[n].group = ops[n].group
       /\ list[n].base = ops[n].base /\ list[n].etag = ops[n].etag
       /\ list[n].state # "syncing"
       /\ list[n].state = ops[n].state \/ (list[n].state = "succeeded" /\ ops[n].state = "syncing")

LEMMA RebaseKeeps ==
  ASSUME EventTypeOK, EditsOK, NEW list, BeforeRebase(list), NEW s \in Snapshot, Has(s),
         IsRebased(ops', list, OldBase, s),
         ~Doomed => local'.present /\ local'.base = s
  PROVE  EditsOK'
<1> SUFFICES ASSUME ~Doomed', NEW n \in Positions', Waiting(n)' PROVE WaitingOK(n)'
  BY DEF EditsOK
<1>1. /\ ops' \in Seq(Op) /\ Len(ops') = Len(ops)
      /\ \A m \in Positions :
           /\ ops'[m].kind = list[m].kind /\ ops'[m].group = list[m].group /\ ops'[m].base = list[m].base
           /\ ops'[m].state \in {list[m].state, "conflict"}
           /\ Has(OldBase) /\ list[m].kind = "update"
              /\ list[m].state \in {"pending", "syncing", "ambiguous", "failed"}
              /\ ops'[m].state # "conflict"
              => OldBase.val[list[m].group] = s.val[list[m].group]
           /\ ops'[m].state \in {"pending", "ambiguous"} /\ Has(list[m].base) => ops'[m].etag = s.etag
           /\ ~Has(list[m].base) => ops'[m].etag = list[m].etag
  BY DEF IsRebased
<1>2. \A m \in Positions :
       /\ list[m].kind = ops[m].kind /\ list[m].group = ops[m].group
       /\ list[m].base = ops[m].base /\ list[m].etag = ops[m].etag
       /\ list[m].state # "syncing"
       /\ list[m].state = ops[m].state \/ (list[m].state = "succeeded" /\ ops[m].state = "syncing")
  BY DEF BeforeRebase
<1>3. Positions = 1 .. Len(ops) /\ Len(ops) \in Nat /\ Positions' = Positions /\ n \in Positions
  BY <1>1, OpsTyped DEF Positions
<1>4. ~Doomed
  BY <1>1, <1>2, <1>3 DEF Doomed, OpKind
<1>5. ASSUME NEW k \in Positions, Waiting(k)'
      PROVE  Waiting(k) /\ ops'[k].state = list[k].state /\ list[k].state \in {"pending", "ambiguous"}
  <2>1. OpKind(k) = "update" /\ ops'[k].state \in {"pending", "ambiguous", "syncing"}
        /\ \A m \in 1 .. (k - 1) : ops'[m].state \notin {"failed", "conflict"}
    BY <1>1, <1>2, <1>5 DEF Waiting, OpKind, State, Clear
  <2>2. ops'[k].state = list[k].state /\ list[k].state \in {"pending", "ambiguous"}
        /\ State(k) \in {"pending", "ambiguous"}
    BY <1>1, <1>2, <2>1 DEF State
  <2>3. ASSUME NEW m \in 1 .. (k - 1) PROVE State(m) \notin {"failed", "conflict"}
    <3>1. m \in Positions
      BY <1>3
    <3> QED
      BY <3>1, <2>1, <1>1, <1>2 DEF State
  <2> QED
    BY <2>1, <2>2, <2>3 DEF Waiting, Clear
<1>6. WaitingOK(n) /\ Waiting(n) /\ ops'[n].state = list[n].state
      /\ list[n].state \in {"pending", "ambiguous"}
  BY <1>3, <1>4, <1>5 DEF EditsOK
<1>7. /\ ops'[n].base = ops[n].base /\ ops'[n].group = ops[n].group
      /\ Has(ops[n].base) => ops'[n].etag = s.etag
      /\ ~Has(ops[n].base) => ops'[n].etag = ops[n].etag
      /\ Has(OldBase) => OldBase.val[ops[n].group] = s.val[ops[n].group]
  BY <1>1, <1>2, <1>3, <1>6 DEF Waiting, OpKind
<1>8. ASSUME NEW m \in 1 .. (n - 1), Waiting(m)', Has(ops[m].base)' PROVE Has(ops[n].base)'
  <2>1. m \in Positions
    BY <1>3
  <2>2. Waiting(m) /\ Has(ops[m].base)
    BY <2>1, <1>1, <1>2, <1>5, <1>8 DEF Has
  <2> QED
    BY <2>2, <1>6, <1>7 DEF WaitingOK, Has
<1>9. CASE Has(ops[n].base)
  <2>1. local.present /\ Has(local.base) /\ Unchanged(n, local.base.val)
    BY <1>6, <1>9 DEF WaitingOK
  <2>2. OldBase = local.base
    BY <2>1 DEF OldBase
  <2>3. ops[n].base.val[ops[n].group] = s.val[ops[n].group]
    BY <2>1, <2>2, <1>7 DEF Unchanged
  <2> QED
    BY <2>3, <1>4, <1>7, <1>8, <1>9 DEF WaitingOK, Unchanged, Has
<1>10. CASE ~Has(ops[n].base)
  BY <1>6, <1>7, <1>8, <1>10 DEF WaitingOK, Has
<1> QED
  BY <1>9, <1>10


\* The list goes on, and Google's event is as it was or has a new etag.
Follows ==
  /\ Positions \subseteq Positions'
  /\ \A n \in Positions : /\ ops'[n].kind = ops[n].kind /\ ops'[n].group = ops[n].group
                          /\ ops'[n].base = ops[n].base
  /\ google' = google \/ google'.etag > google.etag

LEMMA PatchStays ==
  ASSUME EventTypeOK, Follows, NEW r, r \in Request, RequestOK(r), PatchOK(r)
  PROVE  PatchOK(r)'
<1> SUFFICES ASSUME r.kind = "update"
             PROVE  /\ \A g \in Groups : r.val[g] # 0 => ops'[r.val[g]].group = g
                    /\ ~Doomed' /\ r.etag = google'.etag => \A n \in r.members : Unchanged(n, google.val)'
  BY DEF PatchOK
<1>1. /\ r.members \subseteq Positions /\ r.etag <= google.etag
      /\ r.etag \in Nat /\ google.etag \in Nat
      /\ \A g \in Groups : r.val[g] \in r.members \cup {0}
  BY UploadTyped DEF RequestOK, GroupOK, Request, Etags
<1>2. \A g \in Groups : r.val[g] # 0 => ops'[r.val[g]].group = g
  BY <1>1 DEF PatchOK, Follows
<1>3. ASSUME ~Doomed', r.etag = google'.etag, NEW n \in r.members
      PROVE  ops'[n].base.val[ops'[n].group] = google'.val[ops'[n].group]
  <2>1. google' = google
    BY <1>1, <1>3 DEF Follows
  <2>2. ~Doomed
    BY <1>3 DEF Doomed, OpKind, Follows
  <2>3. Unchanged(n, google.val) /\ n \in Positions
    BY <2>1, <2>2, <1>1, <1>3 DEF PatchOK
  <2> QED
    BY <2>1, <2>3 DEF Unchanged, Follows
<1> QED
  BY <1>2, <1>3 DEF Unchanged

\* The write of an upload is one of edits that may still be sent.
LEMMA WritingIsPatch ==
  ASSUME EventOK, EditsOK, upload.at = "wait"
  PROVE  PatchOK(Writing)
<1>1. EventTypeOK /\ UploadOK /\ EtagsOK
  BY DEF EventOK
<1>2. Underway
  BY DEF Underway
<1>3. /\ upload.lead \in upload.members /\ upload.members \subseteq Positions
      /\ upload.lead \in Positions
      /\ \A n \in upload.members : InDoubt(n)
  BY <1>1, <1>2, UnderwayIsDoubt
<1>4. /\ \A n \in Positions : State(n) = "syncing" <=> n \in upload.members
      /\ upload.etag = ops[upload.lead].etag /\ GroupOK(upload.lead, upload.members)
      /\ OpKind(upload.lead) # "create" => upload.etag # 0
  BY <1>1, <1>2 DEF UploadOK
<1>5. /\ Writing.kind = OpKind(upload.lead) /\ Writing.etag = upload.etag
      /\ Writing.val = Patch(upload.members) /\ Writing.members = upload.members
  BY DEF Writing, OpKind
<1>6. SUFFICES ASSUME OpKind(upload.lead) = "update" PROVE PatchOK(Writing)
  BY <1>5 DEF PatchOK
<1>7. \A n \in upload.members : OpKind(n) = "update" /\ n >= upload.lead
  BY <1>4, <1>6 DEF GroupOK
<1>8. \A g \in Groups : Patch(upload.members)[g] # 0 => ops[Patch(upload.members)[g]].group = g
  BY <1>1, <1>3, <1>7, PatchOf
<1>9. ASSUME ~Doomed, upload.etag = google.etag, NEW n \in upload.members
      PROVE  Unchanged(n, google.val)
  <2>1. Waiting(n) /\ Waiting(upload.lead) /\ n \in Positions
    BY <1>3, <1>7 DEF Waiting, InDoubt
  <2>2. WaitingOK(n) /\ WaitingOK(upload.lead)
    BY <2>1, <1>3, <1>9 DEF EditsOK
  <2>3. Has(ops[upload.lead].base) /\ local.base.etag = google.etag /\ Has(local.base)
    BY <2>2, <1>4, <1>6, <1>9 DEF WaitingOK
  <2>4. Has(ops[n].base)
    <3>1. n \in Nat /\ upload.lead \in Nat /\ n >= upload.lead
      BY <2>1, <1>1, <1>3, <1>7, OpsTyped
    <3>2. n = upload.lead \/ upload.lead \in 1 .. (n - 1)
      <4>1. upload.lead \in 1 .. Len(ops)
        BY <1>1, <1>3, OpsTyped
      <4> QED
        BY <3>1, <4>1
    <3> QED
      BY <3>2, <2>1, <2>2, <2>3 DEF WaitingOK
  <2>5. local.base.val = google.val
    BY <2>3, <1>1 DEF EtagsOK, Past, Has
  <2> QED
    BY <2>2, <2>4, <2>5 DEF WaitingOK, Unchanged
<1> QED
  BY <1>5, <1>8, <1>9 DEF PatchOK

\* Requests come from the upload and go to Google.
LEMMA PatchesStay ==
  ASSUME EventOK, BaselinesOK, Follows,
         late' \subseteq late \/ (upload.at = "wait" /\ late' = late \cup {Writing})
  PROVE  \A r \in late' : PatchOK(r)'
<1>1. EventTypeOK /\ RequestsOK /\ EditsOK
  BY DEF EventOK, BaselinesOK
<1>2. \A r \in late : r \in Request /\ RequestOK(r) /\ PatchOK(r)
  BY <1>1, UploadTyped DEF RequestsOK, BaselinesOK
<1>3. upload.at = "wait" => Writing \in Request /\ RequestOK(Writing) /\ PatchOK(Writing)
  BY <1>1, WritingOK, WritingIsPatch
<1>4. \A r \in late' : r \in Request /\ RequestOK(r) /\ PatchOK(r)
  BY <1>2, <1>3
<1> QED
  BY <1>1, <1>4, PatchStays

\* Google, the upload and its requests move, the list and the row do not.
LEMMA ElsewhereKeeps ==
  ASSUME EventOK, BaselinesOK, UNCHANGED <<ops, local>>,
         google' = google \/ google'.etag > google.etag, BlankOK',
         late' \subseteq late \/ (upload.at = "wait" /\ late' = late \cup {Writing})
  PROVE  BaselinesOK'
<1>1. EventTypeOK /\ EditsOK
  BY DEF EventOK, BaselinesOK
<1>2. Follows
  BY DEF Follows, Positions
<1>3. Narrows
  BY DEF Narrows, Positions, Waiting, OpKind, State, Clear
<1>4. EditsOK'
  BY <1>1, <1>3, NarrowsKeeps
<1>5. \A r \in late' : PatchOK(r)'
  BY <1>2, PatchesStay
<1> QED
  BY <1>4, <1>5 DEF BaselinesOK

\* The states of the list move, Google and the row do not.
LEMMA NarrowedKeeps ==
  ASSUME EventOK, BaselinesOK, Narrows, UNCHANGED <<google, local>>,
         late' \subseteq late \/ (upload.at = "wait" /\ late' = late \cup {Writing})
  PROVE  BaselinesOK'
<1>1. EventTypeOK /\ EditsOK /\ BlankOK
  BY DEF EventOK, BaselinesOK
<1>2. Follows
  BY DEF Follows, Narrows
<1>3. EditsOK' /\ BlankOK'
  BY <1>1, NarrowsKeeps DEF BlankOK
<1>4. \A r \in late' : PatchOK(r)'
  BY <1>2, PatchesStay
<1> QED
  BY <1>3, <1>4 DEF BaselinesOK


\* The steps that leave the list and the row alone.
LEMMA ElsewhereBaselines ==
  ASSUME EventOK, BaselinesOK,
         \/ Send \/ Reconcile \/ ReconcileFails \/ FetchCurrent \/ FetchFails \/ NothingToLease
         \/ Answered \/ AnswerLost \/ TimesOut \/ Foreign
         \/ (\E answer \in {"retry", "invalid"} : TurnedDown(answer))
         \/ (\E r \in late : LateArrives(r))
         \/ UNCHANGED eventVars
  PROVE  BaselinesOK'
<1>1. BlankOK /\ google.etag \in Nat
  BY UploadTyped DEF EventOK, BaselinesOK
<1>2. ASSUME UNCHANGED google PROVE BlankOK'
  BY <1>1, <1>2 DEF BlankOK
<1>3. CASE Send \/ Reconcile \/ ReconcileFails \/ FetchCurrent \/ FetchFails \/ NothingToLease
           \/ (\E answer \in {"retry", "invalid"} : TurnedDown(answer)) \/ UNCHANGED eventVars
  <2>1. UNCHANGED <<google, ops, local, late>>
    BY <1>3 DEF Send, Reconcile, ReconcileFails, FetchCurrent, FetchFails, NothingToLease, TurnedDown,
         eventVars
  <2> QED
    BY <2>1, <1>2, ElsewhereKeeps
<1>4. CASE TimesOut
  <2>1. UNCHANGED <<google, ops, local>> /\ upload.at = "wait" /\ late' = late \cup {Writing}
    BY <1>4 DEF TimesOut
  <2> QED
    BY <2>1, <1>2, ElsewhereKeeps
<1>5. ASSUME NEW r, Receives(r)
      PROVE  (google' = google \/ google'.etag > google.etag) /\ BlankOK'
  <2>1. CASE Accepts(r)
    <3>1. google'.etag = google.etag + 1 /\ google'.is \in {"alive", "deleted"}
      BY <1>5, <2>1 DEF Receives, Commit
    <3> QED
      BY <3>1, <1>1 DEF BlankOK
  <2>2. CASE ~Accepts(r)
    BY <1>2, <1>5, <2>2 DEF Receives
  <2> QED
    BY <2>1, <2>2
<1>6. CASE Answered \/ AnswerLost
  <2>1. PICK r : r = Writing
    OBVIOUS
  <2>2. Receives(r) /\ UNCHANGED <<ops, local, late>>
    BY <1>6, <2>1 DEF Answered, AnswerLost
  <2> QED
    BY <2>2, <1>5, ElsewhereKeeps
<1>7. ASSUME NEW r \in late, LateArrives(r) PROVE BaselinesOK'
  <2>1. Receives(r) /\ UNCHANGED <<ops, local>> /\ late' \subseteq late
    BY <1>7 DEF LateArrives
  <2> QED
    BY <2>1, <1>5, ElsewhereKeeps
<1>8. CASE Foreign
  <2>1. /\ google'.etag = google.etag + 1 /\ google'.is \in {"alive", "deleted"}
        /\ UNCHANGED <<ops, local, late>>
    <3>1. google.is = "alive" /\ google \in [is : {"absent", "alive", "deleted"}, etag : Etags,
                                              val : [Groups -> Values]]
      BY <1>8 DEF Foreign, ForeignWrite, ForeignDelete, EventOK, EventTypeOK
    <3>2. ASSUME NEW g \in Groups, ForeignWrite(g) PROVE google'.etag = google.etag + 1 /\ google'.is = "alive"
      BY <3>1, <3>2 DEF ForeignWrite
    <3>3. ForeignDelete => google'.etag = google.etag + 1 /\ google'.is = "deleted"
      BY <3>1 DEF ForeignDelete
    <3> QED
      BY <1>8, <3>2, <3>3 DEF Foreign, ForeignWrite, ForeignDelete
  <2>2. BlankOK' /\ google'.etag > google.etag
    BY <2>1, <1>1 DEF BlankOK
  <2> QED
    BY <2>1, <2>2, ElsewhereKeeps
<1> QED
  BY <1>3, <1>4, <1>6, <1>7, <1>8

\* The steps that only move the states of the list.
LEMMA NarrowedBaselines ==
  ASSUME EventOK, BaselinesOK,
         \/ RecordRetry \/ RecordFailure \/ WorkerDies
         \/ (\E n \in OpIds : Lease(n) \/ CancelUnsent(n))
  PROVE  BaselinesOK'
<1>1. EventTypeOK /\ UploadOK /\ RowOK
  BY DEF EventOK
<1>2. 0 \in 0 .. MaxOps /\ upload.lead \in 0 .. MaxOps /\ upload.from \in Active \cup Settled
      /\ {"failed", "ambiguous", "syncing", "cancelled"} \subseteq Active \cup Settled
  BY <1>1, UploadTyped, BoundsAssumption DEF Active, Settled
<1>3. \A n \in Positions : n \in upload.members => State(n) \in {"pending", "ambiguous", "syncing"}
  BY <1>1 DEF UploadOK
<1>4. CASE RecordRetry \/ RecordFailure \/ WorkerDies
  <2>1. PICK s \in Active \cup Settled, lead \in 0 .. MaxOps : ops' = InState(upload.members, s, lead)
    <3>1. RecordRetry => ops' = InState(upload.members, upload.from, upload.lead)
      BY DEF RecordRetry, RetryState
    <3>2. RecordFailure => ops' = InState(upload.members, "failed", 0)
      BY DEF RecordFailure
    <3>3. WorkerDies => ops' = InState(upload.members, "ambiguous", upload.lead)
      BY DEF WorkerDies
    <3> QED
      BY <1>2, <1>4, <3>1, <3>2, <3>3
  <2>2. Narrows
    BY <2>1, <1>1, <1>3, InStateNarrows
  <2>3. UNCHANGED <<google, local>>
        /\ (late' \subseteq late \/ (upload.at = "wait" /\ late' = late \cup {Writing}))
    BY <1>4 DEF RecordRetry, RecordFailure, WorkerDies
  <2> QED
    BY <2>2, <2>3, NarrowedKeeps
<1>5. ASSUME NEW n \in OpIds, Lease(n) PROVE BaselinesOK'
  <2>1. PICK e \in n .. Len(ops) : Begins(n, e)
    BY <1>5, LeaseBegins
  <2>2. /\ n \in Positions /\ Positions = 1 .. Len(ops) /\ Len(ops) \in Nat
        /\ \A k \in n .. e : State(k) \in {"pending", "ambiguous"}
        /\ ops' \in Seq(Op) /\ Len(ops') = Len(ops) /\ UNCHANGED <<google, local, late, history>>
        /\ \A k \in Positions :
             /\ ops'[k].kind = ops[k].kind /\ ops'[k].group = ops[k].group
             /\ ops'[k].base = ops[k].base /\ ops'[k].etag = ops[k].etag
             /\ ops'[k].state = IF k \in n .. e THEN "syncing" ELSE State(k)
    BY <1>1, <2>1, OpsTyped DEF Begins
  <2>3. ASSUME NEW k \in Positions, Waiting(k)' PROVE Waiting(k)
    <3>1. OpKind(k) = "update" /\ ops'[k].state \in {"pending", "ambiguous", "syncing"}
          /\ \A m \in 1 .. (k - 1) : ops'[m].state \notin {"failed", "conflict"}
      BY <2>2, <2>3 DEF Waiting, OpKind, State, Clear
    <3>2. State(k) \in {"pending", "ambiguous", "syncing"}
      BY <2>2, <3>1
    <3>3. ASSUME NEW m \in 1 .. (k - 1) PROVE State(m) \notin {"failed", "conflict"}
      <4>1. m \in Positions
        BY <2>2
      <4>2. CASE m \in n .. e
        BY <4>2, <2>2
      <4>3. CASE m \notin n .. e
        BY <4>1, <4>3, <2>2, <3>1
      <4> QED
        BY <4>2, <4>3
    <3> QED
      BY <3>1, <3>2, <3>3 DEF Waiting, Clear
  <2>4. Narrows
    BY <2>2, <2>3 DEF Narrows, Positions
  <2> QED
    BY <2>2, <2>4, NarrowedKeeps
<1>6. ASSUME NEW n \in OpIds, CancelUnsent(n) PROVE BaselinesOK'
  <2>1. /\ n \in Positions /\ CancelGroup(n) # {} /\ State(n) \in {"pending", "ambiguous"}
        /\ ops' = InState(CancelGroup(n), "cancelled", 0) /\ UNCHANGED <<google, local, late>>
    BY <1>6 DEF CancelUnsent, Leasable, Leader, State
  <2>2. CancelGroup(n) = n .. Len(ops) /\ n < Len(ops) /\ \A k \in (n + 1) .. Len(ops) : Joins(n, k)
    BY <2>1, <1>1, CancelGroupIsTheRest
  <2>3. ASSUME NEW k \in Positions, k \in n .. Len(ops) PROVE State(k) \in {"pending", "ambiguous", "syncing"}
    <3>1. k = n \/ k \in (n + 1) .. Len(ops)
      BY <2>1, <2>3, <1>1, OpsTyped
    <3> QED
      BY <3>1, <2>1, <2>2 DEF Joins, State
  <2>4. Narrows
    <3>1. PICK G : G = CancelGroup(n)
      OBVIOUS
    <3>2. ops' = InState(G, "cancelled", 0)
          /\ \A k \in Positions : k \in G => State(k) \in {"pending", "ambiguous", "syncing"}
      BY <3>1, <2>1, <2>2, <2>3
    <3> QED
      BY <3>2, <1>1, <1>2, InStateNarrows
  <2> QED
    BY <2>1, <2>4, NarrowedKeeps
<1> QED
  BY <1>4, <1>5, <1>6


\* Nothing waits in the new list.
LEMMA NothingWaits ==
  ASSUME EventOK, BaselinesOK, Follows, UNCHANGED google, late' = late,
         ~Doomed' => \A n \in Positions' : ~Waiting(n)'
  PROVE  BaselinesOK'
<1>1. EditsOK' /\ BlankOK'
  BY DEF EditsOK, BlankOK, BaselinesOK
<1>2. \A r \in late' : PatchOK(r)'
  BY PatchesStay
<1> QED
  BY <1>1, <1>2 DEF BaselinesOK

\* A conflict stops whatever is queued behind it.
LEMMA ConflictBaselines ==
  ASSUME EventOK, BaselinesOK, RecordConflict
  PROVE  BaselinesOK'
<1>1. EventTypeOK /\ UploadOK /\ Underway /\ UNCHANGED <<google, late>>
      /\ ops' = InState(upload.members, "conflict", 0)
  BY DEF EventOK, RecordConflict, Underway
<1>2. 0 \in 0 .. MaxOps /\ "conflict" \in Active \cup Settled
  BY BoundsAssumption DEF Active
<1>3. /\ ops' \in Seq(Op) /\ Len(ops') = Len(ops)
      /\ \A n \in Positions :
              /\ ops'[n].kind = ops[n].kind /\ ops'[n].group = ops[n].group
              /\ ops'[n].base = ops[n].base
              /\ ops'[n].state = IF n \in upload.members THEN "conflict" ELSE ops[n].state
  <2>1. PICK G : G = upload.members
    OBVIOUS
  <2>2. ops' = InState(G, "conflict", 0)
    BY <1>1, <2>1
  <2> QED
    BY <2>1, <2>2, <1>1, <1>2, InStateTyped
<1>4. Positions = 1 .. Len(ops) /\ Len(ops) \in Nat /\ Positions' = Positions
  BY <1>1, <1>3, OpsTyped DEF Positions
<1>5. upload.lead \in upload.members /\ upload.lead \in Positions
      /\ \A m \in 1 .. (upload.lead - 1) : State(m) \in Settled
  BY <1>1, UnderwayIsDoubt DEF UploadOK, GroupOK
<1>6. ASSUME NEW n \in Positions, Waiting(n)' PROVE FALSE
  <2>1. ops'[n].state \in {"pending", "ambiguous", "syncing"}
        /\ \A m \in 1 .. (n - 1) : ops'[m].state \notin {"failed", "conflict"}
    BY <1>6 DEF Waiting, State, Clear
  <2>2. n \notin upload.members /\ State(n) \notin Settled
    BY <1>3, <2>1 DEF State, Settled
  <2>3. upload.lead \in 1 .. (n - 1)
    <3>1. n \notin 1 .. (upload.lead - 1) /\ n # upload.lead
      BY <1>5, <2>2
    <3>2. n \in 1 .. Len(ops) /\ upload.lead \in 1 .. Len(ops)
      BY <1>4, <1>5
    <3> QED
      BY <3>1, <3>2, <1>4
  <2> QED
    BY <2>1, <2>3, <1>3, <1>5
<1>7. Follows
  BY <1>1, <1>3, <1>4 DEF Follows
<1> QED
  BY <1>1, <1>4, <1>6, <1>7, NothingWaits

\* A receipt gives the row a new baseline, unless it is of a delete.
LEMMA ReceiptBaselines ==
  ASSUME EventOK, BaselinesOK, RecordSuccess
  PROVE  BaselinesOK'
<1>1. EventTypeOK /\ UploadOK /\ AnswerOK /\ Underway /\ UNCHANGED <<google, late>> /\ EditsOK
  BY DEF EventOK, BaselinesOK, RecordSuccess, Underway
<1>2. 0 \in 0 .. MaxOps /\ "succeeded" \in Active \cup Settled
  BY BoundsAssumption DEF Settled
<1>3. upload.lead \in Positions /\ upload.seen \in Snapshot
      /\ \A n \in Positions : State(n) = "syncing" <=> n \in upload.members
  BY <1>1, UnderwayIsDoubt, UploadTyped DEF UploadOK
<1>4. PICK done : done = InState(upload.members, "succeeded", 0)
  OBVIOUS
<1>5. IsInState(done, upload.members, "succeeded", 0)
  <2>1. PICK G : G = upload.members
    OBVIOUS
  <2>2. IsInState(done, G, "succeeded", 0)
    BY <2>1, <1>1, <1>2, <1>4, ListInState
  <2> QED
    BY <2>1, <2>2
<1>6. BeforeRebase(done)
  BY <1>3, <1>5 DEF IsInState, BeforeRebase, State
<1>7. CASE OpKind(upload.lead) = "delete"
  <2>1. ops' = done
    BY <1>4, <1>7 DEF RecordSuccess, OpKind
  <2>2. Positions' = Positions /\ \A n \in Positions : ops'[n].kind = ops[n].kind
          /\ ops'[n].group = ops[n].group /\ ops'[n].base = ops[n].base
    BY <2>1, <1>5 DEF IsInState, Positions
  <2>3. Follows /\ Doomed'
    BY <2>2, <1>1, <1>3, <1>7 DEF Follows, Doomed, OpKind
  <2> QED
    BY <2>3, <1>1, NothingWaits
<1>8. CASE OpKind(upload.lead) # "delete"
  <2>1. /\ ops' = Rebased(done, OldBase, upload.seen) /\ local' = Projected(done, upload.seen)
        /\ upload.answer = "ok"
    BY <1>4, <1>8 DEF RecordSuccess, OpKind
  <2>2. Has(upload.seen) /\ OldBase \in Snapshot
    BY <2>1, <1>1, HereIsPast DEF AnswerOK, OldBase
  <2>3. done \in Seq(Op) /\ Len(done) = Len(ops) /\ DOMAIN done = Positions
        /\ \A n \in Positions : done[n].kind = ops[n].kind
    BY <1>6 DEF BeforeRebase
  <2>4. PICK old, new \in Snapshot : old = OldBase /\ new = upload.seen
    BY <1>3, <2>2
  <2>5. PICK f : f = Rebased(done, old, new)
    OBVIOUS
  <2>6. IsRebased(f, done, old, new)
    BY <2>3, <2>5, <1>1, ListRebased
  <2>7. ops' = f
    BY <2>1, <2>4, <2>5
  <2>8. IsRebased(ops', done, OldBase, new)
    BY <2>4, <2>6, <2>7
  <2>9. ~Doomed => local'.present /\ local'.base = new
    <3>1. /\ Projected(done, new).present =>  Projected(done, new).base = new
          /\ ~Projected(done, new).present =>
              \E n \in Positions : OpKind(n) = "delete" /\ done[n].state \in Active
      BY <2>3, <1>1, ProjectedTyped
    <3> QED
      BY <3>1, <2>1, <2>4 DEF Doomed
  <2>10. EditsOK'
    <3>1. Has(new)
      BY <2>2, <2>4
    <3> QED
      BY <3>1, <2>8, <2>9, <1>1, <1>6, RebaseKeeps
  <2>11. Positions' = Positions /\ \A n \in Positions : ops'[n].kind = ops[n].kind
          /\ ops'[n].group = ops[n].group /\ ops'[n].base = ops[n].base
    BY <2>8, <1>6 DEF IsRebased, BeforeRebase, Positions
  <2>12. Follows
    BY <2>11, <1>1 DEF Follows
  <2>13. \A r \in late' : PatchOK(r)'
    BY <2>12, <1>1, PatchesStay
  <2> QED
    BY <2>10, <2>13, <1>1 DEF BaselinesOK, BlankOK
<1> QED
  BY <1>7, <1>8

\* A pull of a live event gives the row a new baseline; one of a deleted event puts
\* every edit in conflict.
LEMMA PullBaselines ==
  ASSUME EventOK, BaselinesOK, Pull
  PROVE  BaselinesOK'
<1>1. EventTypeOK /\ UploadOK /\ RowOK /\ EditsOK /\ UNCHANGED <<google, late>> /\ upload.at = "idle"
  BY DEF EventOK, BaselinesOK, Pull
<1>2. /\ ops \in Seq(Op) /\ Len(ops) \in Nat /\ Positions = 1 .. Len(ops) /\ DOMAIN ops = Positions
      /\ \A n \in Positions : State(n) \in Active \cup Settled /\ State(n) # "syncing"
  <2>1. upload.members = {}
    BY <1>1 DEF UploadOK, Underway
  <2> QED
    BY <2>1, <1>1, OpsTyped DEF EventTypeOK, UploadOK
<1>3. /\ google.is = "alive" => Has(Here)
      /\ Here \in Snapshot /\ OldBase \in Snapshot
  <2>1. google.is = "alive" => google.etag # 0
    BY <1>1, UploadTyped DEF EventOK, GoogleOK
  <2> QED
    BY <2>1, HereIsPast DEF OldBase, Has, Here
<1>4. CASE google.etag = local.token
  <2>1. UNCHANGED <<ops, local>>
    BY <1>4 DEF Pull
  <2> QED
    BY <2>1, <1>1, ElsewhereKeeps DEF BaselinesOK, BlankOK
<1>5. CASE google.etag # local.token /\ google.is = "alive" /\ FindsRow
  <2>1. /\ ops' = Rebased(ops, OldBase, Here)
        /\ local' = [Projected(ops, Here) EXCEPT !.token = google.etag, !.twin = FALSE]
    BY <1>5 DEF Pull, PullLive
  <2>2. BeforeRebase(ops)
    BY <1>2 DEF BeforeRebase, State
  <2>3. PICK old, new \in Snapshot : old = OldBase /\ new = Here
    BY <1>3
  <2>4. PICK f, list : f = Rebased(list, old, new) /\ list = ops
    OBVIOUS
  <2>5. IsRebased(f, list, old, new)
    <3>1. list \in Seq(Op) /\ Len(list) = Len(ops)
      BY <2>4, <1>2
    <3> QED
      BY <3>1, <2>4, <1>1, ListRebased
  <2>6. ops' = f /\ BeforeRebase(list)
    BY <2>1, <2>2, <2>3, <2>4
  <2>7. IsRebased(ops', list, OldBase, new)
    BY <2>3, <2>5, <2>6
  <2>8. ~Doomed => local'.present /\ local'.base = new
    <3>1. /\ Projected(list, new) \in [home : {"here", "google"}, present : BOOLEAN, base : Snapshot,
                                    twin : BOOLEAN, token : Etags]
          /\ Projected(list, new).present =>  Projected(list, new).base = new
          /\ ~Projected(list, new).present =>
              \E n \in Positions : OpKind(n) = "delete" /\ list[n].state \in Active
      <4>1. DOMAIN list = Positions /\ \A n \in Positions : list[n].kind = ops[n].kind
        BY <2>4, <1>2
      <4> QED
        BY <4>1, <1>1, ProjectedTyped
    <3>2. local' = [Projected(list, new) EXCEPT !.token = google.etag, !.twin = FALSE]
      BY <2>1, <2>3, <2>4
    <3>3. local'.present = Projected(list, new).present /\ local'.base = Projected(list, new).base
      BY <3>1, <3>2
    <3> QED
      BY <3>1, <3>3 DEF Doomed
  <2>9. EditsOK'
    <3>1. Has(new)
      BY <2>3, <1>3, <1>5
    <3> QED
      BY <3>1, <2>6, <2>7, <2>8, <1>1, RebaseKeeps
  <2>10. Positions' = Positions /\ \A n \in Positions : ops'[n].kind = ops[n].kind
          /\ ops'[n].group = ops[n].group /\ ops'[n].base = ops[n].base
    BY <2>4, <2>7 DEF IsRebased, Positions
  <2>11. Follows
    BY <2>10, <1>1 DEF Follows
  <2>12. \A r \in late' : PatchOK(r)'
    BY <2>11, <1>1, PatchesStay
  <2> QED
    BY <2>9, <2>12, <1>1 DEF BaselinesOK, BlankOK
<1>6. CASE google.etag # local.token /\ google.is # "alive" /\ FindsRow
  <2>1. ops' = [n \in Positions |-> IF n \in ActiveOps
                                      THEN [ops[n] EXCEPT !.state = "conflict"] ELSE ops[n]]
    BY <1>6 DEF Pull, PullDeleted
  <2>2. ASSUME NEW n \in Positions
        PROVE  /\ ops'[n].kind = ops[n].kind /\ ops'[n].group = ops[n].group
               /\ ops'[n].base = ops[n].base
               /\ ops'[n].state = IF n \in ActiveOps THEN "conflict" ELSE ops[n].state
    <3>1. ops[n] \in Op
      BY <1>1, OpsTyped
    <3> QED
      BY <3>1, <2>1 DEF Op
  <2>3. Positions' = Positions
    <3>1. DOMAIN ops' = 1 .. Len(ops)
      BY <2>1, <1>2
    <3>2. ops' \in Seq(Op)
      BY PullKeeps DEF EventOK, EventTypeOK
    <3> QED
      BY <3>1, <3>2, <1>2 DEF Positions
  <2>4. \A n \in Positions' : ~Waiting(n)'
    BY <2>2, <2>3 DEF Waiting, State, ActiveOps, Active
  <2>5. Follows
    BY <2>2, <2>3, <1>1 DEF Follows
  <2> QED
    BY <2>4, <2>5, <1>1, NothingWaits
<1>7. CASE google.etag # local.token /\ ~FindsRow
  <2>1. ops' = ops /\ ~local.present
    BY <1>7 DEF Pull, PullLive, PullDeleted, FindsRow
  <2>2. Follows
    BY <2>1, <1>1 DEF Follows, Positions
  <2>3. ASSUME ~Doomed, NEW n \in Positions PROVE ~Waiting(n)
    BY <2>1, <2>3, <1>1 DEF RowOK, Waiting, ActiveOps, Active, State
  <2>4. ~Doomed' => \A n \in Positions' : ~Waiting(n)'
    BY <2>1, <2>3 DEF Doomed, Positions, OpKind, Waiting, State, Clear
  <2> QED
    BY <2>2, <2>4, <1>1, NothingWaits
<1> QED
  BY <1>4, <1>5, <1>6, <1>7


\* The user adds an edit, made on the row's baseline.
LEMMA UserBaselines ==
  ASSUME EventOK, BaselinesOK, User
  PROVE  BaselinesOK'
<1>1. EventTypeOK /\ RowOK /\ EditsOK /\ UNCHANGED <<google, late>>
  BY DEF EventOK, BaselinesOK, User, Create, Update, Delete
<1>2. /\ ops \in Seq(Op) /\ Len(ops) \in Nat /\ Positions = 1 .. Len(ops)
  BY <1>1, OpsTyped DEF EventTypeOK
<1>3. CASE Create
  <2>1. PICK g \in Groups : ops' = <<Queued("create", g)>> /\ ops = <<>>
    BY <1>3 DEF Create
  <2>2. Positions = {} /\ Positions' = {1} /\ ops'[1].kind = "create"
    BY <2>1 DEF Positions, Queued
  <2>3. Follows /\ \A n \in Positions' : ~Waiting(n)'
    BY <2>2, <1>1 DEF Follows, Waiting, OpKind
  <2> QED
    BY <2>3, <1>1, NothingWaits
<1>4. ASSUME NEW op, ops' = Append(ops, op), op \in Op
      PROVE  /\ Positions' = 1 .. (Len(ops) + 1) /\ ops'[Len(ops) + 1] = op
             /\ \A n \in Positions : ops'[n] = ops[n]
             /\ Follows
  <2>1. /\ Positions' = 1 .. (Len(ops) + 1) /\ ops'[Len(ops) + 1] = op
        /\ \A n \in Positions : ops'[n] = ops[n]
    BY <1>2, <1>4 DEF Positions
  <2> QED
    BY <2>1, <1>1, <1>2 DEF Follows
<1>5. CASE Delete
  <2>1. PICK g \in Groups : ops' = Append(ops, Queued("delete", g))
    BY <1>5 DEF Delete
  <2>2. PICK op : op = Queued("delete", g)
    OBVIOUS
  <2>3. op \in Op /\ op.kind = "delete" /\ ops' = Append(ops, op)
    BY <2>1, <2>2, QueuedTyped DEF Kinds
  <2>4. /\ Positions' = 1 .. (Len(ops) + 1) /\ ops'[Len(ops) + 1] = op /\ Follows
    BY <2>3, <1>4
  <2>5. Doomed'
    BY <2>3, <2>4, <1>2 DEF Doomed, OpKind
  <2> QED
    BY <2>4, <2>5, <1>1, NothingWaits
<1>6. ASSUME NEW g \in Groups, Update(g) PROVE BaselinesOK'
  <2>1. PICK op : op = Queued("update", g)
    OBVIOUS
  <2>2. op \in Op /\ op.kind = "update" /\ ops' = Append(ops, op) /\ UNCHANGED local /\ local.present
        /\ op.base = local.base /\ op.etag = local.base.etag
    BY <2>1, <1>6, QueuedTyped DEF Kinds, Update, Queued
  <2>3. PICK k \in Nat : k = Len(ops) + 1
    BY <1>2
  <2>4. /\ Positions' = 1 .. k /\ ops'[k] = op /\ Positions = 1 .. (k - 1)
        /\ \A n \in Positions : ops'[n] = ops[n]
        /\ Follows
    BY <2>2, <2>3, <1>2, <1>4
  <2>5. ASSUME ~Doomed', NEW n \in Positions', Waiting(n)' PROVE WaitingOK(n)'
    <3>1. ~Doomed
      BY <2>4, <2>5 DEF Doomed, OpKind
    <3>2. \A m \in Positions : /\ ops'[m] = ops[m] /\ m \in 1 .. (k - 1) /\ m # k
                               /\ (Waiting(m)' => Waiting(m)) /\ (Waiting(m) => WaitingOK(m))
      <4>1. ASSUME NEW m \in Positions, Waiting(m)' PROVE Waiting(m)
        <5>1. \A j \in 1 .. (m - 1) : ops'[j] = ops[j]
          BY <2>4
        <5> QED
          BY <2>4, <4>1, <5>1 DEF Waiting, OpKind, State, Clear
      <4> QED
        BY <2>4, <3>1, <4>1, <1>1 DEF EditsOK
    <3>3. CASE n \in Positions
      <4>1. WaitingOK(n) /\ \A m \in 1 .. (n - 1) : m \in Positions
        BY <2>4, <2>5, <3>2, <3>3
      <4> QED
        BY <2>2, <3>2, <3>3, <4>1 DEF WaitingOK, Unchanged, Has
    <3>4. CASE n \notin Positions
      <4>1. n = k
        BY <2>4, <3>4
      <4>2. ASSUME NEW m \in 1 .. (k - 1), Waiting(m)', Has(ops[m].base)' PROVE Has(local.base)
        <5>1. m \in Positions /\ Waiting(m) /\ Has(ops[m].base)
          BY <4>2, <2>4, <3>2 DEF Has
        <5> QED
          BY <5>1, <3>2 DEF WaitingOK
      <4>3. Has(local.base) \/ local.base.etag = 0
        BY DEF Has
      <4> QED
        BY <2>2, <2>4, <4>1, <4>2, <4>3 DEF WaitingOK, Unchanged, Has
    <3> QED
      BY <3>3, <3>4
  <2>6. EditsOK'
    BY <2>5 DEF EditsOK
  <2>7. \A r \in late' : PatchOK(r)'
    BY <2>4, <1>1, PatchesStay
  <2> QED
    BY <2>6, <2>7, <1>1 DEF BaselinesOK, BlankOK
<1> QED
  BY <1>3, <1>5, <1>6 DEF User

LEMMA BaselinesInit == EventInit => BaselinesOK
<1> SUFFICES ASSUME EventInit PROVE BaselinesOK
  OBVIOUS
<1>1. google.val = [g \in Groups |-> 0] /\ Positions = {} /\ late = {}
  BY DEF EventInit, Positions
<1> QED
  BY <1>1 DEF BaselinesOK, BlankOK, EditsOK

LEMMA BaselinesKept == EventOK /\ BaselinesOK /\ [EventNext]_eventVars => BaselinesOK'
<1> SUFFICES ASSUME EventOK, BaselinesOK, [EventNext]_eventVars PROVE BaselinesOK'
  OBVIOUS
<1>1. CASE Upload
  BY <1>1, ElsewhereBaselines, NarrowedBaselines, ReceiptBaselines, ConflictBaselines DEF Upload
<1>2. CASE Trouble
  BY <1>2, ElsewhereBaselines, NarrowedBaselines DEF Trouble
<1>3. CASE User \/ Pull
  BY <1>3, UserBaselines, PullBaselines
<1>4. CASE Foreign \/ (\E r \in late : LateArrives(r)) \/ UNCHANGED eventVars
  BY <1>4, ElsewhereBaselines
<1> QED
  BY <1>1, <1>2, <1>3, <1>4 DEF EventNext

\* A write that overwrites another client's change.
LEMMA WritesTruly ==
  ASSUME EventOK, NEW r, RequestOK(r), PatchOK(r), BlankOK, Accepts(r), Commit(r),
         NEW g \in Groups, google'.val[g] \in OpIds, google.val[g] > MaxOps
  PROVE  \/ ops[google'.val[g]].base.val[g] = google.val[g]
         \/ DeletedSince(google'.val[g])
<1>1. /\ google.val \in [Groups -> Values] /\ MaxOps \in Nat
      /\ EventTypeOK /\ RowOK
      /\ r.lead \in r.members /\ r.members \subseteq Positions /\ r.kind = OpKind(r.lead)
      /\ r.val[g] \in r.members \cup {0}
  BY UploadTyped, BoundsAssumption DEF EventOK, RequestOK, GroupOK
<1>2. google'.val[g] = IF r.val[g] = 0 THEN google.val[g] ELSE r.val[g]
  BY DEF Commit
<1>3. google'.val[g] = r.val[g] /\ r.val[g] # 0 /\ r.val[g] \in r.members
  BY <1>1, <1>2 DEF OpIds, Values
<1>4. r.kind # "create"
  BY <1>1 DEF Accepts, BlankOK
<1>5. Doomed => DeletedSince(r.val[g])
  BY <1>1, <1>3, DoomedSince
<1>6. ASSUME ~Doomed PROVE ops[r.val[g]].base.val[g] = google.val[g]
  <2>1. r.kind = "update"
    BY <1>1, <1>4, <1>6, OpsTyped DEF Doomed, Kinds
  <2>2. ops[r.val[g]].group = g /\ Unchanged(r.val[g], google.val)
    BY <1>3, <1>4, <1>6, <2>1 DEF PatchOK, Accepts
  <2> QED
    BY <2>2 DEF Unchanged
<1> QED
  BY <1>3, <1>5, <1>6

\* An update never overwrites another client's change of the same group, unless the user
\* had that change before his eyes when he made the edit, or has deleted the event since.
THEOREM EventOverwritesNothing == EventSpec => NoSilentOverwrite
<1> DEFINE Seen == \A g \in Groups :
       LET n == google'.val[g] IN
       n \in OpIds /\ google.val[g] > MaxOps =>
         \/ ops[n].base.val[g] = google.val[g]
         \/ DeletedSince(n)
<1>1. EventOK /\ BaselinesOK /\ [EventNext]_eventVars => [Seen]_eventVars
  <2> SUFFICES ASSUME EventOK, BaselinesOK, [EventNext]_eventVars,
                      NEW g \in Groups, google'.val[g] \in OpIds, google.val[g] > MaxOps
               PROVE  \/ ops[google'.val[g]].base.val[g] = google.val[g]
                      \/ DeletedSince(google'.val[g])
    OBVIOUS
  <2>1. google.val[g] \in Nat /\ MaxOps \in Nat /\ google.val[g] \notin OpIds /\ history.foreign \in Nat
        /\ google.val \in [Groups -> Values]
    BY UploadTyped, BoundsAssumption DEF EventOK, OpIds, Values
  <2>2. google'.val[g] # google.val[g]
    BY <2>1
  <2>3. ~(UNCHANGED google)
    BY <2>2
  <2>4. ~Foreign
    <3>1. google \in [is : {"absent", "alive", "deleted"}, etag : Etags, val : [Groups -> Values]]
      BY DEF EventOK, EventTypeOK
    <3>2. ASSUME NEW h \in Groups, ForeignWrite(h) PROVE FALSE
      <4>1. google'.val[g] = IF h = g THEN MaxOps + history.foreign + 1 ELSE google.val[g]
        BY <3>1, <3>2 DEF ForeignWrite
      <4> QED
        BY <4>1, <2>1, <2>2 DEF OpIds
    <3>3. ~ForeignDelete
      BY <3>1, <2>2 DEF ForeignDelete
    <3> QED
      BY <3>2, <3>3 DEF Foreign
  <2>5. \/ (upload.at = "wait" /\ Accepts(Writing) /\ Commit(Writing))
        \/ (\E r \in late : Accepts(r) /\ Commit(r))
    <3>1. ~User /\ ~Pull /\ ~(UNCHANGED eventVars)
      BY <2>3 DEF User, Create, Update, Delete, Pull, eventVars
    <3>2. Upload \/ Trouble => Answered \/ AnswerLost
      BY <2>3 DEF Upload, Lease, CancelUnsent, NothingToLease, Send, Reconcile, RecordSuccess,
           FetchCurrent, RecordConflict, RecordFailure, RecordRetry, Trouble, TurnedDown, TimesOut,
           ReconcileFails, FetchFails, WorkerDies
    <3>3. Answered \/ AnswerLost => upload.at = "wait" /\ Accepts(Writing) /\ Commit(Writing)
      BY <2>3 DEF Answered, AnswerLost, Receives
    <3>4. ASSUME NEW r \in late, LateArrives(r) PROVE Accepts(r) /\ Commit(r)
      BY <2>3, <3>4 DEF LateArrives, Receives
    <3> QED
      BY <2>4, <3>1, <3>2, <3>3, <3>4 DEF EventNext
  <2>6. PICK r : RequestOK(r) /\ PatchOK(r) /\ Accepts(r) /\ Commit(r)
    <3>1. EditsOK /\ RequestsOK /\ \A r \in late : PatchOK(r)
      BY DEF BaselinesOK, EventOK
    <3> QED
      BY <2>5, <3>1, WritingOK, WritingIsPatch DEF RequestsOK
  <2> QED
    BY <2>6, WritesTruly DEF BaselinesOK
<1>2. EventSpec => [][Seen]_eventVars
  BY <1>1, EventIsOK, BaselinesInit, BaselinesKept, PTL DEF EventSpec
<1> QED
  BY <1>2 DEF NoSilentOverwrite
=============================================================================
