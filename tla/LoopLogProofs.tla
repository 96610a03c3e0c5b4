--------------------------- MODULE LoopLogProofs ----------------------------
(***************************************************************************)
(* Proofs about what the loop leaves behind: the log, the trace file and   *)
(* the database, over any number of runs and any failures of the writes.   *)
(***************************************************************************)
EXTENDS LoopControllerProofs

(***************************************************************************)
(* LogInOrder speaks of neighbours in a log.  What keeps it is that, while *)
(* a run is under way, the last record of the log and of the file is that  *)
(* of the last thing that happened, and that no id was used before the     *)
(* counter reached it.                                                     *)
(***************************************************************************)
Ordered(log, c) == \A k \in 1..Len(log) : InOrder(log, k) /\ log[k].run_id < c

AtEnd(log) ==
  /\ pc # "idle" => log # <<>>
  /\ pc = "save" => log[Len(log)] = EndEntry(run_id, result)
  /\ pc \notin {"idle", "save"} /\ iterations = <<>> => log[Len(log)] = StartEntry(run_id)
  /\ pc \notin {"idle", "save"} /\ iterations # <<>> =>
       log[Len(log)] = IterationEntry(run_id, LastIteration)

LogInv ==
  /\ Ordered(entries, run_counter) /\ Ordered(sink, run_counter)
  /\ AtEnd(entries) /\ AtEnd(sink)

\* A record that may follow the last one keeps a log in order.
LEMMA AppendOrdered ==
  ASSUME NEW log \in Seq(Entry), NEW e \in Entry, NEW c \in Nat,
         Ordered(log, c), e.run_id < c, InOrder(Append(log, e), Len(log) + 1)
  PROVE  Ordered(Append(log, e), c)
  <1> DEFINE new == Append(log, e)
  <1>1. /\ new \in Seq(Entry) /\ Len(new) = Len(log) + 1 /\ new[Len(log) + 1] = e
        /\ Len(log) \in Nat
        /\ \A k \in 1..Len(log) : new[k] = log[k]
    OBVIOUS
  <1>2. ASSUME NEW k \in 1..Len(log) PROVE InOrder(new, k)
    <2>1. InOrder(log, k) /\ new[k] = log[k]
      BY <1>1 DEF Ordered
    <2>2. k > 1 => new[k - 1] = log[k - 1]
      BY <1>1
    <2>3. \A j \in 1..(k - 1) : new[j] = log[j]
      BY <1>1
    <2>4. log[k] \in Entry
      OBVIOUS
    <2>5. log[k].event \in {"run_start", "iteration", "run_end"}
      BY <2>4 DEF Entry
    <2> HIDE DEF new
    <2>6. CASE log[k].event = "run_start"
      BY <2>1, <2>3, <2>6 DEF InOrder
    <2>7. CASE log[k].event = "iteration"
      BY <2>1, <2>2, <2>7 DEF InOrder
    <2>8. CASE log[k].event = "run_end"
      BY <2>1, <2>2, <2>8 DEF InOrder
    <2> QED BY <2>5, <2>6, <2>7, <2>8
  <1>3. \A k \in 1..Len(log) : new[k].run_id < c
    BY <1>1 DEF Ordered
  <1> QED BY <1>1, <1>2, <1>3 DEF Ordered

\* What makes a record one that may follow the last.
LEMMA NextInOrder ==
  ASSUME NEW log \in Seq(Entry), NEW e \in Entry,
         \/ e.event = "run_start" /\ \A j \in 1..Len(log) : log[j].run_id # e.run_id
         \/ /\ e.event \in {"iteration", "run_end"} /\ log # <<>>
            /\ log[Len(log)].run_id = e.run_id
            /\ e.event = "iteration" =>
                 \/ log[Len(log)].event = "run_start" /\ e.iteration.iteration_number = 1
                 \/ /\ log[Len(log)].event = "iteration"
                    /\ ~ log[Len(log)].iteration.accepted
                    /\ e.iteration.iteration_number
                         = log[Len(log)].iteration.iteration_number + 1
            /\ e.event = "run_end" =>
                 /\ log[Len(log)].event = "iteration"
                 /\ e.iteration_count = log[Len(log)].iteration.iteration_number
                 /\ (e.status = "success") <=> log[Len(log)].iteration.accepted
  PROVE  InOrder(Append(log, e), Len(log) + 1)
  <1> DEFINE new == Append(log, e)
             n   == Len(log)
             d   == log[n]
  <1>1. /\ n \in Nat /\ n + 1 - 1 = n /\ new[n + 1] = e
        /\ \A j \in 1..n : new[j] = log[j]
    OBVIOUS
  <1>2. CASE e.event = "run_start"
    <2>1. \A j \in 1..n : new[j].run_id # e.run_id
      BY <1>1, <1>2
    <2> HIDE DEF new, n
    <2>2. InOrder(new, n + 1)
      BY <1>1, <1>2, <2>1 DEF InOrder
    <2> QED BY <2>2 DEF new, n
  <1>3. CASE e.event \in {"iteration", "run_end"}
    <2>1. n + 1 > 1 /\ new[n] = d /\ d.run_id = e.run_id
      <3>1. log # <<>> /\ d.run_id = e.run_id
        BY <1>3
      <3>2. n >= 1
        BY <3>1
      <3> QED BY <1>1, <3>1, <3>2
    <2>2. e.event = "iteration" =>
            \/ d.event = "run_start" /\ e.iteration.iteration_number = 1
            \/ /\ d.event = "iteration" /\ ~ d.iteration.accepted
               /\ e.iteration.iteration_number = d.iteration.iteration_number + 1
      BY <1>3
    <2>3. e.event = "run_end" =>
            /\ d.event = "iteration" /\ e.iteration_count = d.iteration.iteration_number
            /\ (e.status = "success") <=> d.iteration.accepted
      BY <1>3
    <2> HIDE DEF new, n, d
    <2>4. new[n + 1 - 1] = d
      BY <1>1, <2>1
    <2>5. ASSUME e.event = "iteration" PROVE InOrder(new, n + 1)
      BY <1>1, <2>1, <2>2, <2>4, <2>5 DEF InOrder
    <2>6. ASSUME e.event = "run_end" PROVE InOrder(new, n + 1)
      BY <1>1, <2>1, <2>3, <2>4, <2>6 DEF InOrder
    <2>7. InOrder(new, n + 1)
      BY <1>3, <2>5, <2>6
    <2> QED BY <2>7 DEF new, n
  <1> QED BY <1>2, <1>3

\* The first record of a run, whose id is the counter.
LEMMA StartOrdered ==
  ASSUME NEW log \in Seq(Entry), NEW c \in Nat, Ordered(log, c)
  PROVE  Ordered(Append(log, StartEntry(c)), c + 1) /\ Ordered(log, c + 1)
  <1> DEFINE e == StartEntry(c)
  <1>1. e \in Entry /\ e.run_id = c /\ e.event = "run_start"
    BY DEF StartEntry, Entry
  <1>2. \A k \in 1..Len(log) : log[k].run_id \in Nat
    BY DEF Entry
  <1>3. Ordered(log, c + 1)
    BY <1>2 DEF Ordered
  <1> HIDE DEF e
  <1>5. \A j \in 1..Len(log) : log[j].run_id # c
    BY <1>2 DEF Ordered
  <1>6. InOrder(Append(log, e), Len(log) + 1)
    BY <1>1, <1>5, NextInOrder
  <1>7. Ordered(Append(log, e), c + 1)
    BY <1>1, <1>3, <1>6, AppendOrdered
  <1> QED BY <1>3, <1>7 DEF e

\* The record of an attempt, after that of the start or of a rejected one.
LEMMA IterationOrdered ==
  ASSUME NEW log \in Seq(Entry), NEW c \in Nat, Ordered(log, c), log # <<>>,
         NEW id \in Nat, NEW it \in Iteration,
         \/ log[Len(log)] = StartEntry(id) /\ it.iteration_number = 1
         \/ \E d \in Iteration :
              /\ log[Len(log)] = IterationEntry(id, d) /\ ~ d.accepted
              /\ it.iteration_number = d.iteration_number + 1
  PROVE  Ordered(Append(log, IterationEntry(id, it)), c)
  <1> DEFINE e == IterationEntry(id, it)
  <1>1. e \in Entry /\ e.run_id = id /\ e.event = "iteration" /\ e.iteration = it
    BY DEF IterationEntry, Entry
  <1>2. /\ log[Len(log)].run_id = id
        /\ \/ log[Len(log)].event = "run_start" /\ it.iteration_number = 1
           \/ /\ log[Len(log)].event = "iteration" /\ ~ log[Len(log)].iteration.accepted
              /\ it.iteration_number = log[Len(log)].iteration.iteration_number + 1
    <2>1. CASE log[Len(log)] = StartEntry(id) /\ it.iteration_number = 1
      BY <2>1 DEF StartEntry
    <2>2. CASE \E d \in Iteration :
                 /\ log[Len(log)] = IterationEntry(id, d) /\ ~ d.accepted
                 /\ it.iteration_number = d.iteration_number + 1
      BY <2>2 DEF IterationEntry
    <2> QED BY <2>1, <2>2
  <1>3. id < c
    <2>1. Len(log) \in 1..Len(log)
      OBVIOUS
    <2> QED BY <1>2, <2>1 DEF Ordered
  <1> HIDE DEF e
  <1>5. InOrder(Append(log, e), Len(log) + 1)
    BY <1>1, <1>2, NextInOrder
  <1>6. Ordered(Append(log, e), c)
    BY <1>1, <1>3, <1>5, AppendOrdered
  <1> QED BY <1>6 DEF e

\* The last record of a run, after that of its last attempt.
LEMMA EndOrdered ==
  ASSUME NEW log \in Seq(Entry), NEW c \in Nat, Ordered(log, c), log # <<>>,
         NEW id \in Nat, NEW res \in RunResult, NEW d \in Iteration,
         log[Len(log)] = IterationEntry(id, d),
         res.iteration_count = d.iteration_number,
         (res.status = "success") <=> d.accepted
  PROVE  Ordered(Append(log, EndEntry(id, res)), c)
  <1> DEFINE e == EndEntry(id, res)
  <1>1. e \in Entry
    BY EntryTypes
  <1>2. e.run_id = id /\ e.event = "run_end" /\ e.status = res.status
        /\ e.iteration_count = res.iteration_count
    BY DEF EndEntry
  <1>3. /\ log[Len(log)].run_id = id /\ log[Len(log)].event = "iteration"
        /\ log[Len(log)].iteration = d
    BY DEF IterationEntry
  <1>4. id < c /\ Len(log) \in Nat /\ Len(log) >= 1
    BY <1>3 DEF Ordered
  <1> HIDE DEF e
  <1>6. InOrder(Append(log, e), Len(log) + 1)
    BY <1>1, <1>2, <1>3, NextInOrder
  <1>7. Ordered(Append(log, e), c)
    BY <1>1, <1>2, <1>4, <1>6, AppendOrdered
  <1> QED BY <1>7 DEF e

\* Four steps end an iteration.
LEMMA EndsIteration ==
  ASSUME IInv, IInv', PlannerMalformed \/ ExecutorRaises \/ ReviewerDecides \/ ReviewerMalformed
  PROVE  InLoop /\ \E it \in Iteration : it.iteration_number = i /\ \E fb : EndIteration(it, fb)
  <1>1. InLoop
    BY DEF PlannerMalformed, ExecutorRaises, ReviewerDecides, ReviewerMalformed, InLoop
  <1>2. PICK it, fb : EndIteration(it, fb)
    BY DEF PlannerMalformed, ExecutorRaises, ReviewerDecides, ReviewerMalformed
  <1> DEFINE n == Len(iterations)
  <1>3. n \in Nat /\ i = n + 1 /\ iterations \in Seq(Iteration) /\ iterations' \in Seq(Iteration)
    BY <1>1 DEF IInv, TypeOK, LoopInv
  <1>4. iterations' = Append(iterations, it)
    BY <1>2 DEF EndIteration
  <1>5. Len(iterations') = n + 1 /\ iterations'[n + 1] = it
    BY <1>3, <1>4
  <1>6. it \in Iteration
    BY <1>3, <1>5
  <1>7. it.iteration_number = n + 1
    BY <1>3, <1>5 DEF IInv, CapExact
  <1> QED BY <1>1, <1>2, <1>3, <1>6, <1>7

\* The end of an iteration keeps both logs in order.
LEMMA EndIterationLog ==
  ASSUME IInv, LogInv, InLoop, NEW it \in Iteration, NEW fb,
         it.iteration_number = i, EndIteration(it, fb)
  PROVE  LogInv'
  <1> DEFINE e == IterationEntry(run_id, it)
             n == Len(iterations)
  <1>1. /\ n \in Nat /\ i = n + 1 /\ iterations \in Seq(Iteration)
        /\ run_id \in Nat /\ run_counter \in Nat
        /\ entries \in Seq(Entry) /\ sink \in Seq(Entry)
        /\ pc \notin {"idle", "save"}
    BY DEF IInv, TypeOK, LoopInv, InLoop
  <1>2. ASSUME NEW log \in {entries, sink}
        PROVE  Ordered(log, run_counter) /\ Ordered(Append(log, e), run_counter)
    <2>1. log \in Seq(Entry) /\ Ordered(log, run_counter) /\ AtEnd(log)
      BY <1>1, <1>2 DEF LogInv
    <2>2. log # <<>>
      BY <1>1, <2>1 DEF AtEnd
    <2>3. CASE iterations = <<>>
      <3>1. log[Len(log)] = StartEntry(run_id) /\ it.iteration_number = 1
        BY <1>1, <2>1, <2>3 DEF AtEnd
      <3> QED BY <1>1, <2>1, <2>2, <3>1, IterationOrdered
    <2>4. CASE iterations # <<>>
      <3>1. log[Len(log)] = IterationEntry(run_id, LastIteration)
        BY <1>1, <2>1, <2>4 DEF AtEnd
      <3>2. n \in 1..n /\ LastIteration \in Iteration
        BY <1>1, <2>4 DEF LastIteration
      <3>3. ~ LastIteration.accepted /\ LastIteration.iteration_number = n
        BY <3>2 DEF LastIteration, IInv, LoopInv, CapExact
      <3> QED BY <1>1, <2>1, <2>2, <3>1, <3>2, <3>3, IterationOrdered
    <2> QED BY <2>3, <2>4
  <1>3. iterations' # <<>> /\ LastIteration' = it
    <2>1. iterations' = Append(iterations, it)
      BY DEF EndIteration
    <2>2. Len(iterations') = n + 1 /\ iterations'[n + 1] = it
      BY <1>1, <2>1
    <2> QED BY <1>1, <2>2 DEF LastIteration
  <1>4. /\ entries' = Append(entries, e) /\ sink' \in {sink, Append(sink, e)}
        /\ pc' # "idle" => sink' = Append(sink, e)
        /\ pc' \in {"idle", "plan", "finish"}
        /\ run_id' = run_id /\ run_counter' = run_counter
    BY DEF EndIteration, Emit, EmitRaises, Raise, NextIteration
  <1>5. \A log \in {entries, sink} :
          Append(log, e) # <<>> /\ Append(log, e)[Len(Append(log, e))] = e
    <2>1. e \in Entry
      BY <1>1, EntryTypes
    <2> QED BY <1>1, <2>1
  <1>6. e = IterationEntry(run_id', LastIteration')
    BY <1>3, <1>4
  <1> HIDE DEF e
  <1>7. Ordered(entries, run_counter)' /\ Ordered(sink, run_counter)'
    <2>1. /\ Ordered(Append(entries, e), run_counter)
          /\ Ordered(sink, run_counter) /\ Ordered(Append(sink, e), run_counter)
      BY <1>2
    <2>2. Ordered(entries', run_counter) /\ Ordered(sink', run_counter)
      BY <1>4, <2>1
    <2> QED BY <1>4, <2>2 DEF Ordered, InOrder
  <1>8. pc' # "idle" => entries' # <<>> /\ entries'[Len(entries')] = e
    BY <1>4, <1>5
  <1>9. pc' # "idle" => sink' # <<>> /\ sink'[Len(sink')] = e
    BY <1>4, <1>5
  <1> QED BY <1>3, <1>4, <1>6, <1>7, <1>8, <1>9 DEF LogInv, AtEnd

\* A step that writes no record keeps both logs in order.
LEMMA NothingWritten ==
  ASSUME LogInv, entries' = entries, sink' = sink, run_counter' = run_counter,
         \/ pc' = "idle"
         \/ /\ pc \notin {"idle", "save"} /\ pc' \notin {"idle", "save"}
            /\ run_id' = run_id /\ iterations' = iterations
         \/ pc' = pc /\ run_id' = run_id /\ iterations' = iterations /\ result' = result
  PROVE  LogInv'
  <1>1. Ordered(entries, run_counter)' /\ Ordered(sink, run_counter)'
    <2>1. Ordered(entries, run_counter) /\ Ordered(sink, run_counter)
      BY DEF LogInv
    <2>2. Ordered(entries', run_counter') /\ Ordered(sink', run_counter')
      BY <2>1
    <2> QED BY <2>2 DEF Ordered, InOrder
  <1>2. AtEnd(entries) /\ AtEnd(sink)
    BY DEF LogInv
  <1>3. CASE pc' = "idle"
    BY <1>1, <1>3 DEF LogInv, AtEnd
  <1>4. CASE /\ pc \notin {"idle", "save"} /\ pc' \notin {"idle", "save"}
             /\ run_id' = run_id /\ iterations' = iterations
    <2>1. LastIteration' = LastIteration
      BY <1>4 DEF LastIteration
    <2>2. AtEnd(entries)' /\ AtEnd(sink)'
      BY <1>2, <1>4, <2>1 DEF AtEnd
    <2> QED BY <1>1, <2>2 DEF LogInv
  <1>5. CASE pc' = pc /\ run_id' = run_id /\ iterations' = iterations /\ result' = result
    <2>1. LastIteration' = LastIteration
      BY <1>5 DEF LastIteration
    <2>2. EndEntry(run_id, result)' = EndEntry(run_id, result)
      BY <1>5
    <2>3. AtEnd(entries)' /\ AtEnd(sink)'
      BY <1>2, <1>5, <2>1, <2>2 DEF AtEnd
    <2> QED BY <1>1, <2>3 DEF LogInv
  <1> QED BY <1>3, <1>4, <1>5

\* Order is kept by every step.
LEMMA LogInductive ==
  ASSUME IInv, IInv', LogInv, [Next]_vars
  PROVE  LogInv'
  <1>1. ASSUME NEW c \in Caps, RunTask(c) PROVE LogInv'
    <2> DEFINE e == StartEntry(run_counter)
    <2>1. /\ entries \in Seq(Entry) /\ sink \in Seq(Entry) /\ run_counter \in Nat
          /\ iterations' = <<>> /\ run_id' = run_counter /\ run_counter' = run_counter + 1
          /\ entries' = Append(entries, e) /\ sink' \in {sink, Append(sink, e)}
          /\ pc' \in {"idle", "plan"} /\ (pc' # "idle" => sink' = Append(sink, e))
      BY <1>1 DEF RunTask, FreshLocals, NewRunId, Emit, EmitRaises, Raise, IInv, TypeOK
    <2>2. ASSUME NEW log \in {entries, sink}
          PROVE  /\ Ordered(log, run_counter + 1) /\ Ordered(Append(log, e), run_counter + 1)
                 /\ Append(log, e) # <<>> /\ Append(log, e)[Len(Append(log, e))] = e
      <3>1. e \in Entry
        BY <2>1, EntryTypes
      <3>2. log \in Seq(Entry) /\ Ordered(log, run_counter)
        BY <2>1, <2>2 DEF LogInv
      <3>3. Ordered(log, run_counter + 1) /\ Ordered(Append(log, e), run_counter + 1)
        BY <2>1, <3>2, StartOrdered
      <3>4. Append(log, e) # <<>> /\ Append(log, e)[Len(Append(log, e))] = e
        BY <3>1, <3>2
      <3> QED BY <3>3, <3>4
    <2>3. e = StartEntry(run_id')
      BY <2>1
    <2> HIDE DEF e
    <2>4. Ordered(entries', run_counter + 1) /\ Ordered(sink', run_counter + 1)
      BY <2>1, <2>2
    <2>5. Ordered(entries, run_counter)' /\ Ordered(sink, run_counter)'
      BY <2>1, <2>4 DEF Ordered, InOrder
    <2>6. pc' # "idle" => /\ entries' # <<>> /\ entries'[Len(entries')] = e
                          /\ sink' # <<>> /\ sink'[Len(sink')] = e
      BY <2>1, <2>2
    <2> QED BY <2>1, <2>3, <2>5, <2>6 DEF LogInv, AtEnd
  <1>2. ASSUME NEW c \in Caps, RejectCap(c) PROVE LogInv'
    BY <1>2, NothingWritten DEF RejectCap, local, logger
  <1>3. CASE PlannerPlans \/ ExecutorReturns
    BY <1>3, NothingWritten DEF PlannerPlans, ExecutorReturns, logger
  <1>4. CASE PlannerMalformed \/ ExecutorRaises \/ ReviewerDecides \/ ReviewerMalformed
    <2>1. InLoop /\ \E it \in Iteration : it.iteration_number = i /\ \E fb : EndIteration(it, fb)
      BY <1>4, EndsIteration
    <2> QED BY <2>1, EndIterationLog
  <1>5. CASE AgentRaises
    BY <1>5, NothingWritten DEF AgentRaises, Raise, logger
  <1>6. CASE FinishRun
    <2> DEFINE e == EndEntry(run_id, result)
    <2>1. /\ entries \in Seq(Entry) /\ sink \in Seq(Entry)
          /\ run_id \in Nat /\ run_counter \in Nat /\ result \in RunResult
          /\ iterations \in Seq(Iteration) /\ iterations # <<>> /\ pc = "finish"
      BY <1>6 DEF FinishRun, IInv, TypeOK, LoopInv, CapExact
    <2>2. /\ entries' = Append(entries, e) /\ sink' \in {sink, Append(sink, e)}
          /\ pc' \in {"idle", "save"} /\ (pc' # "idle" => sink' = Append(sink, e))
          /\ run_id' = run_id /\ run_counter' = run_counter /\ result' = result
      BY <1>6 DEF FinishRun, Emit, EmitRaises, Raise, Return, local
    <2>3. /\ LastIteration \in Iteration
          /\ LastIteration.iteration_number = Len(iterations)
          /\ result.iteration_count = Len(iterations)
          /\ (result.status = "success") <=> LastIteration.accepted
      <3>1. Len(iterations) \in 1..Len(iterations) /\ LastIteration \in Iteration
        BY <2>1 DEF LastIteration
      <3>2. result # None
        BY <2>1, NoneAssumption
      <3> QED BY <3>1, <3>2 DEF IInv, CapExact, LastIteration
    <2>4. ASSUME NEW log \in {entries, sink}
          PROVE  /\ Ordered(log, run_counter) /\ Ordered(Append(log, e), run_counter)
                 /\ Append(log, e) # <<>> /\ Append(log, e)[Len(Append(log, e))] = e
      <3>1. log \in Seq(Entry) /\ Ordered(log, run_counter) /\ AtEnd(log)
        BY <2>1, <2>4 DEF LogInv
      <3>2. log # <<>> /\ log[Len(log)] = IterationEntry(run_id, LastIteration)
        BY <2>1, <3>1 DEF AtEnd
      <3>3. Ordered(Append(log, e), run_counter)
        BY <2>1, <2>3, <3>1, <3>2, EndOrdered
      <3>4. e \in Entry
        BY <2>1, EntryTypes
      <3> QED BY <3>1, <3>3, <3>4
    <2>5. e = EndEntry(run_id', result')
      BY <2>2
    <2> HIDE DEF e
    <2>6. Ordered(entries', run_counter) /\ Ordered(sink', run_counter)
      BY <2>2, <2>4
    <2>7. Ordered(entries, run_counter)' /\ Ordered(sink, run_counter)'
      BY <2>2, <2>6 DEF Ordered, InOrder
    <2>8. pc' # "idle" => /\ entries' # <<>> /\ entries'[Len(entries')] = e
                          /\ sink' # <<>> /\ sink'[Len(sink')] = e
      BY <2>2, <2>4
    <2> QED BY <2>2, <2>5, <2>7, <2>8 DEF LogInv, AtEnd
  <1>7. CASE SaveRun \/ SaveRunRaises
    BY <1>7, NothingWritten DEF SaveRun, SaveRunRaises, Return, Raise, logger
  <1>8. CASE UNCHANGED vars
    BY <1>8, NothingWritten DEF vars, local, logger
  <1> QED BY <1>1, <1>2, <1>3, <1>4, <1>5, <1>6, <1>7, <1>8 DEF Next, Step

\* The log and the trace file can be cut into runs, whatever failed when.
THEOREM LogInOrderHolds == Spec => []LogInOrder
  <1>1. Init => LogInv
    BY DEF Init, LogInv, Ordered, AtEnd
  <1>2. IInv /\ IInv' /\ LogInv /\ [Next]_vars => LogInv'
    BY LogInductive
  <1>3. LogInv => LogInOrder
    BY DEF LogInv, Ordered, LogInOrder
  <1> QED BY <1>1, <1>2, <1>3, Invariant, PTL DEF Spec

-----------------------------------------------------------------------------
(***************************************************************************)
(* SavedRuns relates the database to the log.  What keeps it: a record of  *)
(* the log is never changed, the run_end is written before save_run is     *)
(* called, and what an interrupted save_run leaves in the open transaction *)
(* is of a run whose end was logged too.                                   *)
(***************************************************************************)
Logged(log, row) == \E n \in 1..Len(log) : log[n] = EndEntry(row.run_id, row)

AllLogged(log, rows) == \A k \in 1..Len(rows) : Logged(log, rows[k])

SavedLast ==
  Returned /\ HasStorage =>
    pending = <<>> /\ db # <<>> /\ db[Len(db)] = Saved(Len(iterations))

SavedInv == AllLogged(entries, db) /\ AllLogged(entries, pending) /\ SavedLast

\* The end of an iteration adds one record to the log, and reports nothing.
LEMMA EndIterationGrows ==
  ASSUME NEW it, NEW fb, EndIteration(it, fb)
  PROVE  /\ entries' = Append(entries, IterationEntry(run_id, it))
         /\ pc' # "idle" \/ ending' = "raised"
         /\ db' = db /\ pending' = pending
  BY DEF EndIteration, Emit, EmitRaises, Raise, NextIteration, storage

\* A step adds at most one record to the log; the database and the report
\* "returned" are the work of the last two steps of a run.
LEMMA EntriesGrow ==
  ASSUME IInv, IInv', [Next]_vars
  PROVE  /\ entries' = entries \/ \E e : entries' = Append(entries, e)
         /\ \/ db' = db /\ pending' = pending
            \/ SaveRun \/ SaveRunRaises
         /\ \/ ~ Returned'
            \/ SaveRun
            \/ ~ HasStorage
            \/ UNCHANGED vars
  <1>1. ASSUME NEW c \in Caps, RunTask(c)
        PROVE  /\ entries' = Append(entries, StartEntry(run_counter))
               /\ db' = db /\ pending' = pending /\ ~ Returned'
    BY <1>1 DEF RunTask, Emit, EmitRaises, Raise, Returned, storage
  <1>2. ASSUME NEW c \in Caps, RejectCap(c)
        PROVE  entries' = entries /\ db' = db /\ pending' = pending /\ ~ Returned'
    BY <1>2 DEF RejectCap, Returned, logger, storage
  <1>3. ASSUME PlannerPlans \/ ExecutorReturns
        PROVE  entries' = entries /\ db' = db /\ pending' = pending /\ ~ Returned'
    BY <1>3 DEF PlannerPlans, ExecutorReturns, Returned, logger, storage
  <1>4. ASSUME PlannerMalformed \/ ExecutorRaises \/ ReviewerDecides \/ ReviewerMalformed
        PROVE  /\ \E e : entries' = Append(entries, e)
               /\ db' = db /\ pending' = pending /\ ~ Returned'
    <2>1. PICK it, fb : EndIteration(it, fb)
      BY <1>4, EndsIteration
    <2> QED BY <2>1, EndIterationGrows DEF Returned
  <1>5. ASSUME AgentRaises
        PROVE  entries' = entries /\ db' = db /\ pending' = pending /\ ~ Returned'
    BY <1>5 DEF AgentRaises, Raise, Returned, logger, storage
  <1>6. ASSUME FinishRun
        PROVE  /\ entries' = Append(entries, EndEntry(run_id, result))
               /\ db' = db /\ pending' = pending /\ (~ Returned' \/ ~ HasStorage)
    BY <1>6 DEF FinishRun, Emit, EmitRaises, Raise, Returned, storage
  <1>7. ASSUME SaveRun PROVE entries' = entries
    BY <1>7 DEF SaveRun, logger
  <1>8. ASSUME SaveRunRaises PROVE entries' = entries /\ ~ Returned'
    BY <1>8 DEF SaveRunRaises, Raise, Returned, logger
  <1>9. ASSUME UNCHANGED vars PROVE entries' = entries /\ db' = db /\ pending' = pending
    BY <1>9 DEF vars, logger, storage
  <1> QED BY <1>1, <1>2, <1>3, <1>4, <1>5, <1>6, <1>7, <1>8, <1>9 DEF Next, Step

\* What was logged stays logged.
LEMMA LoggedKept ==
  ASSUME NEW log \in Seq(Entry), NEW new \in Seq(Entry), NEW rows,
         new = log \/ \E e : new = Append(log, e), AllLogged(log, rows)
  PROVE  AllLogged(new, rows)
  <1>2. \A n \in 1..Len(log) : n \in 1..Len(new) /\ new[n] = log[n]
    OBVIOUS
  <1>3. ASSUME NEW k \in 1..Len(rows) PROVE Logged(new, rows[k])
    <2>1. PICK n \in 1..Len(log) : log[n] = EndEntry(rows[k].run_id, rows[k])
      BY DEF AllLogged, Logged
    <2>2. n \in 1..Len(new) /\ new[n] = EndEntry(rows[k].run_id, rows[k])
      BY <1>2, <2>1
    <2> QED BY <2>2 DEF Logged
  <1> QED BY <1>3 DEF AllLogged

\* A row that save_run inserts is of the run whose end was logged last.
LEMMA SavedLogged ==
  ASSUME IInv, LogInv, pc = "save", NEW m
  PROVE  Logged(entries, Saved(m))
  <1>1. entries \in Seq(Entry) /\ entries # <<>>
        /\ entries[Len(entries)] = EndEntry(run_id, result)
    BY DEF IInv, TypeOK, LogInv, AtEnd
  <1>2. Len(entries) \in 1..Len(entries)
    BY <1>1
  <1>3. EndEntry(Saved(m).run_id, Saved(m)) = EndEntry(run_id, result)
    BY DEF EndEntry, Saved
  <1> QED BY <1>1, <1>2, <1>3 DEF Logged

\* The database and its open transaction stay in step with the log.
LEMMA SavedInductive ==
  ASSUME IInv, IInv', LogInv, SavedInv, [Next]_vars
  PROVE  SavedInv'
  <1>1. AllLogged(entries', db) /\ AllLogged(entries', pending)
    <2>1. entries \in Seq(Entry) /\ entries' \in Seq(Entry)
      BY DEF IInv, TypeOK
    <2>2. entries' = entries \/ \E e : entries' = Append(entries, e)
      BY EntriesGrow
    <2>3. AllLogged(entries, db) /\ AllLogged(entries, pending)
      BY DEF SavedInv
    <2> QED BY <2>1, <2>2, <2>3, LoggedKept
  <1>2. /\ db \in Seq(Row) /\ pending \in Seq(Row)
        /\ db' \in Seq(Row) /\ pending' \in Seq(Row)
    BY DEF IInv, TypeOK
  <1>3. ASSUME db' = db /\ pending' = pending
        PROVE  AllLogged(entries', db') /\ AllLogged(entries', pending')
    BY <1>1, <1>3
  <1>4. ASSUME SaveRun PROVE SavedInv'
    <2> DEFINE row == Saved(Len(iterations))
    <2>1. /\ pc = "save" /\ db' = db \o Append(pending, row) /\ pending' = <<>>
          /\ entries' = entries /\ run_id' = run_id /\ result' = result
          /\ iterations' = iterations
      BY <1>4 DEF SaveRun, logger, local
    <2>2. row \in Row
      <3>1. result # None /\ Len(iterations) \in 0..Len(iterations)
        BY <2>1 DEF IInv, TypeOK, LoopInv
      <3> QED BY <3>1, SavedType DEF IInv
    <2>3. Logged(entries', row)
      <3>1. Logged(entries, row)
        BY <2>1, SavedLogged
      <3> QED BY <2>1, <3>1
    <2>4. row' = row
      BY <2>1 DEF Saved
    <2> HIDE DEF row
    <2>5. /\ Len(db') = Len(db) + Len(pending) + 1
          /\ \A k \in 1..Len(db) : db'[k] = db[k]
          /\ \A k \in 1..Len(pending) : db'[Len(db) + k] = pending[k]
          /\ db'[Len(db')] = row
      BY <1>2, <2>1, <2>2
    <2>6. ASSUME NEW k \in 1..Len(db') PROVE Logged(entries', db'[k])
      <3>1. CASE k \in 1..Len(db)
        BY <1>1, <2>5, <3>1 DEF AllLogged
      <3>2. CASE k = Len(db')
        BY <2>3, <2>5, <3>2
      <3>3. CASE k > Len(db) /\ k < Len(db')
        <4>1. k - Len(db) \in 1..Len(pending) /\ k = Len(db) + (k - Len(db))
          BY <1>2, <2>5, <3>3
        <4>2. db'[k] = pending[k - Len(db)]
          BY <2>5, <4>1
        <4> QED BY <1>1, <4>1, <4>2 DEF AllLogged
      <3> QED BY <1>2, <2>5, <3>1, <3>2, <3>3
    <2>7. AllLogged(entries', db') /\ AllLogged(entries', pending')
      <3>1. AllLogged(entries', db')
        BY <2>6 DEF AllLogged
      <3>2. pending' = <<>> /\ Len(<<>>) = 0
        BY <2>1
      <3> QED BY <3>1, <3>2 DEF AllLogged
    <2>8. db' # <<>>
      BY <1>2, <2>5
    <2>9. db'[Len(db')] = Saved(Len(iterations))'
      BY <2>4, <2>5 DEF row
    <2> QED BY <2>1, <2>7, <2>8, <2>9 DEF SavedInv, SavedLast
  <1>5. ASSUME SaveRunRaises PROVE AllLogged(entries', db') /\ AllLogged(entries', pending')
    <2>1. /\ pc = "save" /\ db' = db /\ entries' = entries
          /\ \/ pending' \in {pending, <<>>}
             \/ \E n \in 0..Len(iterations) : pending' = Append(pending, Saved(n))
      BY <1>5 DEF SaveRunRaises, logger
    <2>2. ASSUME NEW k \in 1..Len(pending') PROVE Logged(entries', pending'[k])
      <3>1. CASE pending' \in {pending, <<>>}
        BY <1>1, <3>1 DEF AllLogged
      <3>2. CASE \E n \in 0..Len(iterations) : pending' = Append(pending, Saved(n))
        <4>1. PICK n \in 0..Len(iterations) : pending' = Append(pending, Saved(n))
          BY <3>2
        <4> DEFINE row == Saved(n)
        <4>2. row \in Row
          <5>1. result # None
            BY <2>1 DEF IInv, LoopInv
          <5> QED BY <5>1, SavedType DEF IInv
        <4>3. Logged(entries, row)
          BY <2>1, SavedLogged
        <4> HIDE DEF row
        <4>4. pending' = Append(pending, row)
          BY <4>1 DEF row
        <4>5. (k \in 1..Len(pending) /\ pending'[k] = pending[k]) \/ pending'[k] = row
          BY <1>2, <4>2, <4>4
        <4>6. CASE k \in 1..Len(pending) /\ pending'[k] = pending[k]
          BY <1>1, <4>6 DEF AllLogged
        <4>7. CASE pending'[k] = row
          BY <2>1, <4>3, <4>7
        <4> QED BY <4>5, <4>6, <4>7
      <3> QED BY <2>1, <3>1, <3>2
    <2>3. AllLogged(entries', db')
      BY <1>1, <2>1
    <2> QED BY <2>2, <2>3 DEF AllLogged
  <1>6. AllLogged(entries', db') /\ AllLogged(entries', pending')
    BY <1>3, <1>4, <1>5, EntriesGrow DEF SavedInv
  <1>7. CASE SaveRun
    BY <1>4, <1>7
  <1>8. CASE ~ Returned' \/ ~ HasStorage
    BY <1>6, <1>8 DEF SavedInv, SavedLast
  <1>9. CASE UNCHANGED vars
    <2>1. SavedLast'
      BY <1>9 DEF SavedInv, SavedLast, Returned, Saved, vars, local, logger, storage
    <2> QED BY <1>6, <2>1 DEF SavedInv
  <1> QED BY <1>7, <1>8, <1>9, EntriesGrow

\* A run that returned is in the database, and the database shows no run the
\* log does not.
THEOREM SavedRunsHolds == Spec => []SavedRuns
  <1>1. Init => LogInv /\ SavedInv
    BY DEF Init, LogInv, Ordered, AtEnd, SavedInv, AllLogged, SavedLast, Returned
  <1>2. IInv /\ IInv' /\ LogInv /\ SavedInv /\ [Next]_vars => LogInv' /\ SavedInv'
    BY LogInductive, SavedInductive
  <1>3. SavedInv => SavedRuns
    BY DEF SavedInv, SavedLast, AllLogged, Logged, SavedRuns
  <1> QED BY <1>1, <1>2, <1>3, Invariant, PTL DEF Spec

-----------------------------------------------------------------------------
(***************************************************************************)
(* TraceComplete compares the tail of the log with the trace of the run.   *)
(* Every record is appended to both; in the file, the last may be missing  *)
(* once an exception has ended the run, after which nothing is appended.   *)
(***************************************************************************)
SinkTrace ==
  \/ EndsWith(sink, Trace)
  \/ ending = "raised" /\ EndsWith(sink, SubSeq(Trace, 1, Len(Trace) - 1))

TraceInv ==
  /\ pc # "idle" => runs > 0
  /\ runs > 0 /\ ending # "rejected" => EndsWith(entries, Trace) /\ SinkTrace

\* EndsWith, record by record.
LEMMA EndsWithElements ==
  ASSUME NEW log \in Seq(Entry), NEW t \in Seq(Entry)
  PROVE  EndsWith(log, t) <=>
           /\ Len(t) <= Len(log)
           /\ \A j \in 1..Len(t) : log[Len(log) - Len(t) + j] = t[j]
  <1> DEFINE m == Len(log) - Len(t)
             u == SubSeq(log, m + 1, Len(log))
  <1>1. CASE Len(t) <= Len(log)
    <2>1. m \in Nat /\ m + 1 \in Int /\ Len(log) \in Int /\ Len(log) = m + Len(t) /\ Len(t) \in Nat
      BY <1>1
    <2>2. \A k \in (m + 1)..Len(log) : log[k] \in Entry
      BY <2>1
    <2> HIDE DEF m
    <2>3. /\ u \in Seq(Entry)
          /\ Len(u) = IF m + 1 <= Len(log) THEN Len(log) - (m + 1) + 1 ELSE 0
          /\ \A j \in 1..(Len(log) - (m + 1) + 1) : u[j] = log[m + 1 + j - 1]
      BY <2>1, <2>2, SubSeqProperties, SMTT(30)
    <2>4. Len(u) = Len(t) /\ \A j \in 1..Len(t) : u[j] = log[m + j]
      BY <2>1, <2>3
    <2> HIDE DEF u
    <2>5. u = t <=> \A j \in 1..Len(t) : u[j] = t[j]
      BY <2>3, <2>4, SeqEqual
    <2>6. u = t <=> \A j \in 1..Len(t) : log[m + j] = t[j]
      BY <2>4, <2>5
    <2> QED BY <1>1, <2>6 DEF EndsWith, m, u
  <1> QED BY <1>1 DEF EndsWith

\* A record appended to both a log and a trace it ends with.
LEMMA EndsWithAppend ==
  ASSUME NEW log \in Seq(Entry), NEW t \in Seq(Entry), NEW e \in Entry, EndsWith(log, t)
  PROVE  EndsWith(Append(log, e), Append(t, e))
  <1> DEFINE log1 == Append(log, e)
             t1   == Append(t, e)
  <1>1. Len(t) <= Len(log) /\ \A j \in 1..Len(t) : log[Len(log) - Len(t) + j] = t[j]
    BY EndsWithElements
  <1>2. /\ log1 \in Seq(Entry) /\ Len(log1) = Len(log) + 1 /\ log1[Len(log) + 1] = e
        /\ t1 \in Seq(Entry) /\ Len(t1) = Len(t) + 1 /\ t1[Len(t) + 1] = e
        /\ \A k \in 1..Len(log) : log1[k] = log[k]
        /\ \A k \in 1..Len(t) : t1[k] = t[k]
        /\ Len(log) \in Nat /\ Len(t) \in Nat
    OBVIOUS
  <1> HIDE DEF log1, t1
  <1>3. ASSUME NEW j \in 1..Len(t1) PROVE log1[Len(log1) - Len(t1) + j] = t1[j]
    <2>1. Len(log1) - Len(t1) + j = Len(log) - Len(t) + j
      BY <1>2
    <2>2. CASE j \in 1..Len(t)
      <3>1. Len(log) - Len(t) + j \in 1..Len(log)
        BY <1>1, <1>2, <2>2
      <3> QED BY <1>1, <1>2, <2>1, <2>2, <3>1
    <2>3. CASE j = Len(t) + 1
      <3>1. Len(log) - Len(t) + j = Len(log) + 1
        BY <1>2, <2>3
      <3> QED BY <1>2, <2>1, <2>3, <3>1
    <2> QED BY <1>2, <2>2, <2>3
  <1>4. Len(t1) <= Len(log1)
    BY <1>1, <1>2
  <1>5. EndsWith(log1, t1)
    BY <1>2, <1>3, <1>4, EndsWithElements
  <1> QED BY <1>5 DEF log1, t1

\* A trace without the record just appended to it.
LEMMA FrontOfAppend ==
  ASSUME NEW t \in Seq(Entry), NEW e \in Entry
  PROVE  SubSeq(Append(t, e), 1, Len(Append(t, e)) - 1) = t
  <1> DEFINE t1 == Append(t, e)
             u  == SubSeq(t1, 1, Len(t))
  <1>1. /\ t1 \in Seq(Entry) /\ Len(t1) = Len(t) + 1 /\ Len(t) \in Nat
        /\ \A k \in 1..Len(t) : t1[k] = t[k]
    OBVIOUS
  <1> HIDE DEF t1
  <1>2. \A k \in 1..Len(t) : t1[k] \in Entry
    BY <1>1
  <1>3. /\ u \in Seq(Entry)
        /\ Len(u) = IF 1 <= Len(t) THEN Len(t) - 1 + 1 ELSE 0
        /\ \A k \in 1..(Len(t) - 1 + 1) : u[k] = t1[1 + k - 1]
    BY <1>1, <1>2, SubSeqProperties
  <1>4. Len(u) = Len(t) /\ \A k \in 1..Len(t) : u[k] = t[k]
    BY <1>1, <1>3
  <1> HIDE DEF u
  <1>5. u = t
    BY <1>3, <1>4, SeqEqual
  <1>6. Len(t1) - 1 = Len(t)
    BY <1>1
  <1> QED BY <1>5, <1>6 DEF u, t1

\* The trace of a run before its end.
Attempts(id, its) == [k \in 1..Len(its) |-> IterationEntry(id, its[k])]
OpenTrace(id, its) == <<StartEntry(id)>> \o Attempts(id, its)

LEMMA OpenTraceType ==
  ASSUME NEW id \in Nat, NEW its \in Seq(Iteration)
  PROVE  /\ OpenTrace(id, its) \in Seq(Entry)
         /\ Len(OpenTrace(id, its)) = Len(its) + 1
         /\ OpenTrace(id, its)[1] = StartEntry(id)
         /\ \A k \in 1..Len(its) : OpenTrace(id, its)[k + 1] = IterationEntry(id, its[k])
  <1> DEFINE a == Attempts(id, its)
             s == <<StartEntry(id)>>
  <1>1. \A k \in 1..Len(its) : IterationEntry(id, its[k]) \in Entry
    BY EntryTypes
  <1>2. a \in Seq(Entry) /\ Len(a) = Len(its)
    <2>1. Len(its) \in Nat /\ a = [k \in 1..Len(its) |-> IterationEntry(id, its[k])]
      BY DEF Attempts
    <2> QED BY <1>1, <2>1, IsASeq, LenProperties
  <1>3. \A k \in 1..Len(its) : a[k] = IterationEntry(id, its[k])
    BY DEF Attempts
  <1>4. StartEntry(id) \in Entry
    BY EntryTypes
  <1>5. s \in Seq(Entry) /\ Len(s) = 1 /\ s[1] = StartEntry(id)
    BY <1>4
  <1> HIDE DEF a, s
  <1>6. /\ s \o a \in Seq(Entry) /\ Len(s \o a) = Len(its) + 1
        /\ (s \o a)[1] = s[1] /\ \A k \in 1..Len(its) : (s \o a)[k + 1] = a[k]
    <2>1. /\ s \o a \in Seq(Entry) /\ Len(s \o a) = Len(s) + Len(a)
          /\ \A k \in 1..(Len(s) + Len(a)) :
               (s \o a)[k] = IF k <= Len(s) THEN s[k] ELSE a[k - Len(s)]
      BY <1>2, <1>5, ConcatProperties
    <2>2. Len(its) \in Nat
      OBVIOUS
    <2>3. \A k \in 1..Len(its) : (s \o a)[k + 1] = a[k]
      <3> TAKE k \in 1..Len(its)
      <3>1. k + 1 \in 1..(Len(s) + Len(a)) /\ ~ (k + 1 <= Len(s)) /\ (k + 1) - Len(s) = k
        BY <1>2, <1>5, <2>2
      <3> QED BY <2>1, <3>1
    <2>4. (s \o a)[1] = s[1]
      BY <1>2, <1>5, <2>1, <2>2
    <2> QED BY <1>2, <1>5, <2>1, <2>2, <2>3, <2>4
  <1> QED BY <1>3, <1>5, <1>6 DEF OpenTrace, a, s

\* One more attempt, one more record.
LEMMA OpenTraceGrows ==
  ASSUME NEW id \in Nat, NEW its \in Seq(Iteration), NEW it \in Iteration
  PROVE  OpenTrace(id, Append(its, it)) = Append(OpenTrace(id, its), IterationEntry(id, it))
  <1> DEFINE its1 == Append(its, it)
             e    == IterationEntry(id, it)
             t    == OpenTrace(id, its)
             t1   == OpenTrace(id, its1)
             n    == Len(its)
  <1>1. /\ its1 \in Seq(Iteration) /\ Len(its1) = n + 1 /\ its1[n + 1] = it
        /\ \A k \in 1..n : its1[k] = its[k]
        /\ n \in Nat
    OBVIOUS
  <1>2. e \in Entry
    BY EntryTypes
  <1> HIDE DEF its1
  <1>3. /\ t \in Seq(Entry) /\ Len(t) = n + 1 /\ t[1] = StartEntry(id)
        /\ \A k \in 1..n : t[k + 1] = IterationEntry(id, its[k])
    BY OpenTraceType
  <1>4. /\ t1 \in Seq(Entry) /\ Len(t1) = n + 2 /\ t1[1] = StartEntry(id)
        /\ \A k \in 1..(n + 1) : t1[k + 1] = IterationEntry(id, its1[k])
    <2>1. /\ t1 \in Seq(Entry) /\ Len(t1) = Len(its1) + 1 /\ t1[1] = StartEntry(id)
          /\ \A k \in 1..Len(its1) : t1[k + 1] = IterationEntry(id, its1[k])
      BY <1>1, OpenTraceType
    <2> QED BY <1>1, <2>1
  <1>5. t1[n + 2] = e
    BY <1>1, <1>4
  <1>6. ASSUME NEW j \in 1..(n + 1) PROVE t1[j] = t[j]
    <2>1. CASE j = 1
      BY <1>3, <1>4, <2>1
    <2>2. CASE j # 1
      <3>1. j - 1 \in 1..n /\ j - 1 \in 1..(n + 1) /\ (j - 1) + 1 = j
        BY <1>1, <2>2
      <3>2. t1[j] = IterationEntry(id, its1[j - 1]) /\ its1[j - 1] = its[j - 1]
        BY <1>1, <1>4, <3>1
      <3>3. t[j] = IterationEntry(id, its[j - 1])
        BY <1>3, <3>1
      <3> QED BY <3>2, <3>3
    <2> QED BY <2>1, <2>2
  <1> HIDE DEF t, t1, e, n
  <1>7. /\ Append(t, e) \in Seq(Entry) /\ Len(Append(t, e)) = n + 2
        /\ Append(t, e)[n + 2] = e
        /\ \A j \in 1..(n + 1) : Append(t, e)[j] = t[j]
    BY <1>1, <1>2, <1>3
  <1>8. \A j \in 1..Len(t1) : t1[j] = Append(t, e)[j]
    BY <1>1, <1>4, <1>5, <1>6, <1>7
  <1>9. t1 = Append(t, e)
    BY <1>4, <1>7, <1>8, SeqEqual
  <1> QED BY <1>9 DEF t, t1, e, its1

\* The trace of the last run, in the terms of the lemmas.
TraceShape ==
  /\ OpenTrace(run_id, iterations) \in Seq(Entry)
  /\ ~ (pc = "save" \/ (pc = "idle" /\ result # None)) =>
       Trace = OpenTrace(run_id, iterations)
  /\ (pc = "save" \/ (pc = "idle" /\ result # None)) =>
       Trace = Append(OpenTrace(run_id, iterations), EndEntry(run_id, result))
  /\ Trace \in Seq(Entry)

LEMMA TraceCases ==
  ASSUME IInv
  PROVE  TraceShape
  <1> DEFINE t == OpenTrace(run_id, iterations)
             e == EndEntry(run_id, result)
             P == pc = "save" \/ (pc = "idle" /\ result # None)
  <1>1. run_id \in Nat /\ iterations \in Seq(Iteration) /\ result \in RunResult \cup {None}
    BY DEF IInv, TypeOK
  <1>2. t \in Seq(Entry)
    BY <1>1, OpenTraceType
  <1>3. P => e \in Entry
    <2>1. P => result # None
      BY DEF IInv, LoopInv
    <2> QED BY <1>1, <2>1, EntryTypes
  <1>4. Trace = t \o (IF P THEN <<e>> ELSE <<>>)
    BY DEF Trace, OpenTrace, Attempts
  <1> HIDE DEF t, e
  <1>5. ~ P => Trace = t
    <2>1. t \o <<>> = t
      BY <1>2
    <2> QED BY <1>4, <2>1
  <1>6. P => Trace = Append(t, e)
    <2>1. P => t \o <<e>> = Append(t, e)
      BY <1>2, <1>3, AppendIsConcat
    <2> QED BY <1>4, <2>1
  <1>7. P => Append(t, e) \in Seq(Entry)
    BY <1>2, <1>3
  <1> QED BY <1>2, <1>5, <1>6, <1>7 DEF TraceShape, t, e

LEMMA TraceCasesNext == IInv' => TraceShape'
  <1>1. IInv => TraceShape
    BY TraceCases
  <1> QED BY <1>1, PTL

\* A step that writes a record.
LEMMA RecordKept ==
  ASSUME entries \in Seq(Entry), sink \in Seq(Entry),
         NEW t \in Seq(Entry), NEW e \in Entry,
         EndsWith(entries, t), EndsWith(sink, t),
         entries' = Append(entries, e),
         sink' = Append(sink, e) \/ (sink' = sink /\ ending' = "raised"),
         Trace' = Append(t, e)
  PROVE  EndsWith(entries', Trace') /\ SinkTrace'
  <1>1. EndsWith(Append(entries, e), Append(t, e)) /\ EndsWith(Append(sink, e), Append(t, e))
    BY EndsWithAppend
  <1>2. SubSeq(Trace', 1, Len(Trace') - 1) = t
    <2>1. SubSeq(Append(t, e), 1, Len(Append(t, e)) - 1) = t
      BY FrontOfAppend
    <2> QED BY <2>1
  <1>3. EndsWith(entries', Trace')
    BY <1>1
  <1>4. \/ EndsWith(sink', Trace')
        \/ ending' = "raised" /\ EndsWith(sink', SubSeq(Trace', 1, Len(Trace') - 1))
    BY <1>1, <1>2
  <1> QED BY <1>3, <1>4 DEF SinkTrace

\* A step that writes none.
LEMMA TraceKept ==
  ASSUME TraceInv, entries' = entries, sink' = sink, Trace' = Trace,
         runs' = runs, pc # "idle" \/ pc' = "idle", ending' = ending \/ ending = "none"
  PROVE  TraceInv'
  <1>1. CASE ~ (runs > 0 /\ ending # "rejected")
    BY <1>1 DEF TraceInv
  <1>2. CASE runs > 0 /\ ending # "rejected"
    <2>1. EndsWith(entries, Trace) /\ SinkTrace
      BY <1>2 DEF TraceInv
    <2>2. EndsWith(entries', Trace')
      BY <2>1
    <2>3. \/ EndsWith(sink', Trace')
          \/ ending' = "raised" /\ EndsWith(sink', SubSeq(Trace', 1, Len(Trace') - 1))
      BY <2>1 DEF SinkTrace
    <2>4. (pc # "idle" => runs > 0)'
      BY DEF TraceInv
    <2> QED BY <2>2, <2>3, <2>4 DEF TraceInv, SinkTrace
  <1> QED BY <1>1, <1>2

\* While a run is under way, the log and the file end with its trace.
LEMMA TraceUnderWay ==
  ASSUME IInv, TraceInv, pc # "idle"
  PROVE  /\ runs > 0 /\ ending = "none" /\ runs \in Nat
         /\ entries \in Seq(Entry) /\ sink \in Seq(Entry)
         /\ EndsWith(entries, Trace) /\ EndsWith(sink, Trace)
         /\ Trace \in Seq(Entry)
  <1>1. ending = "none"
    BY DEF IInv, LoopInv
  <1>2. entries \in Seq(Entry) /\ sink \in Seq(Entry) /\ runs \in Nat
    BY LoopAssumption DEF IInv, TypeOK
  <1>3. Trace \in Seq(Entry)
    BY TraceCases DEF TraceShape
  <1> QED BY <1>1, <1>2, <1>3 DEF TraceInv, SinkTrace

\* Every step keeps the log and the file complete.
LEMMA TraceInductive ==
  ASSUME IInv, IInv', TraceInv, [Next]_vars
  PROVE  TraceInv'
  <1>1. ASSUME NEW c \in Caps, RunTask(c) PROVE TraceInv'
    <2> DEFINE e == StartEntry(run_counter)
    <2>1. /\ iterations' = <<>> /\ result' = None /\ run_id' = run_counter
          /\ runs' = runs + 1 /\ runs \in Nat /\ run_counter \in Nat
          /\ entries \in Seq(Entry) /\ sink \in Seq(Entry)
          /\ entries' = Append(entries, e)
          /\ sink' = Append(sink, e) \/ (sink' = sink /\ ending' = "raised")
          /\ pc' \in {"idle", "plan"}
      BY <1>1, LoopAssumption
         DEF RunTask, FreshLocals, NewRunId, Emit, EmitRaises, Raise, IInv, TypeOK
    <2>2. Trace' = OpenTrace(run_id', iterations')
      BY <2>1, TraceCasesNext DEF TraceShape
    <2>3. OpenTrace(run_id', iterations') = Append(<<>>, e)
      <3>1. /\ OpenTrace(run_counter, <<>>) \in Seq(Entry)
            /\ Len(OpenTrace(run_counter, <<>>)) = 1
            /\ OpenTrace(run_counter, <<>>)[1] = e
        <4>1. <<>> \in Seq(Iteration) /\ Len(<<>>) = 0
          OBVIOUS
        <4>2. /\ OpenTrace(run_counter, <<>>) \in Seq(Entry)
              /\ Len(OpenTrace(run_counter, <<>>)) = Len(<<>>) + 1
              /\ OpenTrace(run_counter, <<>>)[1] = StartEntry(run_counter)
          BY <2>1, <4>1, OpenTraceType
        <4> QED BY <4>1, <4>2
      <3> QED BY <2>1, <3>1
    <2>4. <<>> \in Seq(Entry) /\ e \in Entry
      BY <2>1, EntryTypes
    <2>5. EndsWith(entries, <<>>) /\ EndsWith(sink, <<>>)
      <3>1. ASSUME NEW log \in Seq(Entry) PROVE EndsWith(log, <<>>)
        <4>1. Len(<<>>) = 0 /\ Len(log) \in Nat
          OBVIOUS
        <4>2. /\ Len(<<>>) <= Len(log)
              /\ \A j \in 1..Len(<<>>) : log[Len(log) - Len(<<>>) + j] = <<>>[j]
          BY <4>1
        <4> QED BY <2>4, <4>2, EndsWithElements
      <3> QED BY <2>1, <3>1
    <2> HIDE DEF e
    <2>6. Trace' = Append(<<>>, e)
      BY <2>2, <2>3
    <2>7. EndsWith(entries', Trace') /\ SinkTrace'
      BY <2>1, <2>4, <2>5, <2>6, RecordKept
    <2> QED BY <2>1, <2>7 DEF TraceInv
  <1>2. ASSUME NEW c \in Caps, RejectCap(c) PROVE TraceInv'
    BY <1>2 DEF RejectCap, TraceInv
  <1>3. ASSUME PlannerPlans \/ ExecutorReturns PROVE TraceInv'
    <2>1. /\ entries' = entries /\ sink' = sink /\ runs' = runs /\ ending' = ending
          /\ run_id' = run_id /\ iterations' = iterations
          /\ pc \notin {"idle", "save"} /\ pc' \notin {"idle", "save"}
      BY <1>3 DEF PlannerPlans, ExecutorReturns, logger
    <2>2. Trace' = Trace
      BY <2>1, TraceCases, TraceCasesNext DEF TraceShape
    <2> QED BY <2>1, <2>2, TraceKept
  <1>4. ASSUME PlannerMalformed \/ ExecutorRaises \/ ReviewerDecides \/ ReviewerMalformed
        PROVE  TraceInv'
    <2>0. PICK it \in Iteration : \E fb : EndIteration(it, fb)
      BY <1>4, EndsIteration
    <2>1. PICK fb : EndIteration(it, fb)
      BY <2>0
    <2> DEFINE e == IterationEntry(run_id, it)
               t == OpenTrace(run_id, iterations)
    <2>2. InLoop /\ pc \notin {"idle", "save"} /\ result = None
      BY <1>4, EndsIteration DEF InLoop, IInv, LoopInv
    <2>3. /\ iterations' = Append(iterations, it) /\ run_id' = run_id /\ runs' = runs
          /\ entries' = Append(entries, e)
          /\ sink' = Append(sink, e) \/ (sink' = sink /\ ending' = "raised")
          /\ pc' \in {"plan", "finish"} \/ (pc' = "idle" /\ result' = result)
      BY <2>1 DEF EndIteration, Emit, EmitRaises, Raise, NextIteration
    <2>4. /\ Trace = t /\ t \in Seq(Entry)
          /\ entries \in Seq(Entry) /\ sink \in Seq(Entry)
          /\ EndsWith(entries, t) /\ EndsWith(sink, t) /\ runs > 0
      <3>1. Trace = t /\ t \in Seq(Entry)
        BY <2>2, TraceCases DEF TraceShape
      <3> QED BY <2>2, <3>1, TraceUnderWay
    <2>5. e \in Entry /\ run_id \in Nat /\ iterations \in Seq(Iteration)
      <3>1. run_id \in Nat /\ iterations \in Seq(Iteration)
        BY DEF IInv, TypeOK
      <3> QED BY <3>1, EntryTypes
    <2>6. Trace' = Append(t, e)
      <3>1. Trace' = OpenTrace(run_id', iterations')
        BY <2>2, <2>3, TraceCasesNext DEF TraceShape
      <3>2. OpenTrace(run_id, Append(iterations, it)) = Append(t, e)
        BY <2>5, OpenTraceGrows
      <3> QED BY <2>3, <3>1, <3>2
    <2> HIDE DEF t, e
    <2>7. EndsWith(entries', Trace') /\ SinkTrace'
      BY <2>3, <2>4, <2>5, <2>6, RecordKept
    <2> QED BY <2>3, <2>4, <2>7 DEF TraceInv
  <1>5. ASSUME AgentRaises PROVE TraceInv'
    <2>1. /\ entries' = entries /\ sink' = sink /\ runs' = runs /\ ending = "none"
          /\ run_id' = run_id /\ iterations' = iterations
          /\ pc \notin {"idle", "save"} /\ pc' = "idle" /\ result' = None
      BY <1>5 DEF AgentRaises, Raise, logger, local, IInv, LoopInv, InLoop
    <2>2. Trace' = Trace
      BY <2>1, TraceCases, TraceCasesNext DEF TraceShape
    <2> QED BY <2>1, <2>2, TraceKept
  <1>6. ASSUME FinishRun PROVE TraceInv'
    <2> DEFINE e == EndEntry(run_id, result)
               t == OpenTrace(run_id, iterations)
    <2>1. /\ pc = "finish" /\ result # None /\ result \in RunResult /\ run_id \in Nat
      BY <1>6 DEF FinishRun, IInv, LoopInv, TypeOK
    <2>2. /\ iterations' = iterations /\ run_id' = run_id /\ runs' = runs /\ result' = result
          /\ entries' = Append(entries, e)
          /\ sink' = Append(sink, e) \/ (sink' = sink /\ ending' = "raised")
          /\ pc' \in {"idle", "save"}
      BY <1>6 DEF FinishRun, Emit, EmitRaises, Raise, Return, local
    <2>3. /\ Trace = t /\ t \in Seq(Entry)
          /\ entries \in Seq(Entry) /\ sink \in Seq(Entry)
          /\ EndsWith(entries, t) /\ EndsWith(sink, t) /\ runs > 0
      <3>1. Trace = t /\ t \in Seq(Entry)
        BY <2>1, TraceCases DEF TraceShape
      <3> QED BY <2>1, <3>1, TraceUnderWay
    <2>4. e \in Entry
      BY <2>1, EntryTypes
    <2>5. Trace' = Append(t, e)
      <3>1. Trace' = Append(OpenTrace(run_id', iterations'), EndEntry(run_id', result'))
        BY <2>1, <2>2, TraceCasesNext DEF TraceShape
      <3> QED BY <2>2, <3>1
    <2> HIDE DEF t, e
    <2>6. EndsWith(entries', Trace') /\ SinkTrace'
      BY <2>2, <2>3, <2>4, <2>5, RecordKept
    <2> QED BY <2>2, <2>3, <2>6 DEF TraceInv
  <1>7. ASSUME SaveRun \/ SaveRunRaises PROVE TraceInv'
    <2>1. /\ entries' = entries /\ sink' = sink /\ runs' = runs /\ ending = "none"
          /\ run_id' = run_id /\ iterations' = iterations /\ result' = result
          /\ pc = "save" /\ pc' = "idle" /\ result # None
      BY <1>7 DEF SaveRun, SaveRunRaises, Return, Raise, logger, local, IInv, LoopInv
    <2>2. Trace' = Trace
      BY <2>1, TraceCases, TraceCasesNext DEF TraceShape
    <2> QED BY <2>1, <2>2, TraceKept
  <1>8. CASE UNCHANGED vars
    <2>1. /\ entries' = entries /\ sink' = sink /\ runs' = runs /\ ending' = ending
          /\ run_id' = run_id /\ iterations' = iterations /\ result' = result
          /\ pc' = pc
      BY <1>8 DEF vars, logger, local
    <2>2. Trace' = Trace
      BY <2>1, TraceCases, TraceCasesNext DEF TraceShape
    <2> QED BY <2>1, <2>2, TraceKept
  <1> QED BY <1>1, <1>2, <1>3, <1>4, <1>5, <1>6, <1>7, <1>8 DEF Next, Step

\* However a run ended, the log holds its start, every attempt that ended and,
\* if it was reported, its end; the file holds all of that but at most the last
\* record.  An attempt under way when the planner or the reviewer failed is in
\* neither.
THEOREM TraceCompleteHolds == Spec => []TraceComplete
  <1>1. Init => TraceInv
    BY DEF Init, TraceInv
  <1>2. IInv /\ IInv' /\ TraceInv /\ [Next]_vars => TraceInv'
    BY TraceInductive
  <1>3. TraceInv => TraceComplete
    BY DEF TraceInv, SinkTrace, TraceComplete
  <1> QED BY <1>1, <1>2, <1>3, Invariant, PTL DEF Spec

-----------------------------------------------------------------------------
(***************************************************************************)
(* The same facts without a behaviour, for a system that has the loop as   *)
(* a part.                                                                 *)
(***************************************************************************)
WholeInv == IInv /\ LogInv /\ SavedInv /\ TraceInv

LEMMA WholeInitially == Init => WholeInv
  BY Initially DEF Init, WholeInv, LogInv, Ordered, AtEnd, SavedInv, AllLogged, SavedLast,
                   Returned, TraceInv

LEMMA WholeInductive == WholeInv /\ [Next]_vars => WholeInv'
  BY Inductive, LogInductive, SavedInductive, TraceInductive DEF WholeInv

LEMMA WholeMeans ==
  WholeInv => CapExact /\ FeedbackFresh /\ LogInOrder /\ TraceComplete /\ SavedRuns
  BY DEF WholeInv, IInv, LogInv, Ordered, LogInOrder, TraceInv, SinkTrace, TraceComplete,
         SavedInv, SavedLast, AllLogged, Logged, SavedRuns
=============================================================================
