------------------------------ MODULE HybridQ6 ------------------------------
(***************************************************************************)
(* q6_hybrid (src/benchmarks/tpch/queries/q6.cpp): while one thread has    *)
(* the compiled (Typer) version of the query linked and loaded, a group of *)
(* workers runs the vectorized (Tectorwise) version.  When the library is  *)
(* there the workers stop, and the compiled code goes on from the number   *)
(* of tuples they counted.                                                 *)
(*                                                                         *)
(* A sum is modelled by what went into it: a function that gives, for each *)
(* row of lineitem, how often its revenue was added.                       *)
(***************************************************************************)
EXTENDS Scan

CONSTANTS
  Qualifying,   \* sets of rows that the WHERE clause of Q6 may select
  LinkResults   \* what linking may end in, out of {"loaded", "failed"}

ASSUME HybridAssumption ==
  /\ Qualifying \subseteq SUBSET Rows /\ Qualifying # {}
  /\ LinkResults \subseteq {"loaded", "failed"} /\ LinkResults # {}

VARIABLES
  selected,         \* the rows that qualify, in this database
  typerLib,         \* the std::atomic pointer: "null" or "loaded"
  compiler,         \* the compilation thread: "link" or "exited"
  loopAt,           \* where each worker is in its loop
  aggregator,       \* per worker: its thread-local sum
  atomicAggr,       \* the atomic sum of the workers
  processedTuples,  \* the atomic count of the workers
  main,             \* the calling thread
  revenue           \* the result that Typer returns

queryVars == <<selected, typerLib, compiler, loopAt, aggregator, atomicAggr,
               processedTuples, main, revenue>>
hybridVars == <<scanVars, queryVars>>

Zero == [r \in Rows |-> 0]
Plus(f, g) == [r \in Rows |-> f[r] + g[r]]
\* What a set of rows adds to the sum: the rows that qualify, once each.
SumOver(rows) == [r \in Rows |-> IF r \in rows \cap selected THEN 1 ELSE 0]

HybridInit ==
  /\ Init
  /\ selected \in Qualifying
  /\ typerLib = "null"
  /\ compiler = "link"
  /\ loopAt = [w \in Workers |-> "fetch"]
  /\ aggregator = [w \in Workers |-> Zero]
  /\ atomicAggr = Zero
  /\ processedTuples = 0
  /\ main = "workers"
  /\ revenue = Zero

-----------------------------------------------------------------------------
\* The compilation thread links and loads the library, and publishes it; a
\* HybridException is caught and printed, and the pointer stays null.
Link(r) ==
  /\ compiler = "link"
  /\ compiler' = "exited"
  /\ typerLib' = IF r = "loaded" THEN "loaded" ELSE typerLib
  /\ UNCHANGED <<scanVars, selected, loopAt, aggregator, atomicAggr, processedTuples,
                 main, revenue>>

\* topAggr->child->next(): Select pulls from the scan until a vector has a row
\* that qualifies; vectors without one never reach the loop of the worker.
ChildNext(w) ==
  /\ loopAt[w] = "fetch"
  /\ ScanNext(w)
  /\ loopAt' = [loopAt EXCEPT ![w] = IF exhausted'[w] THEN "store"
                                     ELSE IF batch'[w] \cap selected = {} THEN "fetch"
                                     ELSE "check"]
  /\ UNCHANGED <<selected, typerLib, compiler, aggregator, atomicAggr,
                 processedTuples, main, revenue>>

\* The loop condition: with the library there, the vector is dropped.
CheckLib(w) ==
  /\ loopAt[w] = "check"
  /\ loopAt' = [loopAt EXCEPT ![w] = IF typerLib = "null" THEN "evaluate" ELSE "store"]
  /\ UNCHANGED <<scanVars, selected, typerLib, compiler, aggregator, atomicAggr,
                 processedTuples, main, revenue>>

\* Faulty variant: the library is looked for between the sum and the count.
EvaluateThenCheck(w) ==
  /\ loopAt[w] = "evaluate"
  /\ aggregator' = [aggregator EXCEPT ![w] = Plus(@, SumOver(batch[w]))]
  /\ loopAt' = [loopAt EXCEPT ![w] = IF typerLib = "null" THEN "count" ELSE "store"]
  /\ UNCHANGED <<scanVars, selected, typerLib, compiler, atomicAggr,
                 processedTuples, main, revenue>>

\* aggregates.evaluate(pos): add the vector to the thread-local sum.
Evaluate(w) ==
  /\ loopAt[w] = "evaluate"
  /\ aggregator' = [aggregator EXCEPT ![w] = Plus(@, SumOver(batch[w]))]
  /\ loopAt' = [loopAt EXCEPT ![w] = "count"]
  /\ UNCHANGED <<scanVars, selected, typerLib, compiler, atomicAggr,
                 processedTuples, main, revenue>>

\* processedTuples.fetch_add(vectorSize)
CountVector(w) ==
  /\ loopAt[w] = "count"
  /\ processedTuples' = processedTuples + vecSize
  /\ loopAt' = [loopAt EXCEPT ![w] = "fetch"]
  /\ UNCHANGED <<scanVars, selected, typerLib, compiler, aggregator, atomicAggr,
                 main, revenue>>

\* aggr.fetch_add(query->aggregator), and the worker is done.
StoreSum(w) ==
  /\ loopAt[w] = "store"
  /\ atomicAggr' = Plus(atomicAggr, aggregator[w])
  /\ loopAt' = [loopAt EXCEPT ![w] = "done"]
  /\ UNCHANGED <<scanVars, selected, typerLib, compiler, aggregator,
                 processedTuples, main, revenue>>

\* The caller gets its workers back, joins the compilation thread, and clamps
\* the count; without a library it throws a HybridException.
Handoff ==
  /\ main = "workers"
  /\ \A w \in Workers : loopAt[w] = "done"
  /\ compiler = "exited"
  /\ processedTuples' = IF processedTuples > nrTuples THEN nrTuples ELSE processedTuples
  /\ main' = IF typerLib = "null" THEN "threw" ELSE "typer"
  /\ UNCHANGED <<scanVars, selected, typerLib, compiler, loopAt, aggregator, atomicAggr, revenue>>

\* The generated code: a parallel_reduce over the rows from firstTuple on,
\* added to the workers' sum.
Typer ==
  /\ main = "typer"
  /\ revenue' = Plus(atomicAggr, SumOver(processedTuples .. nrTuples - 1))
  /\ main' = "returned"
  /\ UNCHANGED <<scanVars, selected, typerLib, compiler, loopAt, aggregator, atomicAggr,
                 processedTuples>>

HybridWorker(w) == ChildNext(w) \/ CheckLib(w) \/ Evaluate(w) \/ CountVector(w) \/ StoreSum(w)

\* The query has returned or thrown: the system may stop.
HybridStop == main \in {"returned", "threw"} /\ UNCHANGED hybridVars

HybridNext ==
  \/ \E r \in LinkResults : Link(r)
  \/ \E w \in Workers : HybridWorker(w)
  \/ Handoff
  \/ Typer
  \/ HybridStop

\* Every thread keeps running, and linking (a call of the compiler) returns.
Fairness ==
  /\ WF_hybridVars(\E r \in LinkResults : Link(r))
  /\ \A w \in Workers : WF_hybridVars(HybridWorker(w))
  /\ WF_hybridVars(Handoff \/ Typer)

HybridSpec == HybridInit /\ [][HybridNext]_hybridVars /\ Fairness

-----------------------------------------------------------------------------

\* The case in which the count of the workers says which rows they have added:
\* one worker, and a row that qualifies in each vector.
WorkersCountRows ==
  /\ \E w \in Workers : Workers = {w}
  /\ \A rows \in Qualifying : \A v \in 0 .. nrTuples :
       v * vecSize < nrTuples =>
         \E r \in rows : v * vecSize <= r /\ r < (v + 1) * vecSize

\* The answer of the hybrid query is the answer of the query, at whatever
\* moment the library arrives: Typer processes "remaining tuples" (q6.cpp:99),
\* those that the workers have not, and all of those.
EachTupleOnce == main = "returned" => revenue = SumOver(Rows)

=============================================================================
