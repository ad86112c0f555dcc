-------------------------------- MODULE Query --------------------------------
(***************************************************************************)
(* A query of the vectorized engine, as a group of workers runs it: each   *)
(* builds the same tree of operators Scan, Select, Project and FixedAggr   *)
(* or ResultWriter with its own QueryBuilder, pulls the root, and meets    *)
(* the others in barriers; the last one chooses who delivers the result.   *)
(*                                                                         *)
(* A plan is what the builder was called with.  An operation of it has the *)
(* name `prim` of a primitive, the operator f it is instantiated with, the *)
(* buffer `out` that it writes, and its other arguments: <<"buffer", b>>,  *)
(* <<"column", c>> or <<"value", v>>.                                      *)
(***************************************************************************)
EXTENDS Scan, Primitives

CONSTANTS
  Plans,         \* the plans to look at
  Tables,        \* the tables to look at: a sequence of values per column
  Forms,         \* the loops that selections may be compiled to: see Select
  minBlockSize,  \* 128 elements in the code
  MaxValues      \* bound: values of a result

\* The primitives that a Select is built with.
Selections == {"sel_col_val", "sel_col_val_or_val", "sel_col_col",
               "selsel_col_val", "selsel_col_col"}

ASSUME QueryAssumption ==
  /\ minBlockSize \in Nat \ {0} /\ MaxValues \in Nat
  /\ Forms \subseteq {"branching", "bf", "avx512"}
  /\ \A p \in Plans :
       /\ Len(p.select) \in Nat /\ \A k \in 1 .. Len(p.select) : p.select[k].prim \in Selections
       /\ Len(p.values) \in 0 .. MaxValues
       /\ \A k \in 1 .. Len(p.values) : p.values[k].size \in Nat \ {0}

VARIABLES
  plan, table, form,  \* what is run
  pc,            \* per worker: where it is
  buffers,       \* per worker: the memory behind Buffer(..) and the aggregators
  found,         \* per worker: what the root returned last
  built,         \* per worker: how many values its ResultWriter has as inputs
  currentBlock,  \* per worker: the number of its block of the result, or 0
  entered, finalized, tripped,  \* the barrier of the worker group
  attributes,    \* of the result: element size and offset in a block
  blocks,        \* of the result, in the order of their creation
  aggr, n,       \* the atomic sums of the aggregators and of what was found
  leader,        \* the worker to which the last barrier returned true
  result         \* what the leader has delivered: <<>> before that

input == <<plan, table, form>>
barrierVars == <<entered, finalized, tripped>>
shared == <<attributes, blocks, aggr, n, leader, result>>
vars == <<scanVars, input, pc, buffers, found, built, currentBlock, barrierVars, shared>>

barrier == INSTANCE Rendezvous WITH Threads <- Workers, MaxWaits <- MaxValues + 1

writes == plan.values # <<>>
\* The last barrier of a worker, after those of its values.
nrValues == Len(plan.values)

\* buffers of a plan: those that its operations write.
Buffers(p) == {o.out : o \in ToSet(p.select) \cup ToSet(p.aggregates)
                             \cup UNION {ToSet(e) : e \in ToSet(p.project)}}

QueryInit ==
  /\ Init
  /\ plan \in Plans /\ table \in Tables /\ form \in Forms
  /\ pc = [w \in Workers |-> "build"]
  /\ buffers = [w \in Workers |-> [b \in Buffers(plan) |-> [i \in 1 .. vecSize |-> 0]]]
  /\ found = [w \in Workers |-> 0]
  /\ built = [w \in Workers |-> 0]
  /\ currentBlock = [w \in Workers |-> 0]
  /\ barrier!Init
  /\ attributes = <<>> /\ blocks = <<>> /\ aggr = 0 /\ n = 0
  /\ leader \in {CHOOSE w \in Workers : TRUE} /\ result = <<>>

-----------------------------------------------------------------------------
(* ResultBuilder::addValue, and the last barrier *)

\* The worker comes to the barrier of its next value, or to the last one.
Enter(w) ==
  /\ pc[w] \in {"build", "report"} /\ (pc[w] = "build" => built[w] < nrValues)
  /\ barrier!Enter(w)
  /\ pc' = [pc EXCEPT ![w] = IF @ = "build" THEN "adding" ELSE "leaving"]
  /\ UNCHANGED <<scanVars, input, buffers, found, built, currentBlock, shared>>

\* Bytes of a tuple: currentAttributeSize.
TupleSize == IF attributes = <<>> THEN 0
             ELSE LET a == attributes[Len(attributes)] IN a.offset + a.size

\* addAttribute, as finalizer of the barrier; that of the last barrier does
\* nothing.  One worker is told that it is the leader.
Finalize ==
  /\ barrier!Finalize
  /\ IF finalized < nrValues
     THEN /\ attributes' = Append(attributes, [size |-> plan.values[finalized + 1].size,
                                               offset |-> TupleSize])
          /\ UNCHANGED leader
     ELSE leader' \in Workers /\ UNCHANGED attributes
  /\ UNCHANGED <<scanVars, input, pc, buffers, found, built, currentBlock, blocks,
                 aggr, n, result>>

Trip ==
  /\ barrier!Trip
  /\ UNCHANGED <<scanVars, input, pc, buffers, found, built, currentBlock, shared>>

\* The rest of addValue: the attribute becomes an input of the ResultWriter.
AddInput(w) ==
  /\ pc[w] = "adding" /\ tripped = entered[w]
  /\ built' = [built EXCEPT ![w] = @ + 1]
  /\ pc' = [pc EXCEPT ![w] = "build"]
  /\ UNCHANGED <<scanVars, input, buffers, found, currentBlock, barrierVars, shared>>

\* The tree is complete: the worker calls next() of its root.
Start(w) ==
  /\ pc[w] = "build" /\ built[w] = nrValues
  /\ pc' = [pc EXCEPT ![w] = "pull"]
  /\ UNCHANGED <<scanVars, input, buffers, found, built, currentBlock, barrierVars, shared>>

-----------------------------------------------------------------------------
(* Operations on a vector *)

\* addOp: the arguments of an operation that the scan moves as it goes on.
addOp(op) == {k \in DOMAIN op.args : op.args[k][1] = "column"}

\* An argument: the contents of a buffer, a constant, or a column from the row
\* on that its pointer points to.
Argument(w, mem, op, k) ==
  LET arg == op.args[k]
      first == IF k \in addOp(op) THEN colPtr[w] ELSE 0
  IN  CASE arg[1] = "buffer" -> mem[arg[2]]
        [] arg[1] = "value" -> arg[2]
        [] arg[1] = "column" ->
             SubSeq(table[arg[2]], first + 1, Min({first + vecSize, nrTuples}))

\* The selections, with the arguments a.
RunSelect(op, m, a, out) ==
  CASE op.prim = "sel_col_val" -> sel_col_val(form, op.f, m, out, a[1], a[2])
    [] op.prim = "sel_col_val_or_val" -> sel_col_val_or_val(op.f, m, out, a[1], a[2], a[3])
    [] op.prim = "sel_col_col" -> sel_col_col(form, op.f, m, out, a[1], a[2])
    [] op.prim = "selsel_col_val" -> selsel_col_val(form, op.f, m, a[1], out, a[2], a[3])
    [] op.prim = "selsel_col_col" -> selsel_col_col(form, op.f, m, a[1], out, a[2], a[3])

RunProject(op, m, a, out) ==
  CASE op.prim = "proj_col_val" -> proj_col_val(op.f, m, out, a[1], a[2])
    [] op.prim = "proj_val_col" -> proj_val_col(op.f, m, out, a[1], a[2])
    [] op.prim = "proj_col_col" -> proj_col_col(op.f, m, out, a[1], a[2])
    [] op.prim = "proj_sel_col_val" -> proj_sel_col_val(op.f, m, a[1], out, a[2], a[3])
    [] op.prim = "proj_sel_val_col" -> proj_sel_val_col(op.f, m, a[1], out, a[2], a[3])
    [] op.prim = "proj_sel_both_col_col" -> proj_sel_both_col_col(op.f, m, a[1], out, a[2], a[3])
    [] op.prim = "proj_sel_col_col" -> proj_sel_col_col(op.f, m, a[1], out, a[2], a[3])
    [] op.prim = "proj_col_sel_col" -> proj_col_sel_col(op.f, m, a[1], out, a[2], a[3])

\* The aggregator is the first element of the buffer `out`.
RunAggregate(op, m, a, out) ==
  CASE op.prim = "aggr_static_col" -> aggr_static_col(op.f, m, out[1], a[1])
    [] op.prim = "aggr_static_sel_col" -> aggr_static_sel_col(op.f, m, a[1], out[1], a[2])
    [] op.prim = "aggr_static_count_star" -> aggr_static_count_star(m, out[1])

\* ExperimentConfig: projections that have an AVX-512 form are run in it if the
\* configuration says so.
ConfiguredProject(op, m, a, out) ==
  LET simd(prim, f) == form = "avx512" /\ op.prim = prim /\ op.f = f
  IN  CASE simd("proj_sel_val_col", "minus") -> proj_sel8_minus_val_col(m, a[1], out, a[2], a[3])
        [] simd("proj_sel_col_val", "plus") -> proj_sel8_plus_col_val(m, a[1], out, a[2], a[3])
        [] simd("proj_col_col", "multiplies") -> proj8_multiplies_col_col(m, out, a[1], a[2])
        [] simd("proj_sel_col_col", "multiplies") ->
             proj8_multiplies_sel_col_col(m, a[1], out, a[2], a[3])
        [] OTHER -> RunProject(op, m, a, out)

\* The function pointer of an operation: how many tuples come out, and what is
\* in the buffer `out` then.
RunPrimitive(kind, op, m, a, out) ==
  CASE kind = "select" -> RunSelect(op, m, a, out)
    [] kind = "project" -> [n |-> m, out |-> ConfiguredProject(op, m, a, out)]
    [] kind = "aggregate" ->
         Then(RunAggregate(op, m, a, out), LAMBDA r : [n |-> r.n, out |-> Store(out, 0, <<r.out>>)])

\* Op::run of each kind of operation.
Run(w, kind, st, op) ==
  LET a == [k \in DOMAIN op.args |-> Argument(w, st.mem, op, k)]
      Written(r) == [n |-> r.n, mem |-> [st.mem EXCEPT ![op.out] = r.out]]
  IN  Then(RunPrimitive(kind, op, st.n, a, st.mem[op.out]), Written)

\* Expression::evaluate: an operation works on what the one before has found.
Filtered(w, mem, m) ==
  Iterate(LAMBDA st, k : Run(w, "select", st, plan.select[k]), [n |-> m, mem |-> mem],
          Len(plan.select))

\* Project: each expression is evaluated for all tuples.
Projected(w, mem, m) ==
  LET Expression(st, e) == Iterate(LAMBDA s, k : Run(w, "project", s, plan.project[e][k]), st,
                                   Len(plan.project[e]))
  IN  Iterate(Expression, [n |-> m, mem |-> mem], Len(plan.project)).mem

\* Aggregates::evaluate: each aggregate, of all tuples; the last one's answer.
Aggregated(w, mem, m) ==
  Iterate(LAMBDA st, k : Run(w, "aggregate", [n |-> m, mem |-> st.mem], plan.aggregates[k]),
          [n |-> 0, mem |-> mem], Len(plan.aggregates))

\* Faulty variant: a block has always the minimum size.
createBlockMin(m) ==
  [size |-> 0, maxNrElements |-> minBlockSize,
   bytes |-> [i \in 1 .. minBlockSize * TupleSize |-> <<0, 0>>]]

createBlock(m) ==
  LET elements == Max({minBlockSize, m})
  IN  [size |-> 0, maxNrElements |-> elements,
       bytes |-> [i \in 1 .. elements * TupleSize |-> <<0, 0>>]]

\* Block::data: the areas of the attributes lie one behind the other.
DataOf(block, attr) == attributes[attr].offset * block.maxNrElements

spaceRemaining(b) == IF b = 0 THEN 0 ELSE blocks[b].maxNrElements - blocks[b].size

\* The bytes of m elements of a buffer.
BytesOf(buffer, m, size) ==
  [i \in 1 .. m * size |-> <<buffer[((i - 1) \div size) + 1], (i - 1) % size>>]

\* ResultWriter::next, for m tuples: all inputs are copied behind the elements
\* that the block has.
Filled(block, mem, m) ==
  LET Copy(bytes, k) ==
        LET size == attributes[k].size
        IN  Store(bytes, DataOf(block, k) + size * block.size,
                  BytesOf(mem[plan.values[k].buffer], m, size))
  IN  [block EXCEPT !.bytes = Iterate(Copy, block.bytes, nrValues), !.size = @ + m]

Write(w, mem, m) ==
  /\ IF spaceRemaining(currentBlock[w]) < m
     THEN /\ blocks' = Append(blocks, Filled(createBlock(m), mem, m))
          /\ currentBlock' = [currentBlock EXCEPT ![w] = Len(blocks')]
     ELSE /\ blocks' = [blocks EXCEPT ![currentBlock[w]] = Filled(@, mem, m)]
          /\ UNCHANGED currentBlock
  /\ found' = [found EXCEPT ![w] = @ + m]

-----------------------------------------------------------------------------
(* The tree at work *)

\* Scan::next.
Pull(w) ==
  /\ pc[w] = "pull"
  /\ ScanNext(w)
  /\ pc' = [pc EXCEPT ![w] = IF exhausted'[w] THEN "add" ELSE "vector"]
  /\ UNCHANGED <<input, buffers, found, built, currentBlock, barrierVars, shared>>

\* The operators above the scan, for one vector.  Select pulls again if it has
\* found nothing, as 0 means EndOfStream to those above it.
Process(w) ==
  /\ pc[w] = "vector"
  /\ pc' = [pc EXCEPT ![w] = "pull"]
  /\ \E s \in {Filtered(w, buffers[w], Cardinality(batch[w]))} :
       IF s.n = 0
       THEN /\ buffers' = [buffers EXCEPT ![w] = s.mem]
            /\ UNCHANGED <<found, currentBlock, blocks>>
       ELSE \E mem \in {Projected(w, s.mem, s.n)} :
              IF writes
              THEN Write(w, mem, s.n) /\ buffers' = [buffers EXCEPT ![w] = mem]
              ELSE \E r \in {Aggregated(w, mem, s.n)} :
                     /\ buffers' = [buffers EXCEPT ![w] = r.mem]
                     /\ found' = [found EXCEPT ![w] = r.n]
                     /\ UNCHANGED <<currentBlock, blocks>>
  /\ UNCHANGED <<scanVars, input, built, barrierVars, attributes, aggr, n, leader, result>>

\* Faulty variant: a worker that has found nothing leaves before the barrier.
AddAggregateLeaves(w) ==
  /\ pc[w] = "add"
  /\ IF writes \/ found[w] = 0
     THEN pc' = [pc EXCEPT ![w] = IF found[w] = 0 THEN "done" ELSE "report"] /\ UNCHANGED aggr
     ELSE /\ aggr' = aggr + buffers[w].aggregator[1]
          /\ pc' = [pc EXCEPT ![w] = "count"]
  /\ UNCHANGED <<scanVars, input, buffers, found, built, currentBlock, barrierVars,
                 attributes, blocks, n, leader, result>>

\* The root has returned: a sum over nothing is not added.
AddAggregate(w) ==
  /\ pc[w] = "add"
  /\ IF writes \/ found[w] = 0
     THEN pc' = [pc EXCEPT ![w] = "report"] /\ UNCHANGED aggr
     ELSE /\ aggr' = aggr + buffers[w].aggregator[1]
          /\ pc' = [pc EXCEPT ![w] = "count"]
  /\ UNCHANGED <<scanVars, input, buffers, found, built, currentBlock, barrierVars,
                 attributes, blocks, n, leader, result>>

AddFound(w) ==
  /\ pc[w] = "count"
  /\ n' = n + found[w]
  /\ pc' = [pc EXCEPT ![w] = "report"]
  /\ UNCHANGED <<scanVars, input, buffers, found, built, currentBlock, barrierVars,
                 attributes, blocks, aggr, leader, result>>

\* An element of the result that was read back; "torn" if bytes of it are not
\* those of one value.
Element(block, attr, i) ==
  LET size == attributes[attr].size
      at == DataOf(block, attr) + (i - 1) * size
      value == block.bytes[at + 1][1]
  IN  IF \A k \in 1 .. size : block.bytes[at + k] = <<value, k - 1>> THEN value ELSE "torn"

Delivered(block) == [i \in 1 .. block.size |-> [k \in 1 .. nrValues |-> Element(block, k, i)]]

\* The last barrier is behind the worker: the leader delivers the result.
Leave(w) ==
  /\ pc[w] = "leaving" /\ tripped = entered[w]
  /\ pc' = [pc EXCEPT ![w] = "done"]
  /\ result' = IF w # leader THEN result
               ELSE IF writes
               THEN <<FlattenSeq([b \in DOMAIN blocks |-> Delivered(blocks[b])])>>
               ELSE <<IF n = 0 THEN <<>> ELSE <<<<aggr>>>>>>
  /\ UNCHANGED <<scanVars, input, buffers, found, built, currentBlock, barrierVars,
                 attributes, blocks, aggr, n, leader>>

Worker(w) ==
  \/ Enter(w) \/ AddInput(w) \/ Start(w) \/ Pull(w) \/ Process(w)
  \/ AddAggregate(w) \/ AddFound(w) \/ Leave(w)

Step == Finalize \/ Trip \/ \E w \in Workers : Worker(w)

Done == \A w \in Workers : pc[w] = "done"

\* All workers have left: the system may stop.
QueryStop == Done /\ UNCHANGED vars

QueryNext == Step \/ QueryStop

\* Some worker that can go on does.
QuerySpec == QueryInit /\ [][QueryNext]_vars /\ WF_vars(Step)

-----------------------------------------------------------------------------
(* What a plan means, tuple by tuple: without vectors, selection vectors and
   buffers that are shared.  Row r has the values env of the buffers. *)

ValueIn(env, r, arg) ==
  CASE arg[1] = "buffer" -> env[arg[2]]
    [] arg[1] = "column" -> table[arg[2]][r]
    [] arg[1] = "value" -> arg[2]

\* The operands of an operation are its arguments less the selection vector.
Operand(env, r, op, k) ==
  ValueIn(env, r, SelectSeq(op.args, LAMBDA a : a[1] # "buffer" \/ a[2] \notin plan.sels)[k])

Passes(r) ==
  \A op \in ToSet(plan.select) :
    LET v(k) == Operand(<<>>, r, op, k)
    IN  \/ Compare(op.f, v(1), v(2))
        \/ op.prim = "sel_col_val_or_val" /\ Compare(op.f, v(1), v(3))

Meaning(r) ==
  LET ops == FlattenSeq(plan.project)
  IN  Iterate(LAMBDA env, k : [env EXCEPT ![ops[k].out] =
                Arith(ops[k].f, Operand(env, r, ops[k], 1), Operand(env, r, ops[k], 2))],
              [b \in Buffers(plan) |-> 0], Len(ops))

Answers == SelectSeq(Identity(nrTuples), Passes)

Total ==
  LET op == plan.aggregates[1]
      Term(r) == IF op.prim = "aggr_static_count_star" THEN 1 ELSE Operand(Meaning(r), r, op, 1)
  IN  Iterate(LAMBDA sum, k : sum + Term(Answers[k]), 0, Len(Answers))

Count(s, x) == Cardinality({i \in DOMAIN s : s[i] = x})

\* The result is the answer to the query, whatever worker gets whatever vector
\* and in whatever order: no worker's part is missing when the leader reads,
\* and what is selected, projected and copied are the same tuples.
ResultExact ==
  result # <<>> =>
    LET rows == result[1]
    IN  IF writes
        THEN LET expected == [a \in DOMAIN Answers |-> [k \in 1 .. nrValues |->
                               Meaning(Answers[a])[plan.values[k].buffer]]]
             IN  /\ Len(rows) = Len(expected)
                 /\ \A x \in ToSet(rows) : Count(rows, x) = Count(expected, x)
        ELSE rows = IF Answers = <<>> THEN <<>> ELSE <<<<Total>>>>

\* No block is written that was created before all attributes were there, and
\* none beyond its end (assert(header->size <= header->maxNrElements),
\* Database.hpp:157).
BlocksWhole ==
  \A b \in DOMAIN blocks :
    /\ blocks[b].size <= blocks[b].maxNrElements
    /\ Len(blocks[b].bytes) = blocks[b].maxNrElements * TupleSize

\* Each worker leaves its barriers, and the query ends with a result.
QueryEnds == <>(Done /\ result # <<>>)
=============================================================================
