------------------------------ MODULE MCQuery ------------------------------
(***************************************************************************)
(* Plans and tables for module Query.                                      *)
(***************************************************************************)
EXTENDS Query

Op(prim, f, out, args) == [prim |-> prim, f |-> f, out |-> out, args |-> args]
Buffer(b) == <<"buffer", b>>
Column(c) == <<"column", c>>
Value(v) == <<"value", v>>
Plan(select, project, aggregates, values) ==
  [select |-> select, project |-> project, aggregates |-> aggregates, values |-> values,
   sels |-> {"sel_a", "sel_b"}]
Sum(buffer) == <<Op("aggr_static_col", "plus", "aggregator", <<Buffer(buffer)>>)>>

\* TPC-H Q6 (q6.cpp:205-247): selections that alternate between two buffers.
Q6 == Plan(
  <<Op("sel_col_val", "less", "sel_a", <<Column(1), Value(3)>>),
    Op("selsel_col_val", "greater_equal", "sel_b", <<Buffer("sel_a"), Column(1), Value(1)>>),
    Op("selsel_col_val", "less", "sel_a", <<Buffer("sel_b"), Column(2), Value(3)>>)>>,
  <<<<Op("proj_sel_both_col_col", "multiplies", "product",
         <<Buffer("sel_a"), Column(1), Column(2)>>)>>>>,
  Sum("product"), <<>>)

\* The expressions of TPC-H Q1 (q1.cpp:329-353), written out.
Q1 == Plan(
  <<Op("sel_col_val", "less_equal", "sel_a", <<Column(1), Value(2)>>)>>,
  <<<<Op("proj_sel_val_col", "minus", "minus", <<Buffer("sel_a"), Value(5), Column(2)>>),
      Op("proj_sel_col_col", "multiplies", "disc_price",
         <<Buffer("sel_a"), Column(1), Buffer("minus")>>)>>,
    <<Op("proj_sel_col_val", "plus", "plus", <<Buffer("sel_a"), Column(2), Value(1)>>),
      Op("proj_col_col", "multiplies", "charge", <<Buffer("disc_price"), Buffer("plus")>>)>>>>,
  <<>>, <<[buffer |-> "disc_price", size |-> 2], [buffer |-> "charge", size |-> 1]>>)

\* Comparisons of columns, and of a column with two constants.
Columns == Plan(
  <<Op("sel_col_val_or_val", "equal_to", "sel_a", <<Column(1), Value(1), Value(3)>>),
    Op("selsel_col_col", "greater", "sel_b", <<Buffer("sel_a"), Column(1), Column(2)>>)>>,
  <<<<Op("proj_sel_both_col_col", "minus", "minus", <<Buffer("sel_b"), Column(1), Column(2)>>),
      Op("proj_val_col", "minus", "rest", <<Value(5), Buffer("minus")>>),
      Op("proj_col_sel_col", "divides", "part", <<Buffer("sel_b"), Buffer("rest"), Column(1)>>),
      Op("proj_col_val", "modulus", "digit", <<Buffer("part"), Value(2)>>)>>>>,
  <<>>, <<[buffer |-> "digit", size |-> 1]>>)

\* Aggregates without a projection: a sum through a selection vector, and the
\* count of a unit test (test/vectorwise/Operators.cpp:36-45).
SelectedSum == Plan(
  <<Op("sel_col_col", "less", "sel_a", <<Column(1), Column(2)>>)>>, <<>>,
  <<Op("aggr_static_sel_col", "plus", "aggregator", <<Buffer("sel_a"), Column(2)>>)>>, <<>>)
SelectedCount == Plan(
  <<Op("sel_col_val", "equal_to", "sel_a", <<Column(1), Value(2)>>)>>, <<>>,
  <<Op("aggr_static_count_star", "plus", "aggregator", <<>>)>>, <<>>)

MCPlans == {Q6, Q1, Columns, SelectedSum, SelectedCount}

\* With vectors in which nothing is selected, and without.
MCTables == {<<<<1, 2, 3, 3, 2, 0, 1, 2, 2, 1, 3, 0, 2>>, <<2, 1, 0, 2, 2, 1, 0, 3, 3, 1, 2, 0, 4>>>>,
             <<<<4, 4, 4, 4, 4, 4, 4, 4, 4, 4, 4, 4, 4>>, <<4, 4, 4, 4, 4, 4, 4, 4, 4, 4, 4, 4, 4>>>>,
             <<<<3, 1, 3, 1, 2, 2, 2, 2, 1, 3, 1, 1, 3>>, <<0, 0, 2, 0, 3, 3, 0, 1, 0, 1, 0, 0, 2>>>>}
=============================================================================
