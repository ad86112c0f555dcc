----------------------------- MODULE MCImport -----------------------------
(* Tables of two columns and two rows for Import: the second column and the *)
(* first row vary.  Written is the text dbgen writes for a value.           *)
EXTENDS Import

Written(type, v) ==
  CASE type = "Integer" -> (IF v < 0 THEN <<"-">> ELSE <<>>) \o Decimal[IF v < 0 THEN -v ELSE v]
    [] type = "Numeric" ->
         LET a == IF v < 0 THEN -v ELSE v
         IN  (IF v < 0 THEN <<"-">> ELSE <<>>)
             \o Decimal[a \div 100] \o <<".">> \o Padded(a % 100, 2)
    [] type = "Date" -> Padded(v[1], 4) \o <<"-">> \o Padded(v[2], 2) \o <<"-">> \o Padded(v[3], 2)
    [] OTHER -> v

\* The edges of eight and of eighteen bits, and fractions with zeros.
\* Dates around the ends of months, in leap years and centuries.
\* Strings of up to two blocks of three, and one more.
ValuesOf(type) ==
  CASE type = "Integer" -> {-128, -1, 0, 10, 127}
    [] type = "Numeric" -> {-131072, -250, -5, 0, 5, 10, 99, 100, 1005, 131071}
    [] type = "Date" -> {<<y, m, d>> \in {1900, 1992, 1998, 2000} \X {1, 2, 3, 12} \X {1, 28, 29, 31} :
                           d <= DaysIn(y, m)}
    [] type = "Char" -> {<<>>, <<"a">>, <<"a", " ", "b">>, <<"b", " ">>}
    [] type = "Char1" -> {<<"a">>, <<" ">>}
    [] type = "Varchar" -> UNION {[1 .. n -> {"a", "b"}] : n \in 0 .. 7}

SecondValue(type) ==
  CASE type = "Integer" -> 7
    [] type = "Numeric" -> 2000
    [] type = "Date" -> <<1996, 2, 29>>
    [] type \in {"Char", "Char1"} -> <<"c">>
    [] type = "Varchar" -> <<"a", "b", "a">>

\* A text may begin with a blank, but for a Varchar or a Char<1>, which
\* would keep it.
MCTables ==
  {[types |-> <<"Integer", type>>,
    values |-> <<<<1, 2>>, <<v, SecondValue(type)>>>>,
    lines |-> <<<<Written("Integer", 1), Written("Integer", 2)>>,
                <<IF blank THEN <<" ">> \o Written(type, v) ELSE Written(type, v),
                  Written(type, SecondValue(type))>>>>] :
     <<type, v, blank>> \in
       UNION {{type} \X ValuesOf(type) \X (IF type \in {"Varchar", "Char1"} THEN {FALSE} ELSE BOOLEAN) :
                type \in {"Integer", "Numeric", "Date", "Char", "Char1", "Varchar"}}}

\* These tables are among those that the theorem on reruns is about.
ASSUME MCTextsCastable == TextsCastable
=============================================================================
