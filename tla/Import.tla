------------------------------- MODULE Import -------------------------------
(***************************************************************************)
(* parseColumns of common/runtime/Import.cpp: a table is read from the     *)
(* text file that dbgen has written, each column is written to a file of   *)
(* its own in the directory "cached", and these files are mapped into      *)
(* memory.  Later runs of the program map the files and do not parse the   *)
(* text again.  The program may be killed at any time and is started anew, *)
(* and between two runs the text file may be removed.                      *)
(***************************************************************************)
EXTENDS Types

CONSTANTS
  Tables,   \* the tables to import: [types, values, lines]
  Absent,   \* a column file that does not exist
  MaxRuns   \* bound: how often the program is started

CastString(type, text) ==
  CASE type = "Integer" -> IntegerCastString(text)
    [] type = "Numeric" -> NumericCastString(text)
    [] type = "Date"    -> DateCastString(text)
    [] type = "Char"    -> CharCastString(text)
    [] type = "Char1"   -> Char1CastString(text)
    [] type = "Varchar" -> VarcharCastString(text)

\* What zeros in memory stand for; strings begin with their length.
ZeroOf(type) ==
  CASE type \in {"Char", "Varchar"} -> <<>>
    [] type = "Char1" -> <<"NUL">>
    [] OTHER -> 0

\* What the text of a column can become, and what its file can contain.
Casts(type, text) ==
  {CastString(type, text[r]).value : r \in {q \in DOMAIN text : ~CastString(type, text[q]).thrown}}
Contents(type, text) ==
  {<<>>} \cup [DOMAIN text -> {ZeroOf(type)} \cup Casts(type, text)]

\* A table has columns, all of them as many rows, and at least one.
ASSUME ImportAssumption ==
  /\ MaxRuns \in Nat
  /\ \A t \in Tables :
       /\ Len(t.types) \in Nat \ {0} /\ DOMAIN t.types = 1 .. Len(t.types)
       /\ Len(t.lines[1]) \in Nat \ {0}
       /\ \A c \in DOMAIN t.types :
            /\ DOMAIN t.lines[c] = 1 .. Len(t.lines[1])
            /\ DOMAIN t.values[c] = 1 .. Len(t.lines[1]) /\ Len(t.values[c]) = Len(t.lines[1])
            /\ Absent \notin Contents(t.types[c], t.lines[c])

VARIABLES
  types,     \* per column: its type
  values,    \* per column: what dbgen meant, row by row
  lines,     \* per column: the text of each row
  writable,  \* the data directory can be written to
  dir,       \* the directory "cached" exists
  disk,      \* per column: the content of its file
  tblFile,   \* the text file is there
  runs,      \* how often the program has been started
  torn,      \* history: killed over an unfinished file while none was missing
  fresh,     \* history: this run found no directory
  stage, col, row,
  parsed,    \* per column: the vector of the values read from the text
  column,    \* per column: the memory its file is mapped to
  size, diffs,
  nrTuples   \* of the relation

input == <<types, values, lines, writable>>
files == <<dir, disk, tblFile>>
past == <<runs, torn, fresh>>
memory == <<col, row, parsed, column, size, diffs, nrTuples>>
importVars == <<input, files, past, stage, memory>>

Columns == DOMAIN types
Rows == DOMAIN lines[1]
LastColumn == Len(types)
Blank == [c \in Columns |-> <<>>]

ImportInit ==
  /\ \E t \in Tables : types = t.types /\ values = t.values /\ lines = t.lines
  /\ writable \in BOOLEAN /\ tblFile \in BOOLEAN
  /\ dir = FALSE /\ disk = [c \in Columns |-> Absent]
  /\ runs = 0 /\ torn = FALSE /\ fresh = FALSE
  /\ stage = "ended" /\ col = 1 /\ row = 1
  /\ parsed = Blank /\ column = Blank
  /\ size = 0 /\ diffs = 0 /\ nrTuples = 0

-----------------------------------------------------------------------------
\* The program is started, for the first time or again, with an empty memory.
Start ==
  /\ stage \in {"ended", "thrown"} /\ runs < MaxRuns
  /\ runs' = runs + 1 /\ fresh' = ~dir
  /\ stage' = "mkdir" /\ col' = 1 /\ row' = 1
  /\ parsed' = Blank /\ column' = Blank /\ size' = 0 /\ diffs' = 0 /\ nrTuples' = 0
  /\ UNCHANGED <<input, files, torn>>

\* mkdir returns 0 when it has made the directory, and that is what the code
\* takes for an error; that the directory exists, or cannot be made, is none.
MakeDir ==
  /\ stage = "mkdir"
  /\ dir' = (dir \/ writable)
  /\ stage' = IF ~dir /\ writable THEN "thrown" ELSE "check"
  /\ UNCHANGED <<input, disk, tblFile, past, memory>>

\* Faulty variant: one file is enough.
CheckFilesAny ==
  /\ stage = "check"
  /\ stage' = IF \A c \in Columns : disk[c] = Absent THEN "parse" ELSE "read"
  /\ UNCHANGED <<input, files, past, memory>>

\* The text is parsed unless all files exist; what is in them is not looked at.
CheckFiles ==
  /\ stage = "check"
  /\ stage' = IF \E c \in Columns : disk[c] = Absent THEN "parse" ELSE "read"
  /\ UNCHANGED <<input, files, past, memory>>

\* The text is opened and parsed; it has to be there only for this.
Parse ==
  LET cast == [c \in Columns |-> [r \in Rows |-> CastString(types[c], lines[c][r])]]
  IN  /\ stage = "parse"
      /\ IF ~tblFile \/ \E c \in Columns : \E r \in Rows : cast[c][r].thrown
         THEN stage' = "thrown" /\ UNCHANGED parsed
         ELSE stage' = "open" /\ parsed' = [c \in Columns |-> [r \in Rows |-> cast[c][r].value]]
      /\ UNCHANGED <<input, files, past, col, row, column, size, diffs, nrTuples>>

\* writeBinary: the file is created, or opened as it is.
OpenFile ==
  /\ stage = "open"
  /\ IF disk[col] = Absent /\ ~writable
     THEN stage' = "thrown" /\ UNCHANGED disk
     ELSE /\ stage' = "allocate"
          /\ disk' = [disk EXCEPT ![col] = IF @ = Absent THEN <<>> ELSE @]
  /\ UNCHANGED <<input, dir, tblFile, past, memory>>

\* posix_fallocate: the file gets the length of the vector, filled with zeros.
AllocateFile ==
  /\ stage = "allocate"
  /\ disk' = [disk EXCEPT ![col] =
       [r \in 1 .. (IF Len(@) > Len(parsed[col]) THEN Len(@) ELSE Len(parsed[col])) |->
          IF r <= Len(@) THEN @[r] ELSE ZeroOf(types[col])]]
  /\ row' = 1 /\ stage' = "copy"
  /\ UNCHANGED <<input, dir, tblFile, past, col, parsed, column, size, diffs, nrTuples>>

\* memcpy of the vector into the mapped file, one row here.
CopyRow ==
  /\ stage = "copy" /\ row <= Len(parsed[col])
  /\ disk' = [disk EXCEPT ![col][row] = parsed[col][row]]
  /\ row' = row + 1
  /\ UNCHANGED <<input, dir, tblFile, past, stage, col, parsed, column, size, diffs, nrTuples>>

\* The file is closed, and the next column written, if any.
CloseFile ==
  /\ stage = "copy" /\ row > Len(parsed[col])
  /\ IF col < LastColumn THEN stage' = "open" /\ col' = col + 1
                   ELSE stage' = "read" /\ col' = 1
  /\ UNCHANGED <<input, files, past, row, parsed, column, size, diffs, nrTuples>>

\* readBinary: the file is mapped; one that is empty or does not exist ends the
\* program.  With the last column the sizes are compared: the first column
\* differs from the initial 0.
ReadColumn ==
  LET content == disk[col]
      differs == diffs + (IF size = Len(content) THEN 0 ELSE 1)
  IN  /\ stage = "read"
      /\ IF content = Absent \/ content = <<>>
         THEN stage' = "thrown" /\ UNCHANGED <<col, column, size, diffs, nrTuples>>
         ELSE /\ column' = [column EXCEPT ![col] = content]
              /\ size' = Len(content) /\ diffs' = differs
              /\ IF col < LastColumn
                 THEN col' = col + 1 /\ UNCHANGED <<stage, nrTuples>>
                 ELSE /\ UNCHANGED col
                      /\ IF differs > 1 THEN stage' = "thrown" /\ UNCHANGED nrTuples
                         ELSE stage' = "loaded" /\ nrTuples' = Len(content)
      /\ UNCHANGED <<input, files, past, row, parsed>>

\* The program is killed; its memory is lost.
Kill ==
  /\ stage \notin {"ended", "thrown"}
  /\ torn' = \/ torn
             \/ stage \in {"allocate", "copy"} /\ \A c \in Columns : disk[c] # Absent
  /\ stage' = "ended"
  /\ UNCHANGED <<input, files, runs, fresh, memory>>

\* Between two runs: the column files make the text superfluous.
RemoveText ==
  /\ stage \in {"ended", "thrown"} /\ tblFile
  /\ tblFile' = FALSE
  /\ UNCHANGED <<input, dir, disk, past, stage, memory>>

Running ==
  \/ MakeDir \/ CheckFiles \/ Parse \/ OpenFile \/ AllocateFile \/ CopyRow
  \/ CloseFile \/ ReadColumn
ImportNext == Start \/ Running \/ Kill \/ RemoveText
ImportSpec == ImportInit /\ [][ImportNext]_importVars

-----------------------------------------------------------------------------
(* Reference definitions, independent of the code. *)

Leap(y) == y % 4 = 0 /\ (y % 100 # 0 \/ y % 400 = 0)
DaysIn(y, m) == CASE m \in {4, 6, 9, 11} -> 30
                  [] m = 2 -> IF Leap(y) THEN 29 ELSE 28
                  [] OTHER -> 31
\* The Julian day by counting from January 1 of year 1.
JulianDay(y, m, d) ==
  1721425 + 365 * (y - 1) + Cardinality({x \in 1 .. y - 1 : Leap(x)})
  + FoldLeft(LAMBDA sum, k : sum + DaysIn(y, k), 0, [k \in 1 .. m - 1 |-> k]) + d

\* What the value of a type that dbgen meant is in memory.
InMemory(type, v) ==
  IF type = "Date" THEN JulianDay(v[1], v[2], v[3]) ELSE v

\* s comes before t: where they first differ, or because it ends there.
Before(s, t) ==
  \E n \in 1 .. Len(t) :
    /\ \A k \in 1 .. n - 1 : k <= Len(s) /\ s[k] = t[k]
    /\ n > Len(s) \/ Code[s[n]] < Code[t[n]]

-----------------------------------------------------------------------------
\* Of the tables: the casts take every text, and read what dbgen meant by it.
TextsCastable ==
  \A t \in Tables : \A c \in DOMAIN t.types : \A r \in DOMAIN t.lines[1] :
    ~CastString(t.types[c], t.lines[c][r]).thrown
CastsExact ==
  \A t \in Tables : \A c \in DOMAIN t.types : \A r \in DOMAIN t.lines[1] :
    CastString(t.types[c], t.lines[c][r]).value = InMemory(t.types[c], t.values[c][r])

\* Whatever was killed before, a relation that is loaded has in each column the
\* values that dbgen wrote, under one number of tuples; unless a run was killed
\* over the last file that was missing: the next run then maps it as it is.
LoadedExact ==
  stage = "loaded" /\ ~torn =>
    \A c \in Columns :
      /\ nrTuples = Len(values[c])
      /\ column[c] = [r \in Rows |-> InMemory(types[c], values[c][r])]

\* A run that finds the directory ends by itself only with the relation loaded:
\* what earlier runs left behind never makes it throw, but for a file torn.  A
\* text that is gone, or a directory that cannot be written to, stops it only
\* when a column file is missing.
RerunSucceeds ==
  stage = "thrown" =>
    \/ fresh \/ torn
    \/ (~writable \/ ~tblFile) /\ \E c \in Columns : disk[c] = Absent

\* What is loaded is written into a result as dbgen wrote it.
PrintedExact ==
  stage = "loaded" /\ ~torn => \A c \in Columns : \A r \in Rows :
    CASE types[c] = "Numeric" -> NumericPrint(column[c][r]) = Trim(lines[c][r])
      [] types[c] = "Date" ->
           /\ DatePrint(column[c][r]) = Trim(lines[c][r])
           /\ extractYear(column[c][r]) = values[c][r][1]
           /\ \A time \in {<<"0", ":", "0", "0", ":", "0", "0">>,
                           <<"1", "3", ":", "0", "5", ":", "5", "9", ".", "0", "0", "7">>} :
                LET text == Trim(lines[c][r]) \o <<" ">> \o time
                    cast == TimestampCastString(text)
                IN  ~cast.thrown /\ TimestampPrint(cast.value) = text
      [] OTHER -> TRUE

\* The comparisons of strings are one linear order, the blockwise search finds
\* what memmem finds, and views are equal when the strings are.
StringsExact ==
  stage = "loaded" /\ ~torn => \A c \in Columns : types[c] = "Varchar" =>
    \A r, q \in Rows :
      LET s == column[c][r]
          t == column[c][q]
      IN  /\ Less(s, t) <=> Before(s, t)
          /\ GreaterEqual(s, t) <=> ~Before(s, t)
          /\ Equal(s, t) <=> s = t
          /\ SameView(View(s), View(t)) <=> s = t
          /\ \A needle \in SubSeqs(t) : needle # <<>> /\ Len(needle) <= block =>
               memmemSSE(s, needle) = memmem(s, needle)
=============================================================================
