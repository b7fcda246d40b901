---------------------------- MODULE ResourceBuffer ----------------------------
(* The reader of resource tables (Shared/common/ResourceBuffer.cpp): rows of    *)
(* columns, one of which, the row of flags, says which columns are used.  The   *)
(* getters step over the others; they differ in the width of what they return.  *)
(* A text stream is a sequence of rows, and a row the numbers in it, none for an *)
(* empty line; a line of blanks only, which NextRow steps over where a later    *)
(* row is wanted, is not in any table here, and a flag is a single digit, of    *)
(* which the code tests the first character.                                    *)
EXTENDS Integers, Sequences, FiniteSetsExt

CONSTANTS
    Files,     \* the tables: sequences of rows
    FlagsRow   \* m_nFlagsRow, 4 by default: the number of the row of flags

VARIABLES
    table, read,              \* m_cFileStream: its rows, and how many have been read
    m_bValid, m_vecFlags, m_vecCol, m_nCol,
    got                       \* history: the columns read from the row, and as what

rowVars == <<table, read, m_bValid, m_vecFlags, m_vecCol, m_nCol, got>>

ASSUME ResourceAssumption == FlagsRow \in Nat \ {0} /\ Files \subseteq Seq(Seq(Int))

\* The next n rows have columns; NextRow stops behind the first that has none,
\* and at the end of the file.
Usable(n) == n =< Len(table) - read /\ \A i \in 1 .. n : table[read + i] # <<>>
Empties == {k \in read + 1 .. Len(table) : table[k] = <<>>}
ReadUpTo(n) == IF Usable(n) THEN read + n ELSE Min(Empties \union {Len(table)})

RowsInit ==
    /\ table \in Files
    /\ read = 0
    /\ m_bValid = FALSE
    /\ m_vecFlags = <<>> /\ m_vecCol = <<>> /\ m_nCol = 0
    /\ got = <<>>

\* A row of which the index is not set back.
NextRowMutant(n) ==
    /\ read' = ReadUpTo(n)
    /\ m_vecCol' = IF Usable(n) THEN table[read + n] ELSE <<>>
    /\ m_nCol' = m_nCol
    /\ got' = <<>>

\* NextRow: the n-th row from here, or none.
NextRow(n) ==
    /\ read' = ReadUpTo(n)
    /\ m_vecCol' = IF Usable(n) THEN table[read + n] ELSE <<>>
    /\ m_nCol' = 0
    /\ got' = <<>>

\* readFlagsRow: flags 2 and 3 mark the columns that are used.
ReadFlagsRow ==
    /\ read = 0
    /\ NextRow(FlagsRow)
    /\ m_vecFlags' = [i \in DOMAIN m_vecCol' |-> m_vecCol'[i] \in {2, 3}]
    /\ UNCHANGED <<table, m_bValid>>

\* The rest of the constructor: the row behind the flags is the first of data.
\* (The row given for that, nDataStartRow, is not used.)
FirstRow ==
    /\ m_vecFlags # <<>> /\ ~m_bValid /\ read = FlagsRow
    /\ NextRow(1)
    /\ m_bValid' = Usable(1)
    /\ UNCHANGED <<table, m_vecFlags>>

NextDataRow ==
    /\ m_bValid
    /\ NextRow(1)
    /\ UNCHANGED <<table, m_bValid, m_vecFlags>>

\* static_cast of what atoi read to the width of the getter.
Narrowed(kind, v) ==
    CASE kind = "int8" -> ((v + 128) % 256) - 128
      [] kind = "uint8" -> v % 256
      [] OTHER -> v

\* A getter: the next column with a flag, or false at the end of the row.  For a
\* column beyond the flags, m_vecFlags is read out of its bounds: any answer.
Get(kind) ==
    /\ m_bValid
    /\ \E beyond \in SUBSET (Len(m_vecFlags) + 1 .. Len(m_vecCol)) :
          LET used == {j \in m_nCol + 1 .. Len(m_vecCol) :
                          IF j \in DOMAIN m_vecFlags THEN m_vecFlags[j] ELSE j \in beyond}
          IN IF used = {} THEN m_nCol' = Len(m_vecCol) /\ UNCHANGED got
             ELSE LET j == Min(used)
                  IN /\ m_nCol' = j
                     /\ got' = Append(got, [kind |-> kind, value |-> Narrowed(kind, m_vecCol[j])])
    /\ UNCHANGED <<table, read, m_bValid, m_vecFlags, m_vecCol>>

RowsNext == ReadFlagsRow \/ FirstRow \/ NextDataRow \/ \E kind \in {"int8", "uint8", "int32"} : Get(kind)

RowsSpec == RowsInit /\ [][RowsNext]_rowVars

-----------------------------------------------------------------------------
FlaggedColumns == {j \in DOMAIN m_vecCol : j \in DOMAIN m_vecFlags /\ m_vecFlags[j]}

(* The values read from a row are those of its flagged columns up to the one it *)
(* is at, each once and in their order, each cut to the width asked for,        *)
(* whatever was read from the rows before; provided that the row has no more    *)
(* columns than the row of flags (ResourceBuffer.cpp:20, 51).                   *)
ColumnsInOrder ==
    Len(m_vecCol) =< Len(m_vecFlags) =>
        \E column \in [DOMAIN got -> FlaggedColumns] :
            /\ \A i \in DOMAIN got : got[i].value = Narrowed(got[i].kind, m_vecCol[column[i]])
            /\ \A i, j \in DOMAIN got : i < j => column[i] < column[j]
            /\ \A j \in FlaggedColumns : j =< m_nCol <=> \E i \in DOMAIN got : column[i] = j
=============================================================================
