---------------------------- MODULE NetIOBuffer ----------------------------
(***************************************************************************)
(* The byte container of DyNetSocket/NetIOBuffer.{h,cpp}, as operators on  *)
(* a record: max is m_nMax, begin is m_nBegin, data is the m_nLen bytes    *)
(* that start at m_nBegin.  Each operator is one critical section of       *)
(* m_cMutex.  Space in front of m_nBegin is given back only when the       *)
(* container becomes empty.  The unit is a cell of four bytes, the size of *)
(* PACKAGE_HEADER_SIZE.                                                    *)
(***************************************************************************)
EXTENDS Integers, Sequences

Buffer(Cell) == [max : Nat, begin : Nat, data : Seq(Cell)]

InitBuffer(max) == [max |-> max, begin |-> 0, data |-> <<>>]

GetLen(b) == Len(b.data)

GetSpace(b) == b.max - b.begin - GetLen(b)

FitsMutant(b, cells) == Len(cells) <= b.max - GetLen(b)

(* Write returns false, and changes nothing, when the cells do not fit. *)
Fits(b, cells) == Len(cells) <= GetSpace(b)

Write(b, cells) == IF Fits(b, cells) THEN [b EXCEPT !.data = @ \o cells] ELSE b

RemoveBuffer(b, n) ==
    LET rest == SubSeq(b.data, n + 1, Len(b.data)) IN
    [max   |-> b.max,
     begin |-> IF rest = <<>> THEN 0 ELSE b.begin + n,
     data  |-> rest]

(* ReadRemove copies out at most n cells and removes them. *)
ReadSize(b, n) == IF n < GetLen(b) THEN n ELSE GetLen(b)

ReadCells(b, n) == SubSeq(b.data, 1, ReadSize(b, n))

ReadRemove(b, n) == RemoveBuffer(b, ReadSize(b, n))

(* m_nBegin and m_nLen stay inside the array: the unsigned subtractions of *)
(* Write and GetSpace never wrap.                                          *)
InBounds(b) == b.begin + GetLen(b) <= b.max
=============================================================================
