---------------------------- MODULE DbRecordSet ----------------------------
(***************************************************************************)
(* The rows a query gave, as DbSession hands them to a callback: a vector  *)
(* of records with a cursor.  A caller moves the cursor, edits fields,     *)
(* makes and inserts records, deletes and releases them, and the session   *)
(* releases the set.  Every set is made with E_DB_MODE_EDIT.               *)
(*                                                                         *)
(* What a statement is able to do follows from the strings the code        *)
(* builds: the values of the fields are commented out, so INSERT and       *)
(* UPDATE are refused by the database, and the key reads as 0, so DELETE   *)
(* names the row with key 0.  None of them gives rows; that is the NULL    *)
(* the code takes for the answer, except after two threads have crossed on *)
(* the connection (DbSession), when a call may return anything.            *)
(***************************************************************************)
EXTENDS Integers, Sequences, SequencesExt

CONSTANTS
    Keys,        \* the keys a row of the table may have
    Fields,      \* the fields of a row
    MaxRecords,  \* records made in all, and
    MaxLen       \* the length of the vector: bounds of the model only

(* The bytes of a row (m_arrRowBuff) are not modelled: the code relies on  *)
(* them to fit and tests it nowhere.                                       *)
ASSUME RecordSetAssumption ==
    Keys \subseteq Nat /\ IsFiniteSet(Keys) /\ MaxRecords \in Nat /\ MaxLen \in Nat

VARIABLES
    m_bOpen,     \* of the DbSession
    hasCrossed,  \* two threads have been inside the client library at once
    table,       \* the keys of the rows in the database
    set,         \* "none", "live", "ending" inside ~DbRecordSet, "gone"
    m_vecRecord,
    m_nCursor,
    m_nKeyIndex, \* whether a column is the primary key
    record,      \* every record made: its state, its key and its changed fields
    twice,       \* records InsertRecord pushed though the vector held them (history)
    aborted

setVars == <<m_bOpen, hasCrossed, table, set, m_vecRecord, m_nCursor, m_nKeyIndex, record, twice, aborted>>

None == "none"
Invalid == -1  \* INVALID_KEY
NoKey == -1    \* of a record made here
Members == Range(m_vecRecord)
Live(r) == r \in DOMAIN record /\ record[r].state = "live"

RecordSetTypeOK ==
    /\ m_bOpen \in BOOLEAN /\ hasCrossed \in BOOLEAN
    /\ table \subseteq Keys
    /\ set \in {"none", "live", "ending", "gone"}
    /\ record \in Seq([state : {"live", "freed"}, key : Keys \cup {NoKey}, changed : SUBSET Fields])
    /\ Members \subseteq DOMAIN record /\ twice \subseteq DOMAIN record
    /\ m_nCursor \in -1 .. MaxLen
    /\ m_nKeyIndex \in {0, Invalid}
    /\ aborted \in {None, "KeyName", "DoubleFree", "SetGone"}

RecordSetInit ==
    /\ m_bOpen = TRUE /\ hasCrossed = FALSE
    /\ table \in SUBSET Keys
    /\ set = "none" /\ m_vecRecord = <<>> /\ m_nCursor = 0
    /\ m_nKeyIndex = Invalid
    /\ record = <<>>
    /\ twice = {}
    /\ aborted = None

Running == aborted = None
Usable == Running /\ set = "live"

----------------------------------------------------------------------------
(* Move: past the end is the last record. *)
MoveTo(vec, n) == IF vec = <<>> THEN -1 ELSE IF n >= Len(vec) THEN Len(vec) - 1 ELSE n

(* The callback gets a set made from the result of its SELECT. *)
Create(rows, keyed) ==
    /\ Running /\ set = "none"
    /\ record' = [i \in 1 .. Len(rows) |-> [state |-> "live", key |-> rows[i], changed |-> {}]]
    /\ m_vecRecord' = [i \in 1 .. Len(rows) |-> i]
    /\ m_nCursor' = MoveTo(m_vecRecord', 0)
    /\ m_nKeyIndex' = IF keyed THEN 0 ELSE Invalid
    /\ set' = "live"
    /\ UNCHANGED <<m_bOpen, hasCrossed, table, twice, aborted>>

Move(n) ==
    /\ Usable
    /\ m_nCursor' = MoveTo(m_vecRecord, n)
    /\ UNCHANGED <<m_bOpen, hasCrossed, table, set, m_vecRecord, m_nKeyIndex, record, twice, aborted>>

(* Every assignment to a DbField keeps the fact, and no value. *)
SetField(r, f) ==
    /\ Usable /\ Live(r)
    /\ record' = [record EXCEPT ![r].changed = @ \cup {f}]
    /\ UNCHANGED <<m_bOpen, hasCrossed, table, set, m_vecRecord, m_nCursor, m_nKeyIndex, twice, aborted>>

ClsEditFlag ==
    /\ Usable
    /\ record' = [r \in DOMAIN record |-> IF r \in Members THEN [record[r] EXCEPT !.changed = {}] ELSE record[r]]
    /\ UNCHANGED <<m_bOpen, hasCrossed, table, set, m_vecRecord, m_nCursor, m_nKeyIndex, twice, aborted>>

(* The fields a statement would set: their names, without the values. *)
BuildSQLOperation(r) == record[r].changed

(* The key a condition names: every conversion out of a DbField gives 0. *)
KeyRead == 0

(* UpdateRecord builds its statement and runs none; but for a record with  *)
(* changes, when no column is the primary key, KeyName reads outside       *)
(* m_vecFields.                                                            *)
UpdateRecord(r) ==
    IF m_bOpen /\ BuildSQLOperation(r) # {} /\ m_nKeyIndex = Invalid THEN "KeyName" ELSE None

(* DbRecord::Update; that of the set skips every record there is. *)
RecordUpdate(r) ==
    /\ Usable /\ Live(r)
    /\ aborted' = UpdateRecord(r)
    /\ UNCHANGED <<m_bOpen, hasCrossed, table, set, m_vecRecord, m_nCursor, m_nKeyIndex, record, twice>>

MakeDefRecord ==
    /\ Usable /\ m_bOpen /\ Len(record) < MaxRecords
    /\ record' = Append(record, [state |-> "live", key |-> NoKey, changed |-> {}])
    /\ UNCHANGED <<m_bOpen, hasCrossed, table, set, m_vecRecord, m_nCursor, m_nKeyIndex, twice, aborted>>

(* What ExecuteRsyncSQL says of a statement that has no rows to give. *)
MayAnswer(rows) == rows => hasCrossed

(* A mutant: the record is put in front. *)
InsertRecordMutant(r) ==
    /\ Usable /\ Live(r) /\ Len(m_vecRecord) < MaxLen
    /\ m_vecRecord' = IF m_bOpen THEN <<r>> \o m_vecRecord ELSE m_vecRecord
    /\ twice' = IF m_bOpen /\ r \in Members THEN twice \cup {r} ELSE twice
    /\ UNCHANGED <<m_bOpen, hasCrossed, table, set, m_nCursor, m_nKeyIndex, record, aborted>>

(* InsertRecord: no rows is success; the database has refused. *)
InsertRecord(r) ==
    /\ Usable /\ Live(r) /\ Len(m_vecRecord) < MaxLen
    /\ \E rows \in BOOLEAN :
        /\ m_bOpen => MayAnswer(rows)
        /\ LET pushed == m_bOpen /\ ~rows
           IN  /\ m_vecRecord' = IF pushed THEN Append(m_vecRecord, r) ELSE m_vecRecord
               /\ twice' = IF pushed /\ r \in Members THEN twice \cup {r} ELSE twice
    /\ UNCHANGED <<m_bOpen, hasCrossed, table, set, m_nCursor, m_nKeyIndex, record, aborted>>

(* ~DbRecord leaves the vector at the first place that names it. *)
Without(vec, r) == RemoveFirst(vec, r)

(* DeleteRecord: no rows is failure, and the record stays.  Without a      *)
(* primary key it ends in KeyName.                                         *)
DeleteRecord(r, archive) ==
    /\ Usable /\ Live(r)
    /\ table' = IF m_bOpen /\ m_nKeyIndex # Invalid /\ ~archive THEN table \ {KeyRead} ELSE table
    /\ aborted' = IF m_bOpen /\ m_nKeyIndex = Invalid THEN "KeyName" ELSE aborted
    /\ \E rows \in BOOLEAN :
        /\ MayAnswer(rows)
        /\ LET erased == m_bOpen /\ m_nKeyIndex # Invalid /\ rows
           IN  /\ m_vecRecord' = IF erased THEN Without(Without(m_vecRecord, r), r) ELSE m_vecRecord
               /\ record' = IF erased THEN [record EXCEPT ![r].state = "freed"] ELSE record
    /\ UNCHANGED <<m_bOpen, hasCrossed, set, m_nCursor, m_nKeyIndex, twice>>

(* A mutant: a record that is released stays in the vector. *)
ReleaseRecordMutant(r) ==
    /\ Running /\ set \in {"live", "gone"} /\ Live(r) /\ (set = "gone" => r \notin Members)
    /\ record' = [record EXCEPT ![r].state = "freed"]
    /\ aborted' = IF set = "gone" THEN "SetGone" ELSE aborted
    /\ UNCHANGED <<m_bOpen, hasCrossed, table, set, m_vecRecord, m_nCursor, m_nKeyIndex, twice>>

(* Release of a record: ~DbRecord updates it, and calls on the set whether *)
(* that is there or not.                                                   *)
ReleaseRecord(r) ==
    /\ Running /\ set \in {"live", "gone"} /\ Live(r)
    /\ record' = [record EXCEPT ![r].state = "freed"]
    /\ IF set = "gone" THEN aborted' = "SetGone" /\ UNCHANGED m_vecRecord
                       ELSE /\ m_vecRecord' = Without(m_vecRecord, r)
                            /\ aborted' = UpdateRecord(r)
    /\ UNCHANGED <<m_bOpen, hasCrossed, table, set, m_nCursor, m_nKeyIndex, twice>>

(* DbResult::Release, after the callback. *)
ReleaseSet ==
    /\ Usable
    /\ set' = "ending"
    /\ UNCHANGED <<m_bOpen, hasCrossed, table, m_vecRecord, m_nCursor, m_nKeyIndex, record, twice, aborted>>

(* A mutant: a record with changes is not released. *)
DestructorStepMutant ==
    /\ Running /\ set = "ending" /\ m_vecRecord # <<>>
    /\ LET r == Last(m_vecRecord)
       IN  IF Live(r) THEN /\ record[r].changed = {}
                           /\ record' = [record EXCEPT ![r].state = "freed"]
                           /\ m_vecRecord' = Without(m_vecRecord, r)
                           /\ UNCHANGED aborted
                      ELSE aborted' = "DoubleFree" /\ UNCHANGED <<record, m_vecRecord>>
    /\ UNCHANGED <<m_bOpen, hasCrossed, table, set, m_nCursor, m_nKeyIndex, twice>>

(* A round of ~DbRecordSet: the last record is released, and takes itself  *)
(* out of the vector.                                                      *)
DestructorStep ==
    /\ Running /\ set = "ending" /\ m_vecRecord # <<>>
    /\ LET r == Last(m_vecRecord)
       IN  IF Live(r) THEN /\ record' = [record EXCEPT ![r].state = "freed"]
                           /\ m_vecRecord' = Without(m_vecRecord, r)
                           /\ aborted' = UpdateRecord(r)
                      ELSE aborted' = "DoubleFree" /\ UNCHANGED <<record, m_vecRecord>>
    /\ UNCHANGED <<m_bOpen, hasCrossed, table, set, m_nCursor, m_nKeyIndex, twice>>

(* A mutant: the loop stops one early. *)
DestructorEndsMutant ==
    /\ Running /\ set = "ending" /\ Len(m_vecRecord) <= 1
    /\ set' = "gone" /\ m_nCursor' = 0 /\ m_nKeyIndex' = Invalid
    /\ UNCHANGED <<m_bOpen, hasCrossed, table, m_vecRecord, record, twice, aborted>>

DestructorEnds ==
    /\ Running /\ set = "ending" /\ m_vecRecord = <<>>
    /\ set' = "gone" /\ m_nCursor' = 0 /\ m_nKeyIndex' = Invalid
    /\ UNCHANGED <<m_bOpen, hasCrossed, table, m_vecRecord, record, twice, aborted>>

(* DbSession::Close, or two threads on the connection. *)
SessionChanges ==
    /\ Running
    /\ \/ m_bOpen' = FALSE /\ UNCHANGED hasCrossed
       \/ hasCrossed' = TRUE /\ UNCHANGED m_bOpen
    /\ UNCHANGED <<table, set, m_vecRecord, m_nCursor, m_nKeyIndex, record, twice, aborted>>

----------------------------------------------------------------------------
RecordSetNext ==
    \/ \E keyed \in BOOLEAN : Create(SetToSeq(table), keyed)
    \/ \E n \in 0 .. MaxLen : Move(n)
    \/ \E r \in DOMAIN record :
          \/ \E f \in Fields : SetField(r, f)
          \/ RecordUpdate(r) \/ InsertRecord(r) \/ ReleaseRecord(r)
          \/ \E archive \in BOOLEAN : DeleteRecord(r, archive)
    \/ ClsEditFlag \/ MakeDefRecord \/ ReleaseSet
    \/ DestructorStep \/ DestructorEnds \/ SessionChanges

RecordSetSpec == RecordSetInit /\ [][RecordSetNext]_setVars

(* A destructor that has begun goes on. *)
FairRecordSetSpec ==
    RecordSetSpec /\ WF_setVars(DestructorStep) /\ WF_setVars(DestructorEnds)

----------------------------------------------------------------------------

(* The vector names records that are still there, so that neither the      *)
(* readers of GetRecordBuff nor the destructor touch a freed one, unless a *)
(* record was inserted a second time.                                      *)
MembersAreLive == \A r \in Members : Live(r) \/ r \in twice

(* The destructor releases no record twice and none is left behind,        *)
(* unless a record was inserted a second time.                             *)
ReleasedOnce ==
    /\ aborted = "DoubleFree" => twice # {}
    /\ set = "gone" => \A r \in DOMAIN record : Live(r) => record[r].key = NoKey

(* The record GetRecord gives for the cursor, and those up to it. *)
Nobody == 0
Current == IF m_nCursor + 1 \in DOMAIN m_vecRecord THEN m_vecRecord[m_nCursor + 1] ELSE Nobody
UpToCursor == {m_vecRecord[i] : i \in 1 .. m_nCursor + 1}

(* Nothing adjusts the cursor when the vector changes (DbRecordSet.cpp:135, *)
(* 212).  It stays on its record all the same, whatever is inserted, made,  *)
(* deleted and released, until Move, or until that record or one before it  *)
(* is freed.                                                                *)
CursorStays ==
    [][Current # Nobody =>
          \/ Current' = Current
          \/ \E n \in 0 .. MaxLen : Move(n)
          \/ \E r \in UpToCursor : Live(r) /\ ~Live(r)']_setVars

(* The loop of ~DbRecordSet, which waits for the records to remove         *)
(* themselves, ends.                                                       *)
DestructionEnds == set = "ending" ~> (set = "gone" \/ aborted # None)

=============================================================================
