--------------------------- MODULE RecoveryProofs ---------------------------
(***************************************************************************)
(* Theorems about Recovery, for every set of formulas and every budget.    *)
(***************************************************************************)
EXTENDS Recovery, BasicLemmas

---------------------------------------------------------------------------
(* Type correctness. *)

(* The bytes estimated for a clause are a natural number. *)
LEMMA ClauseBytesNat ==
    ASSUME NEW C \in Clause
    PROVE  ClauseBytes(C) \in Nat
  <1>1. Cardinality(C) \in Nat
    BY FS_CardinalityType DEF Clause
  <1>2. QED
    BY <1>1 DEF ClauseBytes

LEMMA AppendEffect ==
    ASSUME NEW S, NEW s \in Seq(S), NEW x \in S
    PROVE  /\ Append(s, x) \in Seq(S)
           /\ Len(Append(s, x)) = Len(s) + 1
           /\ DOMAIN s = 1 .. Len(s) /\ DOMAIN Append(s, x) = 1 .. Len(s) + 1
           /\ \A i \in 1 .. Len(s) : Append(s, x)[i] = s[i]
           /\ Append(s, x)[Len(s) + 1] = x
  OBVIOUS

(* What AddRecord does to the database. *)
LEMMA AddRecordEffect ==
    ASSUME TypeOK, NEW r \in Record, AddRecord(r)
    PROVE  /\ records' \in Seq(Record)
           /\ Len(records') = Len(records) + 1
           /\ Ids \subseteq Ids'
           /\ Ids = 1 .. Len(records)
           /\ Ids' = 1 .. Len(records) + 1
           /\ \A i \in Ids : records'[i] = records[i]
           /\ records'[Len(records) + 1] = r
           /\ agenda' \in Seq(Nat)
           /\ Len(agenda') = Len(agenda) + 1
           /\ bytes' \in Nat
           /\ \A k \in 1 .. Len(agenda) : agenda'[k] = agenda[k]
           /\ agenda'[Len(agenda) + 1] = Len(records) + 1
  <1>1. ClauseBytes(r.clause) \in Nat
    BY ClauseBytesNat DEF Record
  <1>2. /\ records \in Seq(Record) /\ agenda \in Seq(Nat) /\ bytes \in Nat
        /\ Len(records) \in Nat /\ Len(records) + 1 \in Nat
    BY DEF TypeOK
  <1>3. /\ records' = Append(records, r)
        /\ agenda' = Append(agenda, Len(records) + 1)
        /\ bytes' = bytes + ClauseBytes(r.clause)
    BY DEF AddRecord
  <1>4. /\ records' \in Seq(Record) /\ Len(records') = Len(records) + 1
        /\ DOMAIN records = 1 .. Len(records) /\ DOMAIN records' = 1 .. Len(records) + 1
        /\ \A i \in 1 .. Len(records) : records'[i] = records[i]
        /\ records'[Len(records) + 1] = r
    BY <1>2, <1>3, AppendEffect
  <1>5. /\ agenda' \in Seq(Nat) /\ Len(agenda') = Len(agenda) + 1
        /\ \A k \in 1 .. Len(agenda) : agenda'[k] = agenda[k]
        /\ agenda'[Len(agenda) + 1] = Len(records) + 1
    BY <1>2, <1>3, AppendEffect
  <1>6. bytes' \in Nat
    BY <1>1, <1>2, <1>3
  <1>7. 1 .. Len(records) \subseteq 1 .. Len(records) + 1
    BY <1>2
  <1>8. QED
    BY <1>4, <1>5, <1>6, <1>7 DEF Ids

(* The record Derive adds is well formed. *)
LEMMA DerivedRecordTyped ==
    ASSUME TypeOK, NEW r \in rights, NEW p \in records[left].clause,
           left \in Ids, Resolves(left, r, p)
    PROVE  /\ ResolventOf(r, p) \in Clause
           /\ Deeper(left, r) \in Nat
           /\ p \in Literal
           /\ r \in Ids
           /\ DerivedRecord(r, p) \in Record
  <1>1. left \in Ids /\ r \in Ids /\ records[left] \in Record /\ records[r] \in Record
    BY DEF TypeOK, Ids
  <1>2. records[left].clause \in Clause /\ records[r].clause \in Clause
        /\ records[left].depth \in Nat /\ records[r].depth \in Nat
    BY <1>1 DEF Record
  <1>3. ResolventOf(r, p) \in Clause
    BY <1>2, ResolventIsClause DEF ResolventOf, Resolves
  <1>4. Deeper(left, r) \in Nat
    BY <1>2 DEF Deeper
  <1>5. p \in Literal
    BY <1>2 DEF Clause
  <1>6. left \in Nat /\ r \in Nat /\ p \in Int
    BY <1>1, <1>5 DEF TypeOK, Ids, Literal
  <1>7. QED
    BY <1>1, <1>3, <1>4, <1>5, <1>6 DEF Record, DerivedRecord

(* While the literals of a clause are tried, there is such a clause.       *)
LeftInv == pc = "scan" => left \in Ids

AgendaInv ==
    /\ Len(agenda) = Len(records)
    /\ \A k \in 1 .. Len(agenda) : agenda[k] = k

Typed == TypeOK /\ LeftInv /\ AgendaInv

(* A step that appends a record keeps ids and agenda in range.             *)
LEMMA AppendTyped ==
    ASSUME TypeOK, AgendaInv, NEW r \in Record, AddRecord(r),
           UNCHANGED <<formula, pc, cursor, left, lits, verdict>>,
           loaded' \in 0 .. Len(formula), derived' \in Nat,
           rights' \in SUBSET Ids, seen' \in SUBSET SUBSET Ids
    PROVE  TypeOK' /\ AgendaInv'
  <1>1. /\ records' \in Seq(Record) /\ agenda' \in Seq(Nat) /\ bytes' \in Nat
        /\ Ids \subseteq Ids'
    BY AddRecordEffect
  <1>2. /\ \A k \in 1 .. Len(agenda) : agenda'[k] = agenda[k]
        /\ agenda'[Len(agenda) + 1] = Len(records) + 1
    BY AddRecordEffect
  <1>3. Len(records') = Len(records) + 1 /\ Len(agenda') = Len(agenda) + 1
    BY AddRecordEffect
  <1>4. cursor' \in 0 .. Len(agenda') /\ left' \in 0 .. Len(records')
    <2> DEFINE n == Len(records)
               m == Len(agenda)
    <2>1. /\ m \in Nat /\ n \in Nat /\ cursor \in 0 .. m /\ left \in 0 .. n
          /\ Len(records') = n + 1 /\ Len(agenda') = m + 1 /\ cursor' = cursor /\ left' = left
      BY <1>3 DEF TypeOK
    <2> HIDE DEF n, m
    <2>2. cursor \in 0 .. m + 1 /\ left \in 0 .. n + 1
      BY <2>1
    <2>3. QED
      BY <2>1, <2>2, Zenon
  <1>5. rights' \in SUBSET Ids' /\ seen' \in SUBSET SUBSET Ids'
    BY <1>1
  <1>6. /\ formula' \in Formulas /\ pc' \in {"load", "agenda", "scan", "done"}
        /\ loaded' \in 0 .. Len(formula') /\ lits' \in SUBSET Literal
        /\ verdict' \in Verdicts
    BY DEF TypeOK
  <1>7. TypeOK'
    BY <1>1, <1>4, <1>5, <1>6 DEF TypeOK
  <1>8. AgendaInv'
    <2> DEFINE m == Len(agenda)
    <2>1. /\ m \in Nat /\ m = Len(records) /\ \A k \in 1 .. m : agenda[k] = k
      BY DEF AgendaInv, TypeOK
    <2>2. /\ Len(agenda') = m + 1 /\ Len(records') = m + 1
          /\ agenda'[m + 1] = m + 1
          /\ \A k \in 1 .. m : agenda'[k] = k
      BY <1>2, <1>3, <2>1
    <2> HIDE DEF m
    <2>3. \A k \in 1 .. m + 1 : k \in 1 .. m \/ k = m + 1
      BY <2>1
    <2>4. \A k \in 1 .. m + 1 : agenda'[k] = k
      BY <2>2, <2>3, Zenon
    <2>5. QED
      BY <2>2, <2>4, Zenon DEF AgendaInv
  <1>9. QED
    BY <1>7, <1>8

(* The typing that the proofs carry holds when bounded_resolution starts.  *)
LEMMA TypedInit == Init => Typed
  <1> SUFFICES ASSUME Init
               PROVE  Typed
    OBVIOUS
  <1>1. Len(formula) \in Nat
    BY FormulasAssumption DEF Init
  <1>2. /\ records \in Seq(Record) /\ agenda \in Seq(Nat)
        /\ Len(records) = 0 /\ Len(agenda) = 0
    BY DEF Init
  <1>3. TypeOK
    BY <1>1, <1>2 DEF Init, TypeOK, Verdicts
  <1>4. LeftInv /\ AgendaInv
    BY <1>2 DEF Init, LeftInv, AgendaInv
  <1>5. QED
    BY <1>3, <1>4 DEF Typed

(* Every step of bounded_resolution keeps that typing.                     *)
LEMMA TypedNext == Typed /\ [Next]_vars => Typed'
  <1> SUFFICES ASSUME Typed, [Next]_vars
               PROVE  Typed'
    OBVIOUS
  <1>0. TypeOK /\ LeftInv /\ AgendaInv /\ Ids = 1 .. Len(records)
    BY DEF Typed, TypeOK, Ids
  <1>F. Len(formula) \in Nat /\ \A k \in 1 .. Len(formula) : formula[k] \in Clause
    BY <1>0, FormulasAssumption DEF TypeOK
  <1>R. \A i \in Ids : records[i] \in Record /\ records[i].clause \in Clause
    <2>1. \A i \in Ids : records[i] \in Record
      BY <1>0 DEF TypeOK
    <2>2. QED
      BY <2>1 DEF Record
  <1>1. CASE LoadClause
    <2> DEFINE r == OriginalRecord(formula[loaded + 1])
    <2>1. loaded + 1 \in 1 .. Len(formula)
      BY <1>0, <1>1, <1>F DEF LoadClause, TypeOK
    <2>2. r \in Record
      BY <2>1, <1>F DEF Record, OriginalRecord
    <2>3. AddRecord(r)
      BY <1>1 DEF LoadClause
    <2> HIDE DEF r
    <2>4. /\ UNCHANGED <<formula, pc, cursor, left, lits, rights, seen, derived, verdict>>
          /\ loaded' \in 0 .. Len(formula)
          /\ pc = "load"
      BY <1>0, <1>1, <1>F DEF LoadClause, TypeOK, scan
    <2>5. rights' \in SUBSET Ids /\ seen' \in SUBSET SUBSET Ids /\ derived' \in Nat
      BY <1>0, <2>4 DEF TypeOK
    <2>6. TypeOK' /\ AgendaInv'
      BY <1>0, <2>2, <2>3, <2>4, <2>5, AppendTyped
    <2>7. LeftInv'
      BY <2>4 DEF LeftInv
    <2>8. QED
      BY <2>6, <2>7 DEF Typed
  <1>2. CASE LoadDuplicate
    BY <1>0, <1>2, <1>F DEF LoadDuplicate, Typed, TypeOK, LeftInv, AgendaInv, Ids,
       scan, database
  <1>3. CASE LoadDone
    BY <1>0, <1>3 DEF LoadDone, Typed, TypeOK, LeftInv, AgendaInv, Ids,
       input, scan, database
  <1>4. CASE TimeAbort
    BY <1>0, <1>4 DEF TimeAbort, Finish, Typed, TypeOK, LeftInv, AgendaInv, Ids,
       input, scan, database, Verdicts
  <1>5. CASE PopAgenda
    <2>1. cursor + 1 \in 1 .. Len(agenda) /\ agenda[cursor + 1] = cursor + 1
      BY <1>0, <1>5 DEF PopAgenda, TypeOK, AgendaInv
    <2>2. cursor + 1 \in Ids
      BY <1>0, <2>1 DEF AgendaInv
    <2>3. lits' \in SUBSET Literal
      BY <1>5, <1>R, <2>1, <2>2 DEF PopAgenda, Clause
    <2>4. QED
      BY <1>0, <1>5, <2>1, <2>2, <2>3 DEF PopAgenda, Typed, TypeOK, LeftInv, AgendaInv,
         Ids, input, database
  <1>6. CASE FixedPoint
    BY <1>0, <1>6 DEF FixedPoint, Finish, Typed, TypeOK, LeftInv, AgendaInv, Ids,
       input, scan, database, Verdicts
  <1>7. CASE SkipLiteral
    BY <1>0, <1>7 DEF SkipLiteral, Typed, TypeOK, LeftInv, AgendaInv, Ids,
       input, database
  <1>8. CASE OpenLiteral
    BY <1>0, <1>8 DEF OpenLiteral, Occurrences, Typed, TypeOK, LeftInv, AgendaInv, Ids,
       input, database
  <1>9. CASE EndLeft
    BY <1>0, <1>9 DEF EndLeft, Typed, TypeOK, LeftInv, AgendaInv, Ids, input, database
  <1>10. CASE SkipPair
    BY <1>0, <1>10 DEF SkipPair, NextRight, Typed, TypeOK, LeftInv, AgendaInv, Ids,
       input, database
  <1>V. ASSUME NEW r \in rights, Visit(r)
        PROVE  /\ left \in Ids /\ pc = "scan"
               /\ rights' \in SUBSET Ids
               /\ seen' \in SUBSET SUBSET Ids
               /\ UNCHANGED <<formula, loaded, cursor, left, lits>>
    <2>1. /\ pc = "scan" /\ rights' = rights \ {r} /\ seen' = seen \cup {{left, r}}
          /\ UNCHANGED <<formula, loaded, cursor, left, lits>>
      BY <1>V DEF Visit, NextRight, input
    <2>2. left \in Ids /\ r \in Ids /\ rights \in SUBSET Ids /\ seen \in SUBSET SUBSET Ids
      BY <1>0, <1>V, <2>1 DEF TypeOK, LeftInv
    <2>3. QED
      BY <2>1, <2>2
  <1>11. CASE RejectPair
    <2>1. PICK r \in rights : Visit(r) /\ UNCHANGED <<pc, database, verdict>>
      BY <1>11 DEF RejectPair
    <2>2. QED
      BY <1>0, <1>V, <2>1 DEF Typed, TypeOK, LeftInv, AgendaInv, Ids, database
  <1>12. CASE DerivedAbort \/ MemoryAbort
    <2>1. PICK r \in rights : /\ Visit(r) /\ pc' = "done" /\ verdict' \in Verdicts
                              /\ UNCHANGED database
      BY <1>12 DEF DerivedAbort, MemoryAbort, Finish, Verdicts
    <2>2. QED
      BY <1>0, <1>V, <2>1 DEF Typed, TypeOK, LeftInv, AgendaInv, Ids, database
  <1>13. CASE Derive
    <2>1. PICK r \in rights, p \in records[left].clause :
             /\ Visit(r) /\ Resolves(left, r, p)
             /\ AddRecord(DerivedRecord(r, p))
             /\ derived' = derived + 1
             /\ UNCHANGED <<pc, verdict>>
      BY <1>13 DEF Derive
    <2> DEFINE new == DerivedRecord(r, p)
    <2>2. new \in Record
      BY <1>0, <1>V, <2>1, DerivedRecordTyped
    <2>3. AddRecord(new)
      BY <2>1
    <2> HIDE DEF new
    <2>4. /\ UNCHANGED <<formula, pc, loaded, cursor, left, lits, verdict>>
          /\ left \in Ids /\ rights' \in SUBSET Ids /\ seen' \in SUBSET SUBSET Ids
      BY <1>V, <2>1
    <2>5. loaded' \in 0 .. Len(formula) /\ derived' \in Nat
      BY <1>0, <2>1, <2>4 DEF TypeOK
    <2>6. TypeOK' /\ AgendaInv'
      BY <1>0, <2>2, <2>3, <2>4, <2>5, AppendTyped
    <2>7. LeftInv'
      <3>1. Ids \subseteq Ids'
        BY <1>0, <2>2, <2>3, AddRecordEffect
      <3>2. QED
        BY <2>4, <3>1 DEF LeftInv
    <2>8. QED
      BY <2>6, <2>7 DEF Typed
  <1>14. CASE UNCHANGED vars
    BY <1>0, <1>14 DEF vars, Typed, TypeOK, LeftInv, AgendaInv, Ids
  <1>15. QED
    BY <1>1, <1>2, <1>3, <1>4, <1>5, <1>6, <1>7, <1>8, <1>9, <1>10, <1>11, <1>12,
       <1>13, <1>14 DEF Next, Done

(* That typing holds throughout a run. *)
LEMMA AlwaysTyped == Spec => []Typed
  BY TypedInit, TypedNext, PTL DEF Spec

(* Every variable of bounded_resolution keeps its type: ids stay within    *)
(* the database, and derived clauses are canonical.                        *)
THEOREM TypeCorrect == Spec => []TypeOK
  <1>1. Typed => TypeOK
    BY DEF Typed
  <1>2. QED
    BY <1>1, AlwaysTyped, PTL

---------------------------------------------------------------------------
(* How the database grows. *)

\* A clause of the input is loaded.
Loads ==
    /\ pc = "load" /\ pc' = "load"
    /\ loaded \in 0 .. Len(formula) - 1
    /\ loaded' = loaded + 1
    /\ formula[loaded + 1] \notin Known
    /\ AddRecord(OriginalRecord(formula[loaded + 1]))
    /\ derived' = derived

\* The left clause and clause r resolve on p.
Learns(r, p) ==
    /\ pc = "scan" /\ pc' = "scan" /\ left' = left
    /\ r \in Ids /\ left \in Ids /\ p \in records[left].clause
    /\ Resolves(left, r, p)
    /\ AddRecord(DerivedRecord(r, p))
    /\ derived < DerivedBudget
    /\ Fits(r, p)
    /\ derived' = derived + 1

(* In one step the database stays as it is, or one clause, from the input  *)
(* or derived, is appended.                                                *)
LEMMA Growth ==
    ASSUME Typed, [Next]_vars
    PROVE  /\ formula' = formula
           /\ \/ UNCHANGED database /\ (pc # "load" => pc' # "load")
              \/ Loads
              \/ \E r \in rights, p \in records[left].clause : Learns(r, p)
  <1>0. TypeOK /\ LeftInv
    BY DEF Typed
  <1>F. Len(formula) \in Nat
    BY <1>0, FormulasAssumption DEF TypeOK
  <1>1. CASE LoadClause
    BY <1>0, <1>1, <1>F DEF LoadClause, Loads, TypeOK
  <1>2. CASE Derive
    BY <1>0, <1>2 DEF Derive, Learns, Visit, NextRight, LeftInv, TypeOK, input
  <1>3. CASE LoadDuplicate \/ LoadDone
    BY <1>3 DEF LoadDuplicate, LoadDone, input
  <1>4. CASE TimeAbort \/ PopAgenda \/ FixedPoint \/ SkipLiteral \/ OpenLiteral \/ EndLeft
    BY <1>4 DEF TimeAbort, PopAgenda, FixedPoint, SkipLiteral, OpenLiteral, EndLeft,
       Finish, NextLiteral, input
  <1>5. CASE SkipPair \/ RejectPair \/ DerivedAbort \/ MemoryAbort
    BY <1>5 DEF SkipPair, RejectPair, DerivedAbort, MemoryAbort, Finish, Visit,
       NextRight, input
  <1>6. CASE UNCHANGED vars
    BY <1>6 DEF vars, database
  <1>7. QED
    BY <1>1, <1>2, <1>3, <1>4, <1>5, <1>6 DEF Next, Done

\* A record is appended to the database.
Appended(r) ==
    /\ Ids' = Ids \cup {Len(records) + 1}
    /\ Len(records) + 1 \notin Ids
    /\ \A i \in Ids : records'[i] = records[i]
    /\ records'[Len(records) + 1] = r
    /\ Known' = Known \cup {r.clause}

(* Adding a record keeps all earlier ones where they are. *)
LEMMA AddRecordAppends ==
    ASSUME TypeOK, NEW r \in Record, AddRecord(r)
    PROVE  Appended(r)
  <1>1. /\ Len(records) \in Nat
        /\ Ids = 1 .. Len(records)
        /\ Ids' = 1 .. Len(records) + 1
        /\ \A i \in Ids : records'[i] = records[i]
        /\ records'[Len(records) + 1] = r
    BY AddRecordEffect DEF TypeOK
  <1>2. Ids' = Ids \cup {Len(records) + 1} /\ Len(records) + 1 \notin Ids
    BY <1>1
  <1>3. Known' = Known \cup {r.clause}
    BY <1>1, <1>2 DEF Known
  <1>4. QED
    BY <1>1, <1>2, <1>3 DEF Appended

(* Loading an input clause keeps all earlier records where they are. *)
LEMMA LoadsAppends ==
    ASSUME Typed, Loads
    PROVE  /\ Appended(OriginalRecord(formula[loaded + 1]))
           /\ OriginalRecord(formula[loaded + 1]) \in Record
           /\ formula[loaded + 1] \in ClausesOf(formula)
           /\ formula[loaded + 1] \in Clause
  <1>1. loaded + 1 \in 1 .. Len(formula) /\ formula \in Seq(Clause)
    BY FormulasAssumption DEF Typed, TypeOK, Loads
  <1>2. formula[loaded + 1] \in Clause /\ formula[loaded + 1] \in ClausesOf(formula)
    BY <1>1 DEF ClausesOf
  <1>3. OriginalRecord(formula[loaded + 1]) \in Record
    BY <1>2 DEF OriginalRecord, Record
  <1>4. QED
    BY <1>2, <1>3, AddRecordAppends DEF Typed, Loads

(* Deriving a clause keeps all earlier records where they are. *)
LEMMA LearnsAppends ==
    ASSUME Typed, NEW r \in rights, NEW p \in records[left].clause, Learns(r, p)
    PROVE  /\ Appended(DerivedRecord(r, p))
           /\ DerivedRecord(r, p) \in Record
           /\ p \in Literal
           /\ records[left].clause \in Clause
           /\ records[r].clause \in Clause
  <1>1. DerivedRecord(r, p) \in Record /\ p \in Literal
    BY DerivedRecordTyped DEF Typed, Learns
  <1>2. records[left] \in Record /\ records[r] \in Record
    BY DEF Typed, TypeOK, Learns, Ids
  <1>3. QED
    BY <1>1, <1>2, AddRecordAppends DEF Typed, Learns, Record

---------------------------------------------------------------------------
(* Soundness. *)

\* Sound, over assignments to any set of variables.
SoundInv ==
    \A i \in Ids : \A A :
        SatisfiesAll(A, ClausesOf(formula)) => Satisfies(A, records[i].clause)

(* The empty database is sound. *)
LEMMA SoundInit == Init => SoundInv
  BY DEF Init, SoundInv, Ids

(* Input clauses and resolvents keep the database sound. *)
LEMMA SoundNext == Typed /\ SoundInv /\ [Next]_vars => SoundInv'
  <1> SUFFICES ASSUME Typed, SoundInv, [Next]_vars,
                      NEW i \in Ids', NEW A,
                      SatisfiesAll(A, ClausesOf(formula'))
               PROVE  Satisfies(A, records'[i].clause)
    BY DEF SoundInv
  <1>1. formula' = formula /\ SatisfiesAll(A, ClausesOf(formula))
    BY Growth
  <1>2. CASE UNCHANGED database
    BY <1>1, <1>2 DEF SoundInv, database, Ids
  <1>3. CASE Loads
    <2>1. CASE i \in Ids
      BY <1>1, <1>3, <2>1, LoadsAppends DEF SoundInv, Appended
    <2>2. CASE i = Len(records) + 1
      <3>1. records'[i].clause = formula[loaded + 1]
        BY <1>3, <2>2, LoadsAppends DEF Appended, OriginalRecord
      <3>2. QED
        BY <1>1, <1>3, <3>1, LoadsAppends DEF SatisfiesAll
    <2>3. QED
      BY <1>3, <2>1, <2>2, LoadsAppends DEF Appended
  <1>4. ASSUME NEW r \in rights, NEW p \in records[left].clause, Learns(r, p)
        PROVE  Satisfies(A, records'[i].clause)
    <2>1. CASE i \in Ids
      BY <1>1, <1>4, <2>1, LearnsAppends DEF SoundInv, Appended
    <2>2. CASE i = Len(records) + 1
      <3>1. records'[i].clause = Resolvent(records[left].clause, records[r].clause, p)
        <4>1. records'[i] = DerivedRecord(r, p)
          BY <1>4, <2>2, LearnsAppends DEF Appended
        <4>2. QED
          BY <4>1 DEF DerivedRecord, ResolventOf
      <3>2. Satisfies(A, records[left].clause) /\ Satisfies(A, records[r].clause)
        BY <1>1, <1>4 DEF SoundInv, Learns
      <3>3. QED
        BY <1>4, <3>1, <3>2, LearnsAppends, ResolventHolds DEF Clause
    <2>3. QED
      BY <1>4, <2>1, <2>2, LearnsAppends DEF Appended
  <1>5. QED
    BY <1>2, <1>3, <1>4, Growth

(* Every recorded clause is entailed by the input.                         *)
THEOREM Soundness == Spec => []Sound
  <1>1. SoundInv => Sound
    BY DEF SoundInv, Sound, Entails
  <1>2. Spec => []SoundInv
    BY SoundInit, SoundNext, AlwaysTyped, PTL DEF Spec
  <1>3. QED
    BY <1>1, <1>2, PTL

---------------------------------------------------------------------------
(* One id per clause. *)

(* A clause that is recorded already is not recorded again. *)
LEMMA DistinctNext == Typed /\ Distinct /\ [Next]_vars => Distinct'
  <1> SUFFICES ASSUME Typed, Distinct, [Next]_vars
               PROVE  Distinct'
    OBVIOUS
  <1>1. CASE UNCHANGED database
    BY <1>1 DEF Distinct, database, Ids
  <1>2. CASE Loads
    <2>1. OriginalRecord(formula[loaded + 1]).clause \notin Known
      BY <1>2 DEF Loads, OriginalRecord
    <2>2. QED
      BY <1>2, <2>1, LoadsAppends DEF Appended, Distinct, Known
  <1>3. ASSUME NEW r \in rights, NEW p \in records[left].clause, Learns(r, p)
        PROVE  Distinct'
    <2>1. DerivedRecord(r, p).clause \notin Known
      BY <1>3 DEF Learns, Resolves, DerivedRecord, ResolventOf
    <2>2. QED
      BY <1>3, <2>1, LearnsAppends DEF Appended, Distinct, Known
  <1>4. QED
    BY <1>1, <1>2, <1>3, Growth

(* Clause ids are unambiguous.                                             *)
THEOREM Unambiguous == Spec => []Distinct
  <1>1. Init => Distinct
    BY DEF Init, Distinct, Ids
  <1>2. QED
    BY <1>1, DistinctNext, AlwaysTyped, PTL DEF Spec

---------------------------------------------------------------------------
(* The replay the witness checker performs. *)

LoadInv == pc = "load" => derived = 0 /\ \A i \in Ids : records[i].original

ReplayInv == Replayable /\ LoadInv

\* A record stays justified when another is appended.
LEMMA StaysJustified ==
    ASSUME Typed, formula' = formula, NEW new, Appended(new),
           NEW i \in Ids, Justified(i)
    PROVE  Justified(i)'
  <1>1. Ids = 1 .. Len(records) /\ Len(records) \in Nat
    BY DEF Typed, TypeOK, Ids
  <1>2. \A j \in 1 .. i : records'[j] = records[j]
    BY <1>1 DEF Appended
  <1>3. i \in 1 .. i
    BY <1>1
  <1>4. CASE records[i].original
    BY <1>2, <1>3, <1>4 DEF Justified, ClausesOf
  <1>5. CASE ~records[i].original
    <2> DEFINE a == records[i].parentA
               b == records[i].parentB
    <2>1. a \in 1 .. i - 1 /\ b \in 1 .. i - 1
      BY <1>5 DEF Justified
    <2>2. a \in 1 .. i /\ b \in 1 .. i
      BY <1>1, <2>1
    <2>3. records'[i] = records[i] /\ records'[a] = records[a] /\ records'[b] = records[b]
      BY <1>2, <1>3, <2>2
    <2>4. QED
      BY <1>5, <2>3 DEF Justified, Deeper
  <1>6. QED
    BY <1>4, <1>5

(* Every step keeps each recorded derivation replayable. *)
LEMMA ReplayNext == Typed /\ ReplayInv /\ [Next]_vars => ReplayInv'
  <1> SUFFICES ASSUME Typed, ReplayInv, [Next]_vars
               PROVE  ReplayInv'
    OBVIOUS
  <1>0. /\ formula' = formula /\ Ids = 1 .. Len(records) /\ Len(records) \in Nat
        /\ Replayable /\ LoadInv
    BY Growth DEF Typed, TypeOK, Ids, ReplayInv
  <1>1. CASE UNCHANGED database /\ (pc # "load" => pc' # "load")
    <2>1. \A i \in Ids' : Justified(i)'
      <3>1. records' = records
        BY <1>1 DEF database
      <3>2. QED
        BY <1>0, <3>1 DEF Replayable, Justified, Ids, Deeper
    <2>2. LoadInv'
      BY <1>0, <1>1 DEF LoadInv, database, Ids
    <2>3. QED
      BY <2>1, <2>2 DEF ReplayInv, Replayable
  <1>2. CASE Loads
    <2>0. PICK n : n = Len(records) + 1
      OBVIOUS
    <2>1. records'[n] = OriginalRecord(formula[loaded + 1]) /\ Ids' = Ids \cup {n}
      BY <1>2, <2>0, LoadsAppends DEF Appended
    <2>2. \A j \in Ids' : records'[j].original
      BY <1>0, <1>2, <2>1, LoadsAppends DEF Appended, Loads, LoadInv, OriginalRecord
    <2>3. 1 .. n = Ids'
      BY <1>0, <2>0, <2>1
    <2>4. Justified(n)'
      BY <1>0, <1>2, <2>1, <2>2, <2>3, LoadsAppends DEF Justified, OriginalRecord
    <2>5. \A i \in Ids : Justified(i)'
      BY <1>0, <1>2, LoadsAppends, StaysJustified DEF Replayable
    <2>6. LoadInv'
      BY <1>0, <1>2, <2>2 DEF LoadInv, Loads
    <2>7. QED
      BY <2>1, <2>4, <2>5, <2>6 DEF ReplayInv, Replayable
  <1>3. ASSUME NEW r \in rights, NEW p \in records[left].clause, Learns(r, p)
        PROVE  ReplayInv'
    <2>0. PICK n : n = Len(records) + 1
      OBVIOUS
    <2>1. records'[n] = DerivedRecord(r, p) /\ Ids' = Ids \cup {n}
      BY <1>3, <2>0, LearnsAppends DEF Appended
    <2>2. left \in 1 .. n - 1 /\ r \in 1 .. n - 1
      BY <1>0, <1>3, <2>0 DEF Learns
    <2>3. records'[left] = records[left] /\ records'[r] = records[r]
      BY <1>3, LearnsAppends DEF Appended, Learns
    <2>4. Pivots(records[left].clause, records[r].clause) = {p}
      BY <1>3 DEF Learns, Resolves
    <2>6. Justified(n)'
      BY <2>1, <2>2, <2>3, <2>4 DEF Justified, DerivedRecord, ResolventOf, Deeper
    <2>7. \A i \in Ids : Justified(i)'
      BY <1>0, <1>3, LearnsAppends, StaysJustified DEF Replayable
    <2>8. LoadInv'
      BY <1>3 DEF LoadInv, Learns
    <2>9. QED
      BY <2>1, <2>6, <2>7, <2>8 DEF ReplayInv, Replayable
  <1>4. QED
    BY <1>1, <1>2, <1>3, Growth

(* Replaying the records in id order succeeds.                             *)
THEOREM ReplaySucceeds == Spec => []Replayable
  <1>1. Init => ReplayInv
    BY DEF Init, ReplayInv, Replayable, LoadInv, Ids
  <1>2. ReplayInv => Replayable
    BY DEF ReplayInv
  <1>3. QED
    BY <1>1, <1>2, ReplayNext, AlwaysTyped, PTL DEF Spec

---------------------------------------------------------------------------
(* Budgets and the verdict. *)

DoneInv == pc # "done" => verdict = <<"RUNNING", "none">>

BudgetInv ==
    /\ derived \in 0 .. DerivedBudget
    /\ derived > 0 => bytes <= MemoryBudget
    /\ \A i \in Ids : /\ records[i].depth <= MaxDepth
                      /\ ~records[i].original =>
                            Cardinality(records[i].clause) <= MaxSize
    /\ verdict[2] = "derived_clause_budget" => derived = DerivedBudget
    /\ verdict[2] = "memory_budget" => MemoryShort
    /\ LoadInv
    /\ DoneInv

\* What a step does to the verdict.
LEMMA VerdictStep ==
    ASSUME Typed, DoneInv, [Next]_vars
    PROVE  \/ verdict' = verdict /\ (pc = "done" => pc' = "done") /\ (pc' = "done" => pc = "done")
           \/ /\ UNCHANGED database /\ pc # "done" /\ pc' = "done"
              /\ \/ verdict' = <<"COMPLETE", "fixed_point">> /\ FixedPoint
                 \/ verdict' = <<"ABORT", "time_budget">>
                 \/ verdict' = <<"ABORT", "derived_clause_budget">> /\ derived >= DerivedBudget
                 \/ verdict' = <<"ABORT", "memory_budget">> /\ MemoryShort
  <1>1. CASE LoadClause \/ LoadDuplicate \/ LoadDone
    BY <1>1 DEF LoadClause, LoadDuplicate, LoadDone
  <1>2. CASE PopAgenda \/ SkipLiteral \/ OpenLiteral \/ EndLeft
    BY <1>2 DEF PopAgenda, SkipLiteral, OpenLiteral, EndLeft, NextLiteral
  <1>3. CASE SkipPair \/ RejectPair \/ Derive
    BY <1>3 DEF SkipPair, RejectPair, Derive, Visit, NextRight
  <1>4. CASE TimeAbort
    BY <1>4 DEF TimeAbort, Finish
  <1>5. CASE FixedPoint
    BY <1>5 DEF FixedPoint, Finish
  <1>6. CASE DerivedAbort
    BY <1>6 DEF DerivedAbort, Finish, Visit, NextRight
  <1>7. CASE MemoryAbort
    <2>1. PICK r \in rights : \E p \in records[left].clause :
             /\ Visit(r) /\ Resolves(left, r, p) /\ ~Fits(r, p)
             /\ Finish("ABORT", "memory_budget") /\ UNCHANGED database
      BY <1>7 DEF MemoryAbort
    <2>2. PICK p \in records[left].clause :
             /\ Visit(r) /\ Resolves(left, r, p) /\ ~Fits(r, p)
             /\ Finish("ABORT", "memory_budget") /\ UNCHANGED database
      BY <2>1
    <2>3. pc = "scan" /\ left \in Ids /\ r \in Ids /\ bytes \in Nat
      BY <2>2 DEF Typed, TypeOK, LeftInv, Visit, NextRight
    <2>4. ClauseBytes(ResolventOf(r, p)) \in Nat
      BY <2>2, <2>3, DerivedRecordTyped, ClauseBytesNat DEF Typed
    <2>5. MemoryShort
      BY <2>2, <2>3, <2>4, BoundsAssumption DEF MemoryShort, Fits, ResolventOf
    <2>6. QED
      BY <2>2, <2>3, <2>5 DEF Finish
  <1>8. CASE UNCHANGED vars
    BY <1>8 DEF vars
  <1>9. QED
    BY <1>1, <1>2, <1>3, <1>4, <1>5, <1>6, <1>7, <1>8 DEF Next, Done

(* Every step keeps the database within its budgets. *)
LEMMA BudgetNext == Typed /\ BudgetInv /\ [Next]_vars => BudgetInv'
  <1> SUFFICES ASSUME Typed, BudgetInv, [Next]_vars
               PROVE  BudgetInv'
    OBVIOUS
  <1>0. /\ Ids = 1 .. Len(records) /\ Len(records) \in Nat
        /\ DoneInv /\ LoadInv /\ TypeOK
    BY DEF Typed, TypeOK, Ids, BudgetInv
  <1>1. DoneInv'
    BY <1>0, VerdictStep DEF DoneInv
  <1>2. CASE UNCHANGED database /\ (pc # "load" => pc' # "load")
    <2>1. records' = records /\ derived' = derived /\ bytes' = bytes
      BY <1>2 DEF database
    <2>2. verdict'[2] = "derived_clause_budget" => derived' = DerivedBudget
      BY <1>0, <2>1, VerdictStep, BoundsAssumption DEF BudgetInv
    <2>3. LoadInv'
      BY <1>0, <1>2, <2>1 DEF LoadInv, Ids
    <2>4. MemoryShort => MemoryShort'
      BY <2>1 DEF MemoryShort, Resolves, Deeper, Known, Ids
    <2>5. verdict'[2] = "memory_budget" => MemoryShort'
      BY <1>0, <2>4, VerdictStep DEF BudgetInv
    <2>6. QED
      BY <1>1, <2>1, <2>2, <2>3, <2>5 DEF BudgetInv, Ids
  <1>3. CASE Loads
    <2>1. verdict' = verdict /\ verdict = <<"RUNNING", "none">>
      BY <1>0, <1>3, VerdictStep DEF Loads, DoneInv
    <2>2. derived' = 0
      BY <1>0, <1>3 DEF Loads, LoadInv
    <2>3. \A i \in Ids' : records'[i].original /\ records'[i].depth <= MaxDepth
      BY <1>0, <1>3, LoadsAppends, BoundsAssumption
         DEF Appended, OriginalRecord, BudgetInv, Loads, LoadInv
    <2>4. LoadInv'
      BY <2>2, <2>3 DEF LoadInv
    <2>5. QED
      BY <1>1, <2>1, <2>2, <2>3, <2>4, BoundsAssumption DEF BudgetInv
  <1>4. ASSUME NEW r \in rights, NEW p \in records[left].clause, Learns(r, p)
        PROVE  BudgetInv'
    <2>1. verdict' = verdict /\ verdict = <<"RUNNING", "none">>
      BY <1>0, <1>4, VerdictStep DEF Learns, DoneInv
    <2>2. derived' \in 0 .. DerivedBudget
      BY <1>0, <1>4, BoundsAssumption DEF Learns, TypeOK
    <2>3. bytes' <= MemoryBudget
      BY <1>4 DEF Learns, Fits, AddRecord, DerivedRecord
    <2>4. /\ DerivedRecord(r, p).depth <= MaxDepth
          /\ Cardinality(DerivedRecord(r, p).clause) <= MaxSize
      BY <1>4 DEF Learns, Resolves, DerivedRecord, ResolventOf
    <2>5. \A i \in Ids' : /\ records'[i].depth <= MaxDepth
                          /\ ~records'[i].original =>
                                Cardinality(records'[i].clause) <= MaxSize
      BY <1>4, <2>4, LearnsAppends DEF Appended, BudgetInv
    <2>6. LoadInv'
      BY <1>4 DEF Learns, LoadInv
    <2>7. QED
      BY <1>1, <2>1, <2>2, <2>3, <2>5, <2>6 DEF BudgetInv
  <1>5. QED
    BY <1>2, <1>3, <1>4, Growth

(* No budget or limit is overrun, and an abort names the budget that is    *)
(* exhausted.                                                              *)
THEOREM BudgetsHold == Spec => []WithinBudgets
  <1>1. Init => BudgetInv
    BY BoundsAssumption DEF Init, BudgetInv, LoadInv, DoneInv, Ids
  <1>2. BudgetInv => WithinBudgets
    BY BoundsAssumption DEF BudgetInv, WithinBudgets
  <1>3. QED
    BY <1>1, <1>2, BudgetNext, AlwaysTyped, PTL DEF Spec

---------------------------------------------------------------------------
(* Records are only appended, and the verdict is final. *)

(* A clause id handed out keeps its clause, and no visited pair is retried. *)
THEOREM NothingIsForgotten == Spec => AppendOnly
  <1>1. ASSUME Typed, BudgetInv, [Next]_vars
        PROVE  [/\ Len(records') >= Len(records)
                /\ SubSeq(records', 1, Len(records)) = records
                /\ seen \subseteq seen'
                /\ verdict[1] # "RUNNING" => UNCHANGED <<records, verdict>>]_vars
    <2>0. TypeOK /\ DoneInv /\ records \in Seq(Record)
      BY <1>1 DEF Typed, BudgetInv, TypeOK
    <2>1. \/ records' = records
          \/ pc # "done" /\ \E r \in Record : AddRecord(r)
      <3>1. Loads => pc # "done" /\ \E r \in Record : AddRecord(r)
        BY <1>1, LoadsAppends DEF Loads
      <3>2. \A r \in rights, p \in records[left].clause :
               Learns(r, p) => pc # "done" /\ \E q \in Record : AddRecord(q)
        BY <1>1, LearnsAppends DEF Learns
      <3>3. QED
        BY <1>1, <3>1, <3>2, Growth DEF database
    <2>2. Len(records') >= Len(records) /\ SubSeq(records', 1, Len(records)) = records
      BY <2>0, <2>1 DEF AddRecord
    <2>3. seen \subseteq seen'
      BY <1>1 DEF Next, vars, LoadClause, LoadDuplicate, LoadDone, TimeAbort, PopAgenda,
         FixedPoint, SkipLiteral, OpenLiteral, EndLeft, SkipPair, RejectPair,
         DerivedAbort, MemoryAbort, Derive, Visit, Done, scan
    <2>4. verdict[1] # "RUNNING" => UNCHANGED <<records, verdict>>
      BY <1>1, <2>0, <2>1, VerdictStep DEF DoneInv
    <2>5. QED
      BY <2>2, <2>3, <2>4
  <1>2. Init => BudgetInv
    BY BoundsAssumption DEF Init, BudgetInv, LoadInv, DoneInv, Ids
  <1>3. Spec => []BudgetInv
    BY <1>2, BudgetNext, AlwaysTyped, PTL DEF Spec
  <1>4. QED
    BY <1>1, <1>3, AlwaysTyped, PTL DEF Spec, AppendOnly

---------------------------------------------------------------------------
(* COMPLETE means closed. *)

\* Nothing recordable is left of the pair i, j.
Settled(i, j) == \A p \in records[i].clause : ~Resolves(i, j, p)

\* Clause i has met every earlier clause on every literal that may pivot,
\* except those of the literals and right ids still before the loop.
CaughtUp ==
    \A i \in 1 .. cursor : \A j \in 1 .. i - 1 : \A l \in records[i].clause :
        MayPivot(l) /\ -l \in records[j].clause =>
            \/ {i, j} \in seen
            \/ pc = "scan" /\ i = left /\ (l \in lits \/ j \in rights)

ClosedInv ==
    /\ DoneInv
    /\ pc = "scan" => left = cursor
    /\ cursor <= Len(records)
    /\ verdict[1] # "ABORT" =>
          /\ \A i, j \in Ids : i # j /\ {i, j} \in seen => Settled(i, j)
          /\ CaughtUp
    /\ verdict[1] = "COMPLETE" => cursor = Len(records)

\* Resolving i with j on p is resolving j with i on -p.
LEMMA ResolvesSymmetric ==
    ASSUME Typed, NEW i \in Ids, NEW j \in Ids, NEW p \in records[i].clause,
           Resolves(i, j, p)
    PROVE  /\ p \in Literal /\ -p \in Literal
           /\ -p \in records[j].clause
           /\ Resolves(j, i, -p)
           /\ i # j
  <1> DEFINE C == records[i].clause
             D == records[j].clause
  <1>1. records[i] \in Record /\ records[j] \in Record
    BY DEF Typed, TypeOK, Ids
  <1>2. /\ C \in Clause /\ D \in Clause
        /\ records[i].depth \in Nat /\ records[j].depth \in Nat
    BY <1>1 DEF Record
  <1>3. C \subseteq Literal /\ D \subseteq Literal /\ p \in Literal /\ -p \in Literal
    BY <1>2 DEF Clause, Literal
  <1>4. Pivots(C, D) = {p}
    BY DEF Resolves
  <1>5. -p \in D
    BY <1>4 DEF Pivots
  <1>6. Pivots(D, C) = {-p}
    <2>1. \A l \in D : -l \in C <=> l = -p
      <3> SUFFICES ASSUME NEW l \in D
                   PROVE  -l \in C <=> l = -p
        OBVIOUS
      <3>1. l \in Int /\ p \in Int /\ -(-l) = l /\ -(-p) = p
        BY <1>3 DEF Literal
      <3>2. -l \in C => -l \in Pivots(C, D)
        BY <3>1 DEF Pivots
      <3>3. QED
        BY <1>4, <3>1, <3>2
    <2>2. QED
      BY <1>5, <2>1 DEF Pivots
  <1>7. -(-p) = p
    BY <1>3 DEF Literal
  <1>8. Resolvent(D, C, -p) = Resolvent(C, D, p)
    BY <1>7 DEF Resolvent
  <1>9. Deeper(j, i) = Deeper(i, j)
    BY <1>2 DEF Deeper
  <1>10. Resolves(j, i, -p)
    BY <1>6, <1>8, <1>9 DEF Resolves
  <1>11. i # j
    BY <1>2, <1>5 DEF Clause, Tautology
  <1>12. QED
    BY <1>3, <1>5, <1>10, <1>11

\* Known clauses stay known, so a settled pair stays settled.
LEMMA StaysSettled ==
    ASSUME Typed, NEW new, Appended(new), NEW i \in Ids, NEW j \in Ids, Settled(i, j)
    PROVE  Settled(i, j)'
  <1>1. /\ records'[i] = records[i] /\ records'[j] = records[j]
        /\ Known \subseteq Known'
    BY DEF Appended
  <1>2. QED
    BY <1>1 DEF Settled, Resolves, Deeper

\* Closure follows once every clause has been the left one.
LEMMA CaughtUpIsClosed ==
    ASSUME Typed, ClosedInv
    PROVE  ClosedWhenComplete
  <1> SUFFICES ASSUME verdict[1] = "COMPLETE",
                      NEW i \in Ids, NEW j \in Ids, NEW p \in records[i].clause,
                      MayPivot(p), Resolves(i, j, p)
               PROVE  FALSE
    BY DEF ClosedWhenComplete, Closed
  <1>1. /\ \A a, b \in Ids : a # b /\ {a, b} \in seen => Settled(a, b)
        /\ CaughtUp /\ cursor = Len(records) /\ pc # "scan"
    BY DEF ClosedInv, DoneInv
  <1>2. Ids = 1 .. cursor /\ cursor \in Nat
    BY <1>1 DEF Typed, TypeOK, Ids
  <1>3. /\ p \in Literal /\ -p \in records[j].clause /\ Resolves(j, i, -p) /\ i # j
    BY ResolvesSymmetric
  <1>4. MayPivot(-p) /\ -(-p) = p
    BY <1>3 DEF MayPivot, Variable, Literal
  <1>5. CASE j < i
    <2>1. j \in 1 .. i - 1 /\ i \in 1 .. cursor
      BY <1>2, <1>5
    <2>2. {i, j} \in seen
      BY <1>1, <1>3, <2>1 DEF CaughtUp
    <2>3. QED
      BY <1>1, <1>3, <2>2 DEF Settled
  <1>6. CASE i < j
    <2>1. i \in 1 .. j - 1 /\ j \in 1 .. cursor
      BY <1>2, <1>6
    <2>2. -(-p) \in records[i].clause
      BY <1>4
    <2>3. {j, i} \in seen
      BY <1>1, <1>3, <1>4, <2>1, <2>2 DEF CaughtUp
    <2>4. QED
      BY <1>1, <1>3, <2>3 DEF Settled
  <1>7. QED
    BY <1>2, <1>3, <1>5, <1>6

\* A pair whose resolvent has just been recorded is settled.
LEMMA LearningSettles ==
    ASSUME Typed, formula' = formula, NEW r \in rights, NEW p \in records[left].clause,
           Learns(r, p), NEW a, NEW b, a = left, b = r
    PROVE  Settled(a, b)' /\ Settled(b, a)'
  <1>1. /\ a \in Ids /\ b \in Ids /\ Resolves(a, b, p) /\ p \in records[a].clause
        /\ records'[a] = records[a] /\ records'[b] = records[b]
        /\ Resolvent(records[a].clause, records[b].clause, p) \in Known'
    <2>1. Appended(DerivedRecord(r, p))
      BY LearnsAppends
    <2>2. DerivedRecord(r, p).clause = Resolvent(records[a].clause, records[b].clause, p)
      BY DEF DerivedRecord, ResolventOf
    <2>3. QED
      BY <2>1, <2>2 DEF Appended, Learns
  <1>2. /\ Resolves(b, a, -p) /\ p \in Literal
    BY <1>1, ResolvesSymmetric
  <1>3. /\ Pivots(records[a].clause, records[b].clause) = {p}
        /\ Pivots(records[b].clause, records[a].clause) = {-p}
    BY <1>1, <1>2 DEF Resolves
  <1>4. Resolvent(records[b].clause, records[a].clause, -p)
          = Resolvent(records[a].clause, records[b].clause, p)
    BY <1>2 DEF Resolvent, Literal
  <1>5. \A q : ~Resolves(a, b, q)'
    BY <1>1, <1>3 DEF Resolves
  <1>6. \A q : ~Resolves(b, a, q)'
    BY <1>1, <1>3, <1>4 DEF Resolves
  <1>7. QED
    BY <1>5, <1>6 DEF Settled

(* Every step keeps the pairs that the search has passed settled. *)
LEMMA ClosedNext == Typed /\ ClosedInv /\ [Next]_vars => ClosedInv'
  <1> SUFFICES ASSUME Typed, ClosedInv, [Next]_vars
               PROVE  ClosedInv'
    OBVIOUS
  <1>0. /\ TypeOK /\ DoneInv /\ formula' = formula
        /\ Ids = 1 .. Len(records) /\ Len(records) \in Nat
        /\ cursor \in Nat /\ cursor <= Len(records)
        /\ seen \in SUBSET SUBSET Ids
    BY Growth DEF Typed, TypeOK, Ids, ClosedInv
  <1>D. DoneInv'
    BY <1>0, VerdictStep DEF DoneInv
  <1>R. pc # "done" => /\ \A i, j \in Ids : i # j /\ {i, j} \in seen => Settled(i, j)
                       /\ CaughtUp
    BY <1>0 DEF ClosedInv, DoneInv
  <1>S. records' = records =>
           /\ Ids' = Ids
           /\ \A i, j \in Ids : Settled(i, j) => Settled(i, j)'
    BY DEF Settled, Resolves, Deeper, Known, Ids
  <1>M. \A l : MayPivot(l)' = MayPivot(l)
    BY <1>0 DEF MayPivot
  <1>1. CASE LoadClause
    <2>1. /\ UNCHANGED <<pc, cursor, left, lits, rights, seen, verdict>>
          /\ pc = "load"
          /\ AddRecord(OriginalRecord(formula[loaded + 1]))
          /\ loaded \in 0 .. Len(formula) - 1 /\ loaded' = loaded + 1
      <3>1. Len(formula) \in Nat
        BY <1>0, FormulasAssumption DEF TypeOK
      <3>2. QED
        BY <1>0, <1>1, <3>1 DEF LoadClause, scan, TypeOK
    <2>2. Appended(OriginalRecord(formula[loaded + 1]))
      <3>1. Loads \/ UNCHANGED database
        BY <2>1, Growth DEF Learns
      <3>2. ~UNCHANGED database
        BY <1>0, <2>1 DEF AddRecord, database, TypeOK
      <3>3. QED
        BY <3>1, <3>2, LoadsAppends
    <2>3. \A i, j \in Ids' : i # j /\ {i, j} \in seen' => Settled(i, j)'
      BY <1>0, <1>R, <2>1, <2>2, StaysSettled
    <2>4. \A i \in 1 .. cursor : \A j \in 1 .. i - 1 :
             /\ i \in Ids /\ j \in Ids
             /\ records'[i] = records[i] /\ records'[j] = records[j]
      BY <1>0, <2>2 DEF Appended
    <2>5. CaughtUp'
      BY <1>M, <1>R, <2>1, <2>4 DEF CaughtUp
    <2>6. cursor' <= Len(records')
      BY <1>0, <2>1 DEF AddRecord, TypeOK
    <2>7. verdict'[1] # "COMPLETE"
      BY <1>0, <2>1 DEF DoneInv
    <2>8. QED
      BY <1>D, <2>1, <2>3, <2>5, <2>6, <2>7 DEF ClosedInv
  <1>2. CASE LoadDuplicate \/ LoadDone
    <2>1. /\ UNCHANGED <<records, cursor, left, lits, rights, seen, verdict>>
          /\ pc = "load" /\ pc' \in {"load", "agenda"}
      BY <1>2 DEF LoadDuplicate, LoadDone, scan, database
    <2>2. CaughtUp'
      BY <1>M, <1>R, <2>1 DEF CaughtUp
    <2>3. QED
      BY <1>0, <1>D, <1>R, <1>S, <2>1, <2>2 DEF ClosedInv, DoneInv
  <1>3. CASE TimeAbort \/ DerivedAbort \/ MemoryAbort
    <2>1. /\ pc' = "done" /\ verdict'[1] = "ABORT"
          /\ UNCHANGED <<records, cursor>>
      BY <1>3 DEF TimeAbort, DerivedAbort, MemoryAbort, Finish, Visit, NextRight,
         database
    <2>2. QED
      BY <1>0, <1>D, <2>1 DEF ClosedInv
  <1>4. CASE PopAgenda
    <2>1. /\ pc = "agenda" /\ pc' = "scan"
          /\ cursor' = cursor + 1
          /\ cursor + 1 \in 1 .. Len(agenda)
          /\ left' = agenda[cursor + 1]
          /\ lits' = records[agenda[cursor + 1]].clause
          /\ UNCHANGED <<rights, seen, records, verdict>>
      BY <1>0, <1>4 DEF PopAgenda, database
    <2>2. left' = cursor + 1 /\ lits' = records[cursor + 1].clause
          /\ cursor + 1 <= Len(records)
      BY <2>1 DEF Typed, AgendaInv
    <2>3. CaughtUp'
      <3> SUFFICES ASSUME NEW i \in 1 .. cursor + 1, NEW j \in 1 .. i - 1,
                          NEW l \in records[i].clause,
                          MayPivot(l), -l \in records[j].clause, {i, j} \notin seen
                   PROVE  i = cursor + 1 /\ l \in lits'
        BY <1>M, <2>1, <2>2 DEF CaughtUp
      <3>1. i \notin 1 .. cursor
        BY <1>R, <2>1 DEF CaughtUp
      <3>2. i = cursor + 1
        BY <1>0, <3>1
      <3>3. QED
        BY <2>2, <3>2
    <2>4. verdict'[1] # "COMPLETE"
      BY <1>0, <2>1 DEF DoneInv
    <2>5. QED
      BY <1>0, <1>D, <1>R, <1>S, <2>1, <2>2, <2>3, <2>4 DEF ClosedInv
  <1>5. CASE FixedPoint
    <2>1. /\ pc = "agenda" /\ pc' = "done" /\ cursor = Len(records)
          /\ UNCHANGED <<records, cursor, left, lits, rights, seen>>
      BY <1>5 DEF FixedPoint, Finish, scan, database, Typed, AgendaInv
    <2>2. CaughtUp'
      BY <1>M, <1>R, <2>1 DEF CaughtUp
    <2>3. QED
      BY <1>0, <1>D, <1>R, <1>S, <2>1, <2>2 DEF ClosedInv
  \* The steps of the scan that visit no fresh pair.
  <1>6. ASSUME pc = "scan", pc' \in {"scan", "agenda"},
               UNCHANGED <<records, cursor, seen, verdict>>,
               pc' = "scan" => left' = left,
               CaughtUp'
        PROVE  ClosedInv'
    BY <1>0, <1>D, <1>R, <1>S, <1>6 DEF ClosedInv, DoneInv
  <1>7. CASE SkipLiteral
    <2>1. PICK m \in lits : /\ NextLiteral(m) /\ ~MayPivot(m)
                            /\ lits' = lits \ {m}
                            /\ UNCHANGED <<pc, cursor, left, rights, seen, records, verdict>>
      BY <1>7 DEF SkipLiteral, database
    <2>2. CaughtUp'
      BY <1>M, <1>R, <2>1 DEF CaughtUp, NextLiteral
    <2>3. QED
      BY <1>6, <2>1, <2>2 DEF NextLiteral
  <1>8. CASE OpenLiteral
    <2>1. PICK m \in lits : /\ NextLiteral(m)
                            /\ lits' = lits \ {m} /\ rights' = Occurrences(-m)
                            /\ UNCHANGED <<pc, cursor, left, seen, records, verdict>>
      BY <1>8 DEF OpenLiteral, database
    <2>2. CaughtUp'
      <3> SUFFICES ASSUME NEW i \in 1 .. cursor, NEW j \in 1 .. i - 1,
                          NEW l \in records[i].clause,
                          MayPivot(l), -l \in records[j].clause, {i, j} \notin seen
                   PROVE  i = left /\ (l \in lits' \/ j \in rights')
        BY <1>M, <2>1 DEF CaughtUp, NextLiteral
      <3>1. i = left /\ (l \in lits \/ j \in rights)
        BY <1>R, <2>1 DEF CaughtUp, NextLiteral
      <3>2. rights = {} /\ j \in Ids
        BY <1>0, <2>1 DEF NextLiteral
      <3>3. l = m => j \in rights'
        BY <2>1, <3>2 DEF Occurrences
      <3>4. QED
        BY <2>1, <3>1, <3>2, <3>3
    <2>3. QED
      BY <1>6, <2>1, <2>2 DEF NextLiteral
  <1>9. CASE EndLeft
    <2>1. /\ pc = "scan" /\ pc' = "agenda" /\ lits = {} /\ rights = {}
          /\ UNCHANGED <<cursor, seen, records, verdict>>
      BY <1>9 DEF EndLeft, database
    <2>2. CaughtUp'
      BY <1>M, <1>R, <2>1 DEF CaughtUp
    <2>3. QED
      BY <1>6, <2>1, <2>2
  <1>10. CASE SkipPair
    <2>1. PICK r \in rights : /\ NextRight(r) /\ ~Fresh(r)
                              /\ UNCHANGED <<pc, cursor, left, lits, seen, records, verdict>>
      BY <1>10 DEF SkipPair, database
    <2>2. CaughtUp'
      <3> SUFFICES ASSUME NEW i \in 1 .. cursor, NEW j \in 1 .. i - 1,
                          NEW l \in records[i].clause,
                          MayPivot(l), -l \in records[j].clause, {i, j} \notin seen
                   PROVE  i = left /\ (l \in lits \/ j \in rights')
        BY <1>M, <2>1 DEF CaughtUp, NextRight
      <3>1. i = left /\ (l \in lits \/ j \in rights)
        BY <1>R, <2>1 DEF CaughtUp, NextRight
      <3>2. j # left
        BY <1>0, <3>1
      <3>3. j # r
        BY <2>1, <3>1, <3>2 DEF Fresh
      <3>4. QED
        BY <2>1, <3>1, <3>3 DEF NextRight
    <2>3. QED
      BY <1>6, <2>1, <2>2 DEF NextRight
  \* Once a pair has been visited it counts as caught up.
  <1>V. ASSUME NEW r \in rights, Visit(r), pc' = "scan", verdict' = verdict,
               \A i \in 1 .. cursor : records'[i] = records[i]
        PROVE  CaughtUp'
    <2>1. /\ pc = "scan" /\ rights' = rights \ {r} /\ seen' = seen \cup {{left, r}}
          /\ UNCHANGED <<cursor, left, lits>>
      BY <1>V DEF Visit, NextRight
    <2>2. \A i \in 1 .. cursor : \A j \in 1 .. i - 1 :
             records'[i] = records[i] /\ records'[j] = records[j]
      BY <1>0, <1>V
    <2>3. SUFFICES ASSUME NEW i \in 1 .. cursor, NEW j \in 1 .. i - 1,
                          NEW l \in records[i].clause,
                          MayPivot(l), -l \in records[j].clause, {i, j} \notin seen'
                   PROVE  i = left /\ (l \in lits \/ j \in rights')
      BY <1>M, <1>V, <2>1, <2>2 DEF CaughtUp
    <2>4. i = left /\ (l \in lits \/ j \in rights)
      BY <1>R, <2>1, <2>3 DEF CaughtUp
    <2>5. j # r
      BY <2>1, <2>3, <2>4
    <2>6. QED
      BY <2>1, <2>4, <2>5
  <1>11. CASE RejectPair
    <2>1. PICK r \in rights : /\ Visit(r) /\ Settled(left, r)
                              /\ UNCHANGED <<pc, records, verdict>>
      BY <1>11 DEF RejectPair, database, Settled
    <2>2. /\ pc = "scan" /\ seen' = seen \cup {{left, r}} /\ UNCHANGED <<cursor, left>>
          /\ left \in Ids /\ r \in Ids
      BY <1>0, <2>1 DEF Visit, NextRight, Typed, LeftInv, TypeOK
    <2>3. Settled(r, left)
      BY <2>1, <2>2, ResolvesSymmetric DEF Settled
    <2>4. \A i, j \in Ids : i # j /\ {i, j} \in seen' => Settled(i, j)
      <3> SUFFICES ASSUME NEW i \in Ids, NEW j \in Ids, i # j, {i, j} = {left, r}
                   PROVE  Settled(i, j)
        BY <1>R, <2>2
      <3>1. (i = left /\ j = r) \/ (i = r /\ j = left)
        OBVIOUS
      <3>2. QED
        BY <2>1, <2>3, <3>1
    <2>5. CaughtUp'
      BY <1>V, <2>1, <2>2
    <2>6. QED
      BY <1>0, <1>D, <1>S, <2>1, <2>2, <2>4, <2>5 DEF ClosedInv, DoneInv
  <1>12. CASE Derive
    <2>1. PICK r \in rights, p \in records[left].clause :
             Visit(r) /\ Learns(r, p) /\ UNCHANGED <<pc, verdict>>
      BY <1>0, <1>12 DEF Derive, Learns, Visit, NextRight, Typed, LeftInv, TypeOK
    <2>2. Appended(DerivedRecord(r, p))
      BY <2>1, LearnsAppends
    <2>3. /\ pc = "scan" /\ seen' = seen \cup {{left, r}} /\ UNCHANGED <<cursor, left>>
          /\ left \in Ids /\ r \in Ids
      BY <2>1 DEF Visit, NextRight, Learns
    <2>4. \A i, j \in Ids' : i # j /\ {i, j} \in seen' => Settled(i, j)'
      <3> SUFFICES ASSUME NEW i \in Ids', NEW j \in Ids', i # j, {i, j} \in seen'
                   PROVE  Settled(i, j)'
        OBVIOUS
      <3>1. CASE {i, j} \in seen
        <4>1. i \in Ids /\ j \in Ids
          BY <1>0, <3>1
        <4>2. Settled(i, j)
          BY <1>R, <2>3, <3>1, <4>1
        <4>3. QED
          BY <2>2, <4>1, <4>2, StaysSettled
      <3>2. CASE {i, j} = {left, r}
        <4>1. (i = left /\ j = r) \/ (i = r /\ j = left)
          BY <3>2
        <4>2. QED
          BY <1>0, <2>1, <4>1, LearningSettles
      <3>3. QED
        BY <2>3, <3>1, <3>2
    <2>5. \A i \in 1 .. cursor : records'[i] = records[i]
      BY <1>0, <2>2 DEF Appended
    <2>6. CaughtUp'
      BY <1>V, <2>1, <2>3, <2>5
    <2>7. cursor' <= Len(records')
      BY <1>0, <2>1, <2>3 DEF Learns, AddRecord, TypeOK
    <2>8. verdict' = <<"RUNNING", "none">> /\ left' = cursor'
      BY <1>0, <2>1, <2>3 DEF ClosedInv, DoneInv
    <2>9. QED
      BY <1>D, <2>4, <2>6, <2>7, <2>8 DEF ClosedInv
  <1>13. CASE UNCHANGED vars
    BY <1>13 DEF vars, ClosedInv, DoneInv, CaughtUp, Settled, Resolves, Deeper,
       Known, Ids, MayPivot
  <1>14. QED
    BY <1>1, <1>2, <1>3, <1>4, <1>5, <1>7, <1>8, <1>9, <1>10, <1>11, <1>12, <1>13
       DEF Next, Done

(* COMPLETE is returned only at a fixed point: a fixed point of the        *)
(* recorded depths, whatever the order in which clauses were found.        *)
THEOREM FixedPointIsClosed == Spec => []ClosedWhenComplete
  <1>1. Init => ClosedInv
    BY DEF Init, ClosedInv, DoneInv, CaughtUp, Ids
  <1>2. Spec => [](Typed /\ ClosedInv)
    BY <1>1, ClosedNext, AlwaysTyped, PTL DEF Spec
  <1>3. Typed /\ ClosedInv => ClosedWhenComplete
    BY CaughtUpIsClosed
  <1>4. QED
    BY <1>2, <1>3, PTL

---------------------------------------------------------------------------
(* The loop implements the closure operation of module Resolution. *)

\* What has been read of the formula is recorded, all of it after loading.
LoadedInv ==
    /\ \A k \in 1 .. loaded : formula[k] \in Known
    /\ pc # "load" => loaded = Len(formula)

\* A clause of the formula is never recorded as derived.
OriginalInv ==
    \A i \in Ids : records[i].clause \in ClausesOf(formula) => records[i].original

\* The right ids before the loop were found with one literal of the left
\* clause, which may pivot.
RightsInv ==
    /\ pc \in {"load", "agenda"} => rights = {}
    /\ pc = "scan" =>
          /\ lits \subseteq records[left].clause
          /\ rights # {} =>
                \E l \in records[left].clause :
                    MayPivot(l) /\ \A r \in rights : -l \in records[r].clause

\* A recorded clause has the depth of its record.
DepthInv == \A i \in Ids : \A C : C = records[i].clause => DepthOf(C) = records[i].depth

\* What the refinement rests on.
RefinementInv ==
    /\ Typed /\ BudgetInv /\ ReplayInv /\ Distinct /\ ClosedWhenComplete
    /\ LoadedInv /\ OriginalInv /\ RightsInv /\ DepthInv

\* Once it is loaded, every clause of the formula is recorded.
LEMMA FormulaKnown ==
    ASSUME Typed, LoadedInv, pc # "load"
    PROVE  ClausesOf(formula) \subseteq Known
  <1>1. formula \in Seq(Clause) /\ loaded = Len(formula)
    BY FormulasAssumption DEF Typed, TypeOK, LoadedInv
  <1>2. DOMAIN formula = 1 .. loaded
    BY <1>1
  <1>3. QED
    BY <1>2 DEF LoadedInv, ClausesOf

\* Originals have depth 0, and the id of a derived clause is its only one.
LEMMA DepthRecorded == Distinct /\ ReplayInv /\ OriginalInv => DepthInv
  <1> SUFFICES ASSUME Distinct, Replayable, OriginalInv, NEW i \in Ids
               PROVE  DepthOf(records[i].clause) = records[i].depth
    BY DEF DepthInv, ReplayInv
  <1>1. CASE records[i].clause \in ClausesOf(formula)
    <2>1. records[i].depth = 0
      BY <1>1 DEF OriginalInv, Replayable, Justified
    <2>2. QED
      BY <1>1, <2>1 DEF DepthOf
  <1>2. CASE records[i].clause \notin ClausesOf(formula)
    <2> DEFINE j == CHOOSE k \in Ids : records[k].clause = records[i].clause
    <2>1. j \in Ids /\ records[j].clause = records[i].clause
      OBVIOUS
    <2>2. j = i
      BY <2>1 DEF Distinct
    <2>3. QED
      BY <1>2, <2>2 DEF DepthOf
  <1>3. QED
    BY <1>1, <1>2

\* Every step keeps the formula's clauses recorded, as originals.
LEMMA LoadedNext ==
    ASSUME Typed, LoadedInv, OriginalInv, [Next]_vars
    PROVE  LoadedInv' /\ OriginalInv'
  <1>0. /\ formula' = formula /\ Len(formula) \in Nat /\ loaded \in 0 .. Len(formula)
        /\ formula \in Seq(Clause)
    BY Growth, FormulasAssumption DEF Typed, TypeOK
  <1>L. /\ \/ loaded' = loaded
           \/ /\ pc = "load" /\ loaded' = loaded + 1 /\ pc' = "load"
              /\ formula[loaded + 1] \in Known' \/ Loads
        /\ pc' # "load" => loaded' = Len(formula)
    <2>1. CASE LoadClause
      BY <1>0, <2>1 DEF LoadClause, Loads
    <2>2. CASE LoadDuplicate
      <3>1. Known' = Known
        BY <2>2 DEF LoadDuplicate, database, Known, Ids
      <3>2. QED
        BY <2>2, <3>1 DEF LoadDuplicate
    <2>3. CASE LoadDone
      BY <2>3 DEF LoadDone, input
    <2>4. CASE TimeAbort \/ PopAgenda \/ FixedPoint \/ SkipLiteral \/ OpenLiteral \/ EndLeft
      BY <2>4 DEF TimeAbort, PopAgenda, FixedPoint, SkipLiteral, OpenLiteral, EndLeft,
         NextLiteral, LoadedInv, input
    <2>5. CASE SkipPair \/ RejectPair \/ DerivedAbort \/ MemoryAbort \/ Derive
      BY <2>5 DEF SkipPair, RejectPair, DerivedAbort, MemoryAbort, Derive, Visit,
         NextRight, LoadedInv, input
    <2>6. CASE UNCHANGED vars
      BY <2>6 DEF vars, LoadedInv
    <2>7. QED
      BY <2>1, <2>2, <2>3, <2>4, <2>5, <2>6 DEF Next, Done
  <1>K. Known \subseteq Known' /\ (Loads => formula[loaded + 1] \in Known')
    <2>1. CASE UNCHANGED database
      BY <2>1 DEF database, Known, Ids, Loads, AddRecord, Typed, TypeOK
    <2>2. CASE Loads
      BY <2>2, LoadsAppends DEF Appended, OriginalRecord
    <2>3. ASSUME NEW r \in rights, NEW p \in records[left].clause, Learns(r, p)
          PROVE  Known \subseteq Known' /\ ~Loads
      BY <2>3, LearnsAppends DEF Appended, Learns, Loads
    <2>4. QED
      BY <2>1, <2>2, <2>3, Growth
  <1>1. LoadedInv'
    <2>1. \A k \in 1 .. loaded' : formula[k] \in Known'
      BY <1>0, <1>L, <1>K DEF LoadedInv
    <2>2. QED
      BY <1>0, <1>L, <2>1 DEF LoadedInv
  <1>2. OriginalInv'
    <2>0. ClausesOf(formula') = ClausesOf(formula)
      BY <1>0
    <2>1. CASE UNCHANGED database
      BY <2>0, <2>1 DEF OriginalInv, database, Ids
    <2>2. CASE Loads
      BY <2>0, <2>2, LoadsAppends DEF OriginalInv, Appended, OriginalRecord
    <2>3. ASSUME NEW r \in rights, NEW p \in records[left].clause, Learns(r, p)
          PROVE  OriginalInv'
      <3>1. ResolventOf(r, p) \notin Known /\ pc # "load"
        BY <2>3 DEF Learns, Resolves, ResolventOf
      <3>2. DerivedRecord(r, p).clause \notin ClausesOf(formula)
        BY <3>1, FormulaKnown DEF DerivedRecord
      <3>3. QED
        BY <2>0, <2>3, <3>2, LearnsAppends DEF OriginalInv, Appended
    <2>4. QED
      BY <2>1, <2>2, <2>3, Growth
  <1>3. QED
    BY <1>1, <1>2

\* Originals are recorded in the order in which the formula first has them.
FirstsInv ==
    /\ \A i, j \in Ids : i < j /\ records[j].original =>
         \A k \in DOMAIN formula : formula[k] = records[j].clause =>
             \E m \in DOMAIN formula : m < k /\ formula[m] = records[i].clause
    /\ pc = "load" => \A i \in Ids : \E m \in 1 .. loaded : formula[m] = records[i].clause

\* Every step keeps the originals in this order.
LEMMA FirstsNext ==
    ASSUME Typed, LoadedInv, FirstsInv, [Next]_vars
    PROVE  FirstsInv'
  <1>0. /\ formula' = formula /\ Len(formula) \in Nat /\ loaded \in 0 .. Len(formula)
        /\ DOMAIN formula = 1 .. Len(formula)
        /\ Ids = 1 .. Len(records) /\ Len(records) \in Nat
    BY Growth, FormulasAssumption DEF Typed, TypeOK, Ids
  <1>1. CASE Loads
    <2> DEFINE n == Len(records) + 1
               new == formula[loaded + 1]
    <2>1. /\ Ids' = Ids \cup {n} /\ records'[n] = OriginalRecord(new)
          /\ \A i \in Ids : records'[i] = records[i] /\ i < n
      BY <1>0, <1>1, LoadsAppends DEF Appended
    <2>2. /\ pc = "load" /\ loaded' = loaded + 1 /\ new \notin Known
          /\ loaded + 1 \in DOMAIN formula
      BY <1>0, <1>1 DEF Loads
    <2>3. ASSUME NEW k \in DOMAIN formula, formula[k] = new
          PROVE  k > loaded
      BY <1>0, <2>2, <2>3 DEF LoadedInv
    <2>4. ASSUME NEW i \in Ids', NEW j \in Ids', i < j, records'[j].original,
                 NEW k \in DOMAIN formula, formula[k] = records'[j].clause
          PROVE  \E m \in DOMAIN formula : m < k /\ formula[m] = records'[i].clause
      <3>1. i \in Ids /\ records'[i] = records[i]
        BY <1>0, <2>1, <2>4
      <3>2. CASE j = n
        <4>1. formula[k] = new
          BY <2>1, <2>4, <3>2 DEF OriginalRecord
        <4>2. PICK m \in 1 .. loaded : formula[m] = records[i].clause
          BY <2>2, <3>1 DEF FirstsInv
        <4>3. k > loaded
          BY <2>3, <4>1
        <4>4. QED
          BY <1>0, <3>1, <4>2, <4>3
      <3>3. CASE j \in Ids
        BY <2>1, <2>4, <3>1, <3>3 DEF FirstsInv
      <3>4. QED
        BY <2>1, <3>2, <3>3
    <2>5. ASSUME NEW i \in Ids'
          PROVE  \E m \in 1 .. loaded' : formula[m] = records'[i].clause
      <3>1. CASE i = n
        BY <1>0, <2>1, <2>2, <3>1 DEF OriginalRecord
      <3>2. CASE i \in Ids
        <4>1. PICK m \in 1 .. loaded : formula[m] = records[i].clause
          BY <2>2, <3>2 DEF FirstsInv
        <4>2. m \in 1 .. loaded' /\ records'[i] = records[i]
          BY <1>0, <2>1, <2>2, <3>2
        <4>3. QED
          BY <1>0, <4>1, <4>2
      <3>3. QED
        BY <2>1, <3>1, <3>2
    <2>6. QED
      BY <1>0, <2>4, <2>5 DEF FirstsInv
  <1>2. ASSUME NEW r \in rights, NEW p \in records[left].clause, Learns(r, p)
        PROVE  FirstsInv'
    <2> DEFINE n == Len(records) + 1
    <2>1. /\ Ids' = Ids \cup {n} /\ ~records'[n].original
          /\ \A i \in Ids : records'[i] = records[i] /\ i < n
          /\ pc' # "load" /\ n \in Nat
      BY <1>0, <1>2, LearnsAppends DEF Appended, DerivedRecord, Learns
    <2>2. ASSUME NEW i \in Ids', NEW j \in Ids', i < j, records'[j].original
          PROVE  i \in Ids /\ j \in Ids /\ records'[i] = records[i] /\ records'[j] = records[j]
      BY <1>0, <2>1, <2>2
    <2>3. ASSUME NEW i \in Ids', NEW j \in Ids', i < j, records'[j].original,
                 NEW k \in DOMAIN formula, formula[k] = records'[j].clause
          PROVE  \E m \in DOMAIN formula : m < k /\ formula[m] = records'[i].clause
      <3>1. i \in Ids /\ j \in Ids /\ records'[i] = records[i] /\ records'[j] = records[j]
        BY <2>2, <2>3
      <3>2. PICK m \in DOMAIN formula : m < k /\ formula[m] = records[i].clause
        BY <2>3, <3>1 DEF FirstsInv
      <3>3. QED
        BY <3>1, <3>2
    <2>4. DOMAIN formula' = DOMAIN formula /\ formula' = formula
      BY <1>0
    <2> HIDE DEF n
    <2>5. QED
      BY <2>1, <2>3, <2>4 DEF FirstsInv
  <1>3. CASE UNCHANGED database
    <2>1. records' = records /\ Ids' = Ids
      BY <1>3 DEF database, Ids
    <2>2. pc' = "load" => pc = "load" /\ (loaded' = loaded \/ loaded' = loaded + 1)
      BY <1>3 DEF Next, vars, LoadClause, LoadDuplicate, LoadDone, TimeAbort, PopAgenda,
         FixedPoint, SkipLiteral, OpenLiteral, EndLeft, NextLiteral, SkipPair, RejectPair,
         DerivedAbort, MemoryAbort, Derive, Done, Visit, NextRight, Finish, input
    <2>3. ASSUME pc' = "load", NEW i \in Ids
          PROVE  \E m \in 1 .. loaded' : formula[m] = records[i].clause
      <3>1. PICK m \in 1 .. loaded : formula[m] = records[i].clause
        BY <2>2, <2>3 DEF FirstsInv
      <3>2. m \in 1 .. loaded'
        BY <1>0, <2>2, <2>3
      <3>3. QED
        BY <3>1, <3>2
    <2>4. QED
      BY <1>0, <2>1, <2>3 DEF FirstsInv
  <1>4. QED
    BY <1>1, <1>2, <1>3, Growth

\* Every step keeps the right ids tied to a literal that may pivot.
LEMMA RightsNext ==
    ASSUME Typed, RightsInv, [Next]_vars
    PROVE  RightsInv'
  <1>0. /\ formula' = formula /\ TypeOK /\ LeftInv /\ Ids = 1 .. Len(records)
        /\ AgendaInv
    BY Growth DEF Typed, TypeOK, Ids
  <1>M. \A l : MayPivot(l)' = MayPivot(l)
    BY <1>0 DEF MayPivot
  <1>1. CASE LoadClause \/ LoadDuplicate \/ LoadDone
    BY <1>1 DEF LoadClause, LoadDuplicate, LoadDone, RightsInv, scan
  <1>2. CASE TimeAbort \/ FixedPoint \/ DerivedAbort \/ MemoryAbort
    BY <1>2 DEF TimeAbort, FixedPoint, DerivedAbort, MemoryAbort, Finish, RightsInv
  <1>3. CASE PopAgenda
    <2>1. /\ pc = "agenda" /\ pc' = "scan" /\ rights' = {} /\ records' = records
          /\ lits' = records[left'].clause
      BY <1>3 DEF PopAgenda, RightsInv, database
    <2>2. QED
      BY <2>1 DEF RightsInv
  <1>4. CASE SkipLiteral \/ EndLeft
    BY <1>M, <1>4 DEF SkipLiteral, EndLeft, NextLiteral, RightsInv, database
  <1>5. CASE OpenLiteral
    <2>1. PICK l \in lits :
             /\ pc = "scan" /\ MayPivot(l)
             /\ lits' = lits \ {l} /\ rights' = Occurrences(-l)
             /\ UNCHANGED <<pc, left, records>>
      BY <1>5 DEF OpenLiteral, NextLiteral, database
    <2>2. l \in records[left].clause /\ lits \subseteq records[left].clause
      BY <2>1 DEF RightsInv
    <2>3. \A r \in rights' : -l \in records[r].clause
      BY <2>1 DEF Occurrences
    <2>4. QED
      BY <1>M, <2>1, <2>2, <2>3 DEF RightsInv
  \* The steps of the scan that take an id off rights.
  <1>6. ASSUME pc = "scan", rights' \subseteq rights, lits' = lits, left' = left,
               \A i \in Ids : records'[i] = records[i], pc' = "scan"
        PROVE  RightsInv'
    <2>1. left \in Ids /\ rights \subseteq Ids
      BY <1>0, <1>6 DEF LeftInv, TypeOK
    <2>2. QED
      BY <1>M, <1>6, <2>1 DEF RightsInv
  <1>7. CASE SkipPair \/ RejectPair
    BY <1>6, <1>7 DEF SkipPair, RejectPair, Visit, NextRight, database
  <1>8. CASE Derive
    <2>1. PICK r \in rights, p \in records[left].clause :
             Visit(r) /\ Learns(r, p) /\ UNCHANGED pc
      BY <1>0, <1>8 DEF Derive, Learns, Visit, NextRight, LeftInv, TypeOK
    <2>2. \A i \in Ids : records'[i] = records[i]
      BY <2>1, LearnsAppends DEF Appended
    <2>3. QED
      BY <1>6, <2>1, <2>2 DEF Visit, NextRight
  <1>9. CASE UNCHANGED vars
    BY <1>M, <1>9 DEF vars, RightsInv
  <1>10. QED
    BY <1>1, <1>2, <1>3, <1>4, <1>5, <1>7, <1>8, <1>9 DEF Next, Done

\* What the refinement rests on holds throughout a run.
LEMMA AlwaysRefinementInv == Spec => []RefinementInv
  <1>1. Init => LoadedInv /\ OriginalInv /\ RightsInv
    BY DEF Init, LoadedInv, OriginalInv, RightsInv, Ids
  <1>2. Spec => [](LoadedInv /\ OriginalInv)
    BY <1>1, LoadedNext, AlwaysTyped, PTL DEF Spec
  <1>3. Spec => []RightsInv
    BY <1>1, RightsNext, AlwaysTyped, PTL DEF Spec
  <1>4. Spec => [](BudgetInv /\ ReplayInv)
    <2>1. Init => BudgetInv /\ ReplayInv
      BY BoundsAssumption DEF Init, BudgetInv, ReplayInv, Replayable, LoadInv, DoneInv, Ids
    <2>2. QED
      BY <2>1, BudgetNext, ReplayNext, AlwaysTyped, PTL DEF Spec
  <1>5. QED
    BY <1>2, <1>3, <1>4, AlwaysTyped, Unambiguous, FixedPointIsClosed, DepthRecorded,
       PTL DEF RefinementInv

\* The clauses of the abstract database, with their depths.
Depths == [C \in ClausesOf(formula) \cup Known |-> DepthOf(C)]

\* A step that records nothing new but a clause of the formula changes no depth.
LEMMA DepthsKept ==
    ASSUME RefinementInv, RefinementInv', formula' = formula,
           UNCHANGED database \/ Loads
    PROVE  Depths' = Depths
  <1>0. ClausesOf(formula') = ClausesOf(formula)
    OBVIOUS
  <1>1. Ids \subseteq Ids' /\ \A i \in Ids : records'[i] = records[i]
    BY LoadsAppends DEF Appended, database, Ids, RefinementInv
  <1>2. ClausesOf(formula) \cup Known' = ClausesOf(formula) \cup Known
    BY LoadsAppends DEF Appended, OriginalRecord, database, Known, Ids, RefinementInv
  <1>3. \A C \in ClausesOf(formula) \cup Known : DepthOf(C)' = DepthOf(C)
    <2> SUFFICES ASSUME NEW C \in ClausesOf(formula) \cup Known
                 PROVE  DepthOf(C)' = DepthOf(C)
      OBVIOUS
    <2>1. CASE C \in ClausesOf(formula)
      BY <1>0, <2>1 DEF DepthOf
    <2>2. CASE C \in Known
      <3>1. PICK i \in Ids : C = records[i].clause
        BY <2>2 DEF Known
      <3>2. DepthOf(C) = records[i].depth
        BY <3>1 DEF RefinementInv, DepthInv
      <3>3. DepthInv'
        BY DEF RefinementInv
      <3>4. i \in Ids' /\ C = records'[i].clause /\ records'[i].depth = records[i].depth
        BY <1>1, <3>1
      <3>5. DepthOf(C)' = records'[i].depth
        BY <3>3, <3>4 DEF DepthInv
      <3>6. QED
        BY <3>2, <3>4, <3>5
    <2>3. QED
      BY <2>1, <2>2
  <1>4. QED
    BY <1>2, <1>3 DEF Depths

\* The operators of CNF, and the abstract actions, in terms of this module.
LEMMA SameOperators ==
    /\ \A S : Closure!Cardinality(S) = Cardinality(S)
    /\ \A l : Closure!Variable(l) = Variable(l)
    /\ \A C : Closure!Tautology(C) = Tautology(C)
    /\ \A C, D : Closure!Pivots(C, D) = Pivots(C, D)
    /\ \A C, D, p : Closure!Resolvent(C, D, p) = Resolvent(C, D, p)
    /\ \A f, v : Closure!OriginalOccurrences(f, v) = OriginalOccurrences(f, v)
    /\ \A f : Closure!ClausesOf(f) = ClausesOf(f)
  <1>1. \A S : Closure!Cardinality(S) = Cardinality(S)
    BY DEF Closure!Cardinality, Cardinality
  <1>2. \A l : Closure!Variable(l) = Variable(l)
    BY DEF Closure!Variable, Variable
  <1>3. \A f, v : Closure!OriginalOccurrences(f, v) = OriginalOccurrences(f, v)
    BY <1>1, <1>2 DEF Closure!OriginalOccurrences, OriginalOccurrences,
       Closure!VariablesOf, VariablesOf
  <1>4. \A C : Closure!Tautology(C) = Tautology(C)
    BY DEF Closure!Tautology, Tautology
  <1>5. \A C, D : Closure!Pivots(C, D) = Pivots(C, D)
    BY DEF Closure!Pivots, Pivots
  <1>6. \A C, D, p : Closure!Resolvent(C, D, p) = Resolvent(C, D, p)
    BY DEF Closure!Resolvent, Resolvent
  <1>7. \A f : Closure!ClausesOf(f) = ClausesOf(f)
    BY DEF Closure!ClausesOf, ClausesOf
  <1>8. QED
    BY <1>1, <1>2, <1>3, <1>4, <1>5, <1>6, <1>7

\* What is missing from the abstract database.
LEMMA MissingMeans ==
    ASSUME NEW C, NEW D, NEW p
    PROVE  Closure!Missing(C, D, p) <=>
              /\ OriginalOccurrences(formula, Variable(p)) <= PivotLimit
              /\ Pivots(C, D) = {p}
              /\ ~Tautology(Resolvent(C, D, p))
              /\ Cardinality(Resolvent(C, D, p)) <= MaxSize
              /\ Depths[C] < MaxDepth /\ Depths[D] < MaxDepth
              /\ Resolvent(C, D, p) \notin DOMAIN Depths
  <1>1. Closure!Missing(C, D, p) <=>
              /\ Closure!OriginalOccurrences(formula, Closure!Variable(p)) <= PivotLimit
              /\ Closure!Pivots(C, D) = {p}
              /\ ~Closure!Tautology(Closure!Resolvent(C, D, p))
              /\ Closure!Cardinality(Closure!Resolvent(C, D, p)) <= MaxSize
              /\ Depths[C] < MaxDepth /\ Depths[D] < MaxDepth
              /\ Closure!Resolvent(C, D, p) \notin DOMAIN Depths
    BY Zenon DEF Closure!Missing, Closure!Admissible, Depths
  <1>2. QED
    BY <1>1, SameOperators, Zenon

\* A derived clause is one the closure operation may infer.
LEMMA LearnsInfers ==
    ASSUME RefinementInv, RefinementInv', formula' = formula,
           NEW r \in rights, NEW p \in records[left].clause, Learns(r, p)
    PROVE  Closure!Infer
  <1>0. PICK C, D, R : /\ C = records[left].clause /\ D = records[r].clause
                       /\ R = Resolvent(C, D, p)
    OBVIOUS
  <1>1. /\ Typed /\ left \in Ids /\ r \in Ids /\ pc = "scan" /\ verdict[1] = "RUNNING"
        /\ verdict' = verdict
    BY DEF RefinementInv, BudgetInv, DoneInv, Learns
  <1>2. DOMAIN Depths = Known
    BY <1>1, FormulaKnown DEF RefinementInv, Depths
  <1>3. C \in Known /\ D \in Known /\ R \notin Known
    BY <1>0, <1>1 DEF Known, Learns, Resolves
  <1>4. Depths[C] = records[left].depth /\ Depths[D] = records[r].depth
    BY <1>0, <1>1, <1>2, <1>3 DEF Depths, RefinementInv, DepthInv
  <1>5. Depths[C] \in Nat /\ Depths[D] \in Nat
    <2>1. records[left] \in Record /\ records[r] \in Record
      BY <1>1 DEF Typed, TypeOK, Ids
    <2>2. QED
      BY <1>4, <2>1 DEF Record
  <1>6. OriginalOccurrences(formula, Variable(p)) <= PivotLimit
    <2>1. PICK l \in C : MayPivot(l) /\ -l \in D
      BY <1>0, <1>1 DEF RefinementInv, RightsInv
    <2>2. l = p
      BY <1>0, <2>1 DEF Learns, Resolves, Pivots
    <2>3. QED
      BY <2>1, <2>2 DEF MayPivot
  <1>7. Closure!Missing(C, D, p)
    <2>1. /\ Pivots(C, D) = {p} /\ ~Tautology(R) /\ Cardinality(R) <= MaxSize
          /\ Deeper(left, r) <= MaxDepth
      BY <1>0 DEF Learns, Resolves
    <2>2. Depths[C] < MaxDepth /\ Depths[D] < MaxDepth
      BY <1>4, <1>5, <2>1, BoundsAssumption DEF Deeper
    <2>3. QED
      BY <1>0, <1>2, <1>3, <1>6, <2>1, <2>2, MissingMeans
  <1>8. Depths' = [E \in DOMAIN Depths \cup {R} |->
                     IF E \in DOMAIN Depths THEN Depths[E]
                     ELSE 1 + IF Depths[C] > Depths[D] THEN Depths[C] ELSE Depths[D]]
    <2>1. Appended(DerivedRecord(r, p)) /\ DerivedRecord(r, p).clause = R
          /\ DerivedRecord(r, p).depth = Deeper(left, r)
      BY <1>0, LearnsAppends DEF RefinementInv, DerivedRecord, ResolventOf
    <2>2. ClausesOf(formula') \cup Known' = DOMAIN Depths \cup {R}
      BY <1>2, <2>1 DEF Appended, Depths
    <2>3. /\ \A i \in Ids' : \A E : E = records'[i].clause => DepthOf(E)' = records'[i].depth
          /\ \A i \in Ids : \A E : E = records[i].clause => DepthOf(E) = records[i].depth
      BY DEF RefinementInv, DepthInv
    <2>4. ASSUME NEW E \in DOMAIN Depths
          PROVE  DepthOf(E)' = Depths[E]
      <3>1. PICK i \in Ids : E = records[i].clause
        BY <1>2, <2>4 DEF Known
      <3>2. i \in Ids' /\ records'[i] = records[i]
        BY <2>1 DEF Appended
      <3>3. Depths[E] = DepthOf(E)
        BY <2>4 DEF Depths
      <3>4. QED
        BY <2>3, <3>1, <3>2, <3>3
    <2>5. DepthOf(R)' = Deeper(left, r)
      <3>1. PICK n : n = Len(records) + 1
        OBVIOUS
      <3>2. n \in Ids' /\ R = records'[n].clause /\ records'[n].depth = Deeper(left, r)
        BY <2>1, <3>1 DEF Appended
      <3>3. QED
        BY <2>3, <3>2
    <2>6. Deeper(left, r) = 1 + IF Depths[C] > Depths[D] THEN Depths[C] ELSE Depths[D]
      BY <1>4 DEF Deeper
    <2>7. Depths' = [E \in ClausesOf(formula') \cup Known' |-> DepthOf(E)']
      BY DEF Depths
    <2>8. QED
      BY <1>2, <1>3, <2>2, <2>4, <2>5, <2>6, <2>7
  <1>9. QED
    <2>1. Closure!Resolvent(C, D, p) = R
      BY <1>0, SameOperators
    <2>2. C \in DOMAIN Depths /\ D \in DOMAIN Depths /\ p \in C
      BY <1>0, <1>2, <1>3
    <2>3. \E X, Y \in DOMAIN Depths : \E q \in X :
             /\ Closure!Missing(X, Y, q)
             /\ Depths' = [E \in DOMAIN Depths \cup {Closure!Resolvent(X, Y, q)} |->
                     IF E \in DOMAIN Depths THEN Depths[E]
                     ELSE 1 + IF Depths[X] > Depths[Y] THEN Depths[X] ELSE Depths[Y]]
      BY <1>7, <1>8, <2>1, <2>2, Zenon
    <2>4. formula' = formula /\ verdict[1] = "RUNNING" /\ verdict'[1] = verdict[1]
      BY <1>1
    <2>5. QED
      BY <2>3, <2>4, Zenon DEF Closure!Infer, Depths

\* COMPLETE is said when nothing is missing from the abstract database.
LEMMA FixedPointCompletes ==
    ASSUME RefinementInv, RefinementInv', [Next]_vars, formula' = formula, FixedPoint
    PROVE  Closure!Complete
  <1>1. /\ pc = "agenda" /\ verdict' = <<"COMPLETE", "fixed_point">>
        /\ UNCHANGED database /\ verdict[1] = "RUNNING"
    BY DEF FixedPoint, Finish, RefinementInv, BudgetInv, DoneInv
  <1>2. Depths' = Depths
    BY <1>1, DepthsKept
  <1>3. DOMAIN Depths = Known
    BY <1>1, FormulaKnown DEF RefinementInv, Depths
  <1>4. Closed
    <2>1. Closed'
      BY <1>1 DEF RefinementInv, ClosedWhenComplete
    <2>2. records' = records
      BY <1>1 DEF database
    <2>3. QED
      BY <2>1, <2>2 DEF Closed, MayPivot, Resolves, Deeper, Known, Ids
  <1>5. ASSUME NEW C \in Known, NEW D \in Known, NEW p \in C, Closure!Missing(C, D, p)
        PROVE  FALSE
    <2>1. PICK i \in Ids, j \in Ids : C = records[i].clause /\ D = records[j].clause
      BY DEF Known
    <2>2. Depths[C] = records[i].depth /\ Depths[D] = records[j].depth
      BY <1>3, <2>1 DEF Depths, RefinementInv, DepthInv
    <2>3. records[i] \in Record /\ records[j] \in Record
      BY <2>1 DEF RefinementInv, Typed, TypeOK, Ids
    <2>4. Deeper(i, j) <= MaxDepth
      BY <1>5, <2>2, <2>3, MissingMeans, BoundsAssumption DEF Deeper, Record
    <2>5. Resolves(i, j, p) /\ MayPivot(p)
      BY <1>3, <1>5, <2>1, <2>4, MissingMeans DEF Resolves, MayPivot
    <2>6. QED
      BY <1>4, <1>5, <2>1, <2>5 DEF Closed
  <1>6. \A C, D \in DOMAIN Depths : \A p \in C : ~Closure!Missing(C, D, p)
    BY <1>3, <1>5
  <1>7. verdict'[1] = "COMPLETE"
    BY <1>1
  <1>8. QED
    BY <1>1, <1>2, <1>6, <1>7, Zenon DEF Closure!Complete, Depths

(* bounded_resolution implements the closure operation: each of its steps  *)
(* infers one missing resolvent with the depth of its derivation, ends the *)
(* search for one of the two reasons, or changes nothing the closure sees; *)
(* COMPLETE is said only when no admissible resolvent is missing.          *)
THEOREM ImplementsClosure == Spec => ImplementsResolution
  <1>1. Init => Closure!Init
    <2> SUFFICES ASSUME Init
                 PROVE  Closure!Init
      OBVIOUS
    <2>1. Known = {}
      BY DEF Init, Known, Ids
    <2>2. Depths = [C \in ClausesOf(formula) |-> 0]
      BY <2>1 DEF Depths, DepthOf
    <2>3. formula \in Formulas /\ verdict[1] = "RUNNING"
      BY DEF Init
    <2>4. Closure!ClausesOf(formula) = ClausesOf(formula)
      BY SameOperators
    <2>5. QED
      BY <2>2, <2>3, <2>4, Zenon DEF Closure!Init, Depths
  <1>2. RefinementInv /\ RefinementInv' /\ [Next]_vars => [Closure!Next]_Closure!resVars
    <2> SUFFICES ASSUME RefinementInv, RefinementInv', [Next]_vars
                 PROVE  [Closure!Next]_Closure!resVars
      OBVIOUS
    <2>1. formula' = formula /\ Typed /\ DoneInv
      BY Growth DEF RefinementInv, BudgetInv
    <2>2. ASSUME UNCHANGED database \/ Loads, verdict' = verdict
          PROVE  UNCHANGED Closure!resVars
      <3>1. Depths' = Depths
        BY <2>1, <2>2, DepthsKept
      <3>2. QED
        BY <2>1, <2>2, <3>1, Zenon DEF Closure!resVars, Depths
    <2>3. ASSUME NEW r \in rights, NEW p \in records[left].clause, Learns(r, p)
          PROVE  Closure!Next
      BY <2>1, <2>3, LearnsInfers DEF Closure!Next
    <2>4. ASSUME UNCHANGED database, verdict' # verdict, pc # "done"
          PROVE  Closure!Next
      <3>1. CASE FixedPoint
        BY <2>1, <3>1, FixedPointCompletes DEF Closure!Next
      <3>2. CASE verdict'[1] = "ABORT"
        <4>1. Depths' = Depths
          BY <2>1, <2>4, DepthsKept
        <4>2. verdict[1] = "RUNNING"
          BY <2>1, <2>4 DEF DoneInv
        <4>3. Closure!Abort
          BY <2>1, <3>2, <4>1, <4>2, Zenon DEF Closure!Abort, Depths
        <4>4. QED
          BY <4>3 DEF Closure!Next
      <3>3. QED
        BY <2>1, <2>4, <3>1, <3>2, VerdictStep
    <2>5. QED
      BY <2>1, <2>2, <2>3, <2>4, Growth, VerdictStep
  <1>3. QED
    BY <1>1, <1>2, AlwaysRefinementInv, PTL DEF Spec, ImplementsResolution, Closure!Spec
=============================================================================
