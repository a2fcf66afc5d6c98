------------------------- MODULE MonthlyQuotaProofs -------------------------
(***************************************************************************)
(* What MonthlyQuota promises for every limit and any number of months and *)
(* events.  The invariant says where counts may be too small but never too *)
(* large: nothing is admitted in a month the process has not reached, and  *)
(* neither the memory nor a flush under way nor a row exceeds what was     *)
(* admitted in its month, or the limit.                                    *)
(***************************************************************************)
EXTENDS MonthlyQuota, TLAPS

WriterRecord == [pc : {"idle", "snapshot", "query", "create", "update"},
                 month : Month, count : Nat, again : BOOLEAN]

WithinLimit(c) == Limit >= 0 => c <= Limit

\* Months ahead of the process are empty.
NothingAhead ==
  /\ month <= now
  /\ \A m \in Month : m > month => granted[m] = 0 /\ forgotten[m] = 0

\* No flush carries more than was admitted in its month.
Bounded(r) == r.count <= granted[r.month] /\ WithinLimit(r.count)
WritersBounded == \A w \in Writer : Bounded(writer[w])

RowsBounded == \A m \in Month : WithinLimit(stored[m])
CountBounded == WithinLimit(count)

IInv ==
  /\ TypeOK /\ NothingAhead /\ WritersBounded /\ NeverOvercounted
  /\ RowsBounded /\ CountBounded /\ GrantedWithinLimit

\* The record of a new flush.
LEMMA SnapshotType ==
  ASSUME NEW m \in Month, NEW c \in Nat, NEW a \in BOOLEAN
  PROVE  /\ FlushSnapshot(m, c, a) \in WriterRecord
         /\ FlushSnapshot(m, c, a).month = m
         /\ FlushSnapshot(m, c, a).count = c
BY DEF FlushSnapshot, WriterRecord

\* Replacing one writer by a record that is typed and bounded.
LEMMA SetWriter ==
  ASSUME TypeOK, WritersBounded, NEW w \in Writer, NEW r \in WriterRecord,
         Bounded(r), writer' = [writer EXCEPT ![w] = r], granted' = granted
  PROVE  writer' \in [Writer -> WriterRecord] /\ WritersBounded'
<1>1. writer \in [Writer -> WriterRecord]  BY DEF TypeOK, WriterRecord
<1>2. writer' \in [Writer -> WriterRecord]  BY <1>1
<1>3. ASSUME NEW v \in Writer PROVE Bounded(writer[v])'
  <2>1. writer'[v] = IF v = w THEN r ELSE writer[v]  BY <1>1
  <2>2. Bounded(writer[v])  BY DEF WritersBounded
  <2>. QED BY <2>1, <2>2 DEF Bounded, WithinLimit
<1>. QED BY <1>2, <1>3 DEF WritersBounded

\* Only the pc of a writer moves.
LEMMA SetPc ==
  ASSUME TypeOK, WritersBounded, NEW w \in Writer,
         NEW p \in {"idle", "snapshot", "query", "create", "update"},
         writer' = [writer EXCEPT ![w].pc = p], granted' = granted
  PROVE  writer' \in [Writer -> WriterRecord] /\ WritersBounded'
<1>1. writer \in [Writer -> WriterRecord]  BY DEF TypeOK, WriterRecord
<1>2. writer[w] \in WriterRecord  BY <1>1
<1>. DEFINE r == [writer[w] EXCEPT !.pc = p]
<1>3. r \in WriterRecord /\ r.month = writer[w].month /\ r.count = writer[w].count
  BY <1>2 DEF WriterRecord
<1>4. Bounded(r)  BY <1>3 DEF WritersBounded, Bounded
<1>5. writer' = [writer EXCEPT ![w] = r]  OBVIOUS
<1>. HIDE DEF r
<1>. QED BY <1>3, <1>4, <1>5, SetWriter

LEMMA InitInv == Init => IInv
<1>. SUFFICES ASSUME Init PROVE IInv  OBVIOUS
<1>1. 1 \in Month  BY BoundAssumption DEF Month
<1>2. Idle \in WriterRecord /\ Idle.count = 0 /\ Idle.month = 1
  BY <1>1 DEF Idle, WriterRecord
<1>3. TypeOK  BY <1>1, <1>2 DEF Init, TypeOK, WriterRecord, Serving
<1>4. WritersBounded
  BY <1>1, <1>2, LimitAssumption DEF Init, WritersBounded, Bounded, WithinLimit
<1>5. NothingAhead /\ NeverOvercounted /\ RowsBounded /\ CountBounded /\ GrantedWithinLimit
  BY <1>1, LimitAssumption
  DEF Init, NothingAhead, NeverOvercounted, RowsBounded, CountBounded,
      GrantedWithinLimit, WithinLimit, Month
<1>. QED BY <1>3, <1>4, <1>5 DEF IInv

\* What checkAndRotate leaves: the count of the new month, and the old one in
\* the hands of a writer that may carry it.
LEMMA RotateFacts ==
  ASSUME IInv, Serving
  PROVE  /\ Current \in Nat /\ WithinLimit(Current)
         /\ Current + forgotten[now] = granted[now]
         /\ count <= granted[month]
         /\ \A m \in Month : m > now => granted[m] = 0 /\ forgotten[m] = 0
<1>0. /\ count \in Nat /\ forgotten[month] \in Nat /\ granted[month] \in Nat
      /\ count + forgotten[month] = granted[month]
      /\ WithinLimit(count) /\ NothingAhead
  BY DEF IInv, TypeOK, CountBounded
<1>1. CASE now = month
  <2>1. Current = count  BY <1>1 DEF Current
  <2>. QED BY <1>0, <1>1, <2>1 DEF NothingAhead
<1>2. CASE now # month
  <2>1. now > month /\ granted[now] = 0 /\ forgotten[now] = 0
    BY <1>2 DEF IInv, TypeOK, NothingAhead, Month
  <2>. QED
    BY <1>2, <2>1, LimitAssumption
    DEF IInv, TypeOK, Current, WithinLimit, NothingAhead, Month
<1>. QED BY <1>1, <1>2

\* A flush or an event changes the month: time stays, nothing ahead stays.
LEMMA RotateKeeps ==
  ASSUME IInv, Serving, month' = now, now' = now,
         \A m \in Month : m > now => granted'[m] = granted[m],
         forgotten' = forgotten
  PROVE  NothingAhead'
BY RotateFacts DEF IInv, TypeOK, NothingAhead, Month

LEMMA GrantStep == ASSUME IInv, TryIncrement PROVE IInv'
<1>1. Serving /\ CheckAndRotate /\ UNCHANGED <<now, stored, phase, forgotten>>
  BY DEF TryIncrement
<1>2. PICK n \in {0, 1} :
        /\ count' = Current + n
        /\ granted' = [granted EXCEPT ![now] = @ + n]
        /\ n = 1 => Limit < 0 \/ Current < Limit
  <2>1. CASE Grant /\ (Limit < 0 \/ Current < Limit)  BY <2>1 DEF Grant
  <2>2. CASE count' = Current /\ UNCHANGED granted
    <3>1. granted' = [granted EXCEPT ![now] = @ + 0]  BY <2>2 DEF IInv, TypeOK
    <3>2. count' = Current + 0  BY <2>2, <1>1, RotateFacts
    <3>. QED BY <3>1, <3>2
  <2>. QED BY <2>1, <2>2 DEF TryIncrement
<1>3. /\ now \in Month /\ month \in Month /\ count \in Nat
      /\ granted \in [Month -> Nat] /\ forgotten \in [Month -> Nat]
      /\ writer \in [Writer -> WriterRecord]
  BY DEF IInv, TypeOK, WriterRecord
<1>4. /\ Current \in Nat /\ WithinLimit(Current)
      /\ Current + forgotten[now] = granted[now] /\ count <= granted[month]
  BY <1>1, RotateFacts
<1>5. /\ granted' \in [Month -> Nat] /\ granted'[now] = granted[now] + n
      /\ \A m \in Month : m # now => granted'[m] = granted[m]
      /\ \A m \in Month : granted[m] <= granted'[m]
  BY <1>2, <1>3
<1>6. count' \in Nat /\ WithinLimit(count') /\ count' + forgotten[now] = granted'[now]
  BY <1>2, <1>3, <1>4, <1>5, LimitAssumption DEF WithinLimit
<1>7. writer' \in [Writer -> WriterRecord] /\ WritersBounded'
  <2>1. CASE now = month
    <3>1. writer' = writer  BY <1>1, <2>1 DEF CheckAndRotate
    <3>2. ASSUME NEW w \in Writer PROVE Bounded(writer[w])'
      <4>1. writer[w].month \in Month /\ writer[w].count \in Nat
        BY <1>3 DEF WriterRecord
      <4>2. Bounded(writer[w])  BY DEF IInv, WritersBounded
      <4>. QED BY <3>1, <4>1, <4>2, <1>3, <1>5 DEF Bounded, WithinLimit
    <3>. QED BY <1>3, <3>1, <3>2 DEF WritersBounded
  <2>2. CASE now # month
    <3>. DEFINE r == FlushSnapshot(month, count, FALSE)
    <3>1. writer' = [writer EXCEPT ![month] = r]
      BY <1>1, <2>2 DEF CheckAndRotate
    <3>2. r \in WriterRecord /\ r.month = month /\ r.count = count
      BY <1>3, SnapshotType
    <3>. HIDE DEF r
    <3>3. month \in Writer  BY <1>3 DEF Writer
    <3>4. ASSUME NEW w \in Writer PROVE Bounded(writer[w])'
      <4>1. writer'[w] = IF w = month THEN r ELSE writer[w]
        BY <3>1, <3>3, <1>3
      <4>2. writer[w].month \in Month /\ writer[w].count \in Nat
        BY <1>3 DEF WriterRecord
      <4>3. Bounded(writer[w]) /\ WithinLimit(count)
        BY DEF IInv, WritersBounded, CountBounded
      <4>4. CASE w = month
        BY <4>1, <4>3, <4>4, <3>2, <1>3, <1>4, <1>5 DEF Bounded, WithinLimit
      <4>5. CASE w # month
        BY <4>1, <4>2, <4>3, <4>5, <1>3, <1>5 DEF Bounded, WithinLimit
      <4>. QED BY <4>4, <4>5
    <3>5. writer' \in [Writer -> WriterRecord]  BY <3>1, <3>2, <1>3
    <3>. QED BY <3>4, <3>5 DEF WritersBounded
  <2>. QED BY <2>1, <2>2
<1>8. month' = now  BY <1>1 DEF CheckAndRotate
<1>9. TypeOK'
  BY <1>1, <1>3, <1>5, <1>6, <1>7, <1>8 DEF IInv, TypeOK, WriterRecord, Serving
<1>10. NothingAhead'
  <2>1. \A m \in Month : m > now => granted'[m] = granted[m]
    BY <1>3, <1>5 DEF Month
  <2>. QED BY <1>1, <1>8, <2>1, RotateKeeps
<1>11. NeverOvercounted' /\ RowsBounded'
  BY <1>1, <1>3, <1>5
  DEF IInv, TypeOK, NeverOvercounted, RowsBounded, WithinLimit
<1>12. GrantedWithinLimit'
  <2>. SUFFICES ASSUME Limit >= 0, NEW m \in Month
                PROVE  granted'[m] <= Limit + forgotten[m]
    BY <1>1 DEF GrantedWithinLimit
  <2>1. CASE m = now
    BY <2>1, <1>3, <1>5, <1>6, LimitAssumption DEF WithinLimit
  <2>2. CASE m # now
    BY <2>2, <1>5 DEF IInv, GrantedWithinLimit
  <2>. QED BY <2>1, <2>2
<1>. QED BY <1>6, <1>7, <1>9, <1>10, <1>11, <1>12 DEF IInv, CountBounded

\* Tick and FlushAtShutdown: the phase aside.
LEMMA FlushStep ==
  ASSUME IInv, Serving, NEW w \in Writer, Flush(w), Serving',
         phase' \in {"up", "stopping", "flushing", "released", "crashed"}
  PROVE  IInv'
<1>1. /\ now \in Month /\ month \in Month /\ count \in Nat
      /\ granted \in [Month -> Nat] /\ forgotten \in [Month -> Nat]
      /\ stored \in [Month -> Nat]
  BY DEF IInv, TypeOK
<1>2. /\ Current \in Nat /\ WithinLimit(Current)
      /\ Current + forgotten[now] = granted[now] /\ count <= granted[month]
  BY RotateFacts
<1>3. /\ month' = now /\ count' = Current
      /\ now' = now /\ stored' = stored /\ granted' = granted /\ forgotten' = forgotten
  BY DEF Flush
<1>. DEFINE c == IF now = month THEN 0 ELSE count
            r == FlushSnapshot(month, c, TRUE)
<1>4. writer' = [writer EXCEPT ![w] = r]  BY DEF Flush
<1>5. c \in Nat /\ c <= granted[month] /\ WithinLimit(c)
  BY <1>1, <1>2, LimitAssumption DEF IInv, CountBounded, WithinLimit
<1>. HIDE DEF c
<1>6. r \in WriterRecord /\ r.month = month /\ r.count = c
  BY <1>1, <1>5, SnapshotType
<1>. HIDE DEF r
<1>7. Bounded(r)  BY <1>5, <1>6 DEF Bounded
<1>8. writer' \in [Writer -> WriterRecord] /\ WritersBounded'
  BY <1>3, <1>4, <1>6, <1>7, SetWriter DEF IInv
<1>9. TypeOK'
  BY <1>1, <1>2, <1>3, <1>8 DEF TypeOK, WriterRecord
<1>10. NothingAhead'
  BY <1>3, RotateKeeps
<1>11. NeverOvercounted' /\ RowsBounded' /\ GrantedWithinLimit' /\ CountBounded'
  BY <1>2, <1>3
  DEF IInv, NeverOvercounted, RowsBounded, GrantedWithinLimit, CountBounded, WithinLimit
<1>. QED BY <1>8, <1>9, <1>10, <1>11 DEF IInv

\* What changes neither the counts nor the months keeps the rest.
LEMMA WriterStep ==
  ASSUME IInv, UNCHANGED <<now, month, count, phase, granted, forgotten>>,
         writer' \in [Writer -> WriterRecord], WritersBounded',
         stored' \in [Month -> Nat], NeverOvercounted', RowsBounded'
  PROVE  IInv'
<1>1. TypeOK'  BY DEF IInv, TypeOK, WriterRecord, Serving
<1>2. NothingAhead' /\ GrantedWithinLimit' /\ CountBounded'
  BY DEF IInv, NothingAhead, GrantedWithinLimit, CountBounded, WithinLimit
<1>. QED BY <1>1, <1>2 DEF IInv

\* A write that leaves the rows alone.
LEMMA RowsStay ==
  ASSUME IInv, UNCHANGED <<now, month, count, stored, phase, granted, forgotten>>,
         writer' \in [Writer -> WriterRecord], WritersBounded'
  PROVE  IInv'
<1>1. stored' \in [Month -> Nat] /\ NeverOvercounted' /\ RowsBounded'
  BY DEF IInv, TypeOK, NeverOvercounted, RowsBounded, WithinLimit
<1>. QED BY <1>1, WriterStep

LEMMA TakeSnapshotStep ==
  ASSUME IInv, Serving, NEW w \in Writer, TakeSnapshot(w)
  PROVE  IInv'
<1>. DEFINE r == FlushSnapshot(month, count, FALSE)
<1>1. month \in Month /\ count \in Nat  BY DEF IInv, TypeOK
<1>2. r \in WriterRecord /\ r.month = month /\ r.count = count
  BY <1>1, SnapshotType
<1>3. writer' = [writer EXCEPT ![w] = r] /\ granted' = granted
  BY DEF TakeSnapshot
<1>. HIDE DEF r
<1>4. Bounded(r)
  BY <1>2, RotateFacts DEF Bounded, IInv, CountBounded
<1>5. writer' \in [Writer -> WriterRecord] /\ WritersBounded'
  BY <1>2, <1>3, <1>4, SetWriter DEF IInv
<1>. QED BY <1>5, RowsStay DEF TakeSnapshot

\* Query, QueryFails and the failing save only move on.
LEMMA MoveOn ==
  ASSUME IInv, NEW w \in Writer,
         NEW p \in {"idle", "snapshot", "query", "create", "update"},
         writer' = [writer EXCEPT ![w].pc = p],
         UNCHANGED <<now, month, count, stored, phase, granted, forgotten>>
  PROVE  IInv'
<1>1. writer' \in [Writer -> WriterRecord] /\ WritersBounded'
  BY SetPc DEF IInv
<1>. QED BY <1>1, RowsStay

LEMMA SaveStep == ASSUME IInv, NEW w \in Writer, Save(w) PROVE IInv'
<1>. DEFINE p == IF writer[w].again THEN "snapshot" ELSE "idle"
<1>1. writer' = [writer EXCEPT ![w].pc = p]  BY DEF Save, Done
<1>2. p \in {"idle", "snapshot", "query", "create", "update"}  OBVIOUS
<1>. HIDE DEF p
<1>3. writer' \in [Writer -> WriterRecord] /\ WritersBounded'
  BY <1>1, <1>2, SetPc DEF IInv, Save
<1>4. writer[w] \in WriterRecord /\ Bounded(writer[w])
  BY DEF IInv, TypeOK, WriterRecord, WritersBounded
<1>5. /\ writer[w].month \in Month /\ writer[w].count \in Nat
      /\ writer[w].count <= granted[writer[w].month] /\ WithinLimit(writer[w].count)
  BY <1>4 DEF WriterRecord, Bounded
<1>6. stored \in [Month -> Nat] /\ granted' = granted
  BY DEF IInv, TypeOK, Save
<1>7. \/ stored' = stored
      \/ stored' = [stored EXCEPT ![writer[w].month] = writer[w].count]
  BY DEF Save
<1>8. stored' \in [Month -> Nat]  BY <1>5, <1>6, <1>7
<1>9. \A m \in Month : stored'[m] = stored[m]
                       \/ (m = writer[w].month /\ stored'[m] = writer[w].count)
  BY <1>6, <1>7
<1>10. NeverOvercounted' /\ RowsBounded'
  BY <1>5, <1>6, <1>9 DEF IInv, NeverOvercounted, RowsBounded, WithinLimit
<1>. QED BY <1>3, <1>8, <1>10, WriterStep DEF Save

LEMMA WriteStep ==
  ASSUME IInv, Serving, NEW w \in Writer, Write(w)
  PROVE  IInv'
<1>1. CASE TakeSnapshot(w)  BY <1>1, TakeSnapshotStep
<1>2. CASE Query(w)
  <2>1. PICK p \in {"create", "update"} : writer' = [writer EXCEPT ![w].pc = p]
    BY <1>2 DEF Query
  <2>. QED BY <1>2, <2>1, MoveOn DEF Query
<1>3. CASE QueryFails(w)
  <2>1. writer' = [writer EXCEPT ![w].pc = "create"]  BY <1>3 DEF QueryFails
  <2>. QED BY <1>3, <2>1, MoveOn DEF QueryFails
<1>4. CASE Save(w)  BY <1>4, SaveStep
<1>5. CASE SaveFails(w)
  <2>1. PICK p \in {"idle", "snapshot"} : writer' = [writer EXCEPT ![w].pc = p]
    BY <1>5 DEF SaveFails, Done
  <2>. QED BY <1>5, <2>1, MoveOn DEF SaveFails
<1>. QED BY <1>1, <1>2, <1>3, <1>4, <1>5 DEF Write

LEMMA NewMonthStep == ASSUME IInv, NewMonth PROVE IInv'
<1>1. /\ now \in Month /\ month \in Month /\ now' = now + 1 /\ now < LastMonth
      /\ UNCHANGED <<month, count, stored, writer, phase, granted, forgotten>>
  BY DEF IInv, TypeOK, NewMonth
<1>2. now' \in Month /\ (month <= now => month <= now')
  BY <1>1, BoundAssumption DEF Month
<1>3. TypeOK'  BY <1>1, <1>2 DEF IInv, TypeOK, Serving
<1>4. NothingAhead' /\ WritersBounded' /\ NeverOvercounted'
  BY <1>1, <1>2
  DEF IInv, NothingAhead, WritersBounded, Bounded, NeverOvercounted, WithinLimit
<1>5. RowsBounded' /\ GrantedWithinLimit' /\ CountBounded'
  BY <1>1 DEF IInv, RowsBounded, GrantedWithinLimit, CountBounded, WithinLimit
<1>. QED BY <1>3, <1>4, <1>5 DEF IInv

\* Stop, Release and Crash change the phase and bring nobody to life.
LEMMA PhaseStep ==
  ASSUME IInv, Serving,
         phase' \in {"up", "stopping", "flushing", "released", "crashed"},
         UNCHANGED <<now, month, count, stored, writer, granted, forgotten>>
  PROVE  IInv'
<1>1. TypeOK'  BY DEF IInv, TypeOK
<1>2. NothingAhead' /\ WritersBounded' /\ NeverOvercounted'
  BY DEF IInv, NothingAhead, WritersBounded, Bounded, NeverOvercounted, WithinLimit
<1>3. RowsBounded' /\ GrantedWithinLimit' /\ CountBounded'
  BY DEF IInv, RowsBounded, GrantedWithinLimit, CountBounded, WithinLimit
<1>. QED BY <1>1, <1>2, <1>3 DEF IInv

LEMMA StartStep == ASSUME IInv, Start PROVE IInv'
<1>1. /\ now \in Month /\ month \in Month
      /\ granted \in [Month -> Nat] /\ forgotten \in [Month -> Nat]
      /\ stored \in [Month -> Nat] /\ month <= now
  BY DEF IInv, TypeOK, NothingAhead
<1>2. /\ month' = now /\ now' = now /\ stored' = stored /\ granted' = granted
      /\ writer' = [w \in Writer |-> Idle] /\ phase' = "up"
      /\ count' \in {0, stored[now]}
      /\ forgotten' = [forgotten EXCEPT ![now] = granted[now] - count']
  BY DEF Start
<1>3. stored[now] \in Nat /\ stored[now] <= granted[now] /\ WithinLimit(stored[now])
  BY <1>1 DEF IInv, NeverOvercounted, RowsBounded
<1>4. count' \in Nat /\ count' <= granted[now] /\ WithinLimit(count')
  <2>1. granted[now] \in Nat  BY <1>1
  <2>2. CASE count' = 0  BY <2>1, <2>2, LimitAssumption DEF WithinLimit
  <2>3. CASE count' = stored[now]  BY <2>3, <1>3 DEF WithinLimit
  <2>. QED BY <1>2, <2>2, <2>3
<1>5. granted[now] - count' \in Nat  BY <1>1, <1>4
<1>6. /\ forgotten' \in [Month -> Nat]
      /\ forgotten'[now] = granted[now] - count'
      /\ \A m \in Month : m # now => forgotten'[m] = forgotten[m]
  BY <1>1, <1>2, <1>5
<1>7. 1 \in Month  BY BoundAssumption DEF Month
<1>8. Idle \in WriterRecord /\ Idle.month = 1 /\ Idle.count = 0
  BY <1>7 DEF Idle, WriterRecord
<1>9. writer' \in [Writer -> WriterRecord]  BY <1>2, <1>8
<1>10. count' + forgotten'[now] = granted[now]  BY <1>1, <1>4, <1>6
<1>11. TypeOK'
  BY <1>1, <1>2, <1>4, <1>6, <1>9, <1>10 DEF TypeOK, WriterRecord
<1>12. NothingAhead'
  BY <1>1, <1>2, <1>6 DEF IInv, NothingAhead, Month
<1>13. WritersBounded'
  BY <1>1, <1>2, <1>7, <1>8, LimitAssumption DEF WritersBounded, Bounded, WithinLimit
<1>14. GrantedWithinLimit'
  <2>. SUFFICES ASSUME Limit >= 0, NEW m \in Month
                PROVE  granted[m] <= Limit + forgotten'[m]
    BY <1>2 DEF GrantedWithinLimit
  <2>1. CASE m = now
    BY <2>1, <1>1, <1>4, <1>6, LimitAssumption DEF WithinLimit
  <2>2. CASE m # now
    BY <2>2, <1>6 DEF IInv, GrantedWithinLimit
  <2>. QED BY <2>1, <2>2
<1>15. NeverOvercounted' /\ RowsBounded' /\ CountBounded'
  BY <1>2, <1>4
  DEF IInv, NeverOvercounted, RowsBounded, CountBounded, WithinLimit
<1>. QED BY <1>11, <1>12, <1>13, <1>14, <1>15 DEF IInv

LEMMA StepInv == IInv /\ [Next]_vars => IInv'
<1>. SUFFICES ASSUME IInv, [Next]_vars PROVE IInv'  OBVIOUS
<1>. USE DEF Serving
<1>0. Hourly \in Writer /\ Main \in Writer  BY DEF Writer
<1>1. CASE TryIncrement  BY <1>1, GrantStep
<1>2. CASE Tick  BY <1>0, <1>2, FlushStep DEF Tick
<1>3. CASE \E w \in Writer : Serving /\ Write(w)  BY <1>3, WriteStep
<1>4. CASE NewMonth  BY <1>4, NewMonthStep
<1>5. CASE Stop  BY <1>5, PhaseStep DEF Stop
<1>6. CASE FlushAtShutdown  BY <1>0, <1>6, FlushStep DEF FlushAtShutdown
<1>7. CASE Release  BY <1>7, PhaseStep DEF Release
<1>8. CASE Crash  BY <1>8, PhaseStep DEF Crash
<1>9. CASE Start  BY <1>9, StartStep
<1>10. CASE UNCHANGED vars
  <2>1. writer' \in [Writer -> WriterRecord] /\ WritersBounded'
    BY <1>10 DEF vars, IInv, TypeOK, WriterRecord, WritersBounded, Bounded, WithinLimit
  <2>. QED BY <1>10, <2>1, RowsStay DEF vars
<1>. QED BY <1>1, <1>2, <1>3, <1>4, <1>5, <1>6, <1>7, <1>8, <1>9, <1>10 DEF Next

LEMMA Invariance == Spec => []IInv
<1>. QED BY InitInv, StepInv, PTL DEF Spec

\* Types, and the account of a process: in memory is what was admitted this
\* month, less what its start did not find (TryIncrement, loadFromDB).
THEOREM TypeCorrect == Spec => []TypeOK
<1>1. IInv => TypeOK  BY DEF IInv
<1>. QED BY Invariance, <1>1, PTL

\* However flushes, months and restarts interleave, a row never shows more
\* than was admitted in its month (flushSnapshot).
THEOREM NoOvercharge == Spec => []NeverOvercounted
<1>1. IInv => NeverOvercounted  BY DEF IInv
<1>. QED BY Invariance, <1>1, PTL

\* The limit of TryIncrement holds for the month, over all processes, but for
\* what a start did not find in the table.
THEOREM LimitKept == Spec => []GrantedWithinLimit
<1>1. IInv => GrantedWithinLimit  BY DEF IInv
<1>. QED BY Invariance, <1>1, PTL
=============================================================================
