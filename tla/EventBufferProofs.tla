-------------------------- MODULE EventBufferProofs --------------------------
(***************************************************************************)
(* For every set of events and slots, every batch size, buffer limit and   *)
(* number of attempts: the event write buffer stores an event at most      *)
(* once, loses none silently, stays within its limit, and has flushed      *)
(* everything when Shutdown returns.                                       *)
(***************************************************************************)
EXTENDS EventBuffer, FiniteSetTheorems, TLAPS

\* e is in no buffer, in no batch and not in ClickHouse.
Unseen(e) ==
  /\ e \notin buffer /\ stored[e] = 0
  /\ \A f \in Flusher : e \notin flusher[f].batch

\* An event that Add has not taken in is nowhere.
NotTakenUnseen == \A e \in Event : e \notin Held => Unseen(e)

\* An event is buffered or in one batch, and in ClickHouse only when that batch
\* has been committed.
OnePlace ==
  /\ \A e \in buffer : stored[e] = 0 /\ \A f \in Flusher : e \notin flusher[f].batch
  /\ \A f, g \in Flusher : f # g => flusher[f].batch \cap flusher[g].batch = {}
  /\ \A f \in Flusher : \A e \in flusher[f].batch :
       stored[e] = IF flusher[f].landed THEN 1 ELSE 0

\* Once Shutdown has been called no Add is under way, and what the worker takes
\* last is all there is.
Winding ==
  /\ closed <=> shutdown \in {"waiting", "cancelled"}
  /\ stopping => closed
  /\ closed => \A e \in Event : add[e] \notin {"append", "spawn"}
  /\ flusher[Worker].pc = "exited" => stopping
  /\ stopping /\ flusher[Worker].pc # "take" => buffer = {}
  /\ shutdown = "cancelled" =>
       flusher[Worker].pc = "exited" /\ \A f \in Slot : flusher[f].pc = "free"

IInv ==
  /\ TypeOK /\ NotTakenUnseen /\ OnePlace
  /\ StoredAtMostOnce /\ NoSilentLoss /\ Winding

Goroutine == [pc : {"free", "take", "write", "backoff", "exited"},
              batch : SUBSET Event, attempt : 0..Retries, landed : BOOLEAN]

-----------------------------------------------------------------------------
LEMMA InitIInv == Init => IInv
<1>1. SUFFICES ASSUME Init PROVE IInv
  OBVIOUS
<1>2. TypeOK
  <2>1. Free \in Goroutine
    BY BufferAssumption DEF Free, Resting, Goroutine
  <2>2. /\ flusher \in [Flusher -> Goroutine]
        /\ \A f \in Flusher : flusher[f].pc \in {"free", "take", "exited"} => flusher[f].batch = {}
    BY <1>1, <2>1 DEF Init, Free, Resting
  <2>3. stopping \in BOOLEAN /\ closed \in BOOLEAN /\ shutdown \in {"running", "waiting", "cancelled"}
    BY <1>1 DEF Init
  <2>4. QED BY <1>1, <2>2, <2>3 DEF Init, TypeOK, Goroutine
<1>3. NotTakenUnseen /\ OnePlace /\ StoredAtMostOnce /\ NoSilentLoss /\ Winding
  BY <1>1, BufferAssumption DEF Init, Free, Resting, NotTakenUnseen, Unseen, OnePlace,
     StoredAtMostOnce, NoSilentLoss, Held, Winding, Flusher
<1>4. QED BY <1>2, <1>3 DEF IInv

LEMMA AddCheckIInv ==
  ASSUME IInv, NEW e \in Event, AddCheck(e)
  PROVE  IInv'
<1>1. TypeOK'
  BY DEF IInv, TypeOK, AddCheck
<1>2. Held' = Held
  BY DEF IInv, TypeOK, AddCheck, Held
<1>3. NotTakenUnseen' /\ OnePlace' /\ StoredAtMostOnce' /\ NoSilentLoss'
  BY <1>2 DEF IInv, AddCheck, NotTakenUnseen, Unseen, OnePlace, StoredAtMostOnce,
     NoSilentLoss, InFlight
<1>4. Winding'
  BY DEF IInv, TypeOK, AddCheck, Winding
<1>5. QED BY <1>1, <1>3, <1>4 DEF IInv

LEMMA AddAppendIInv ==
  ASSUME IInv, NEW e \in Event, AddAppend(e)
  PROVE  IInv'
<1>1. ~closed /\ e \notin Held /\ Unseen(e)
  BY DEF IInv, AddAppend, Winding, Held, NotTakenUnseen
<1>2. CASE Cardinality(buffer) >= MaxBuffer
  <2>1. TypeOK'
    BY <1>2 DEF IInv, TypeOK, AddAppend
  <2>2. Held' = Held
    BY <1>2 DEF IInv, TypeOK, AddAppend, Held
  <2>3. NotTakenUnseen' /\ OnePlace' /\ StoredAtMostOnce' /\ NoSilentLoss'
    BY <1>2, <2>2 DEF IInv, AddAppend, NotTakenUnseen, Unseen, OnePlace, StoredAtMostOnce,
       NoSilentLoss, InFlight
  <2>4. Winding'
    BY <1>1, <1>2 DEF IInv, TypeOK, AddAppend, Winding
  <2>5. QED BY <2>1, <2>3, <2>4 DEF IInv
<1>3. CASE ~(Cardinality(buffer) >= MaxBuffer)
  <2>1. /\ buffer' = buffer \cup {e} /\ flusher' = flusher /\ stored' = stored
        /\ add'[e] \in {"spawn", "accepted"}
        /\ \A d \in Event : d # e => add'[d] = add[d]
    BY <1>3 DEF IInv, TypeOK, AddAppend
  <2>2. TypeOK'
    BY <1>3 DEF IInv, TypeOK, AddAppend
  <2>3. Held' = Held \cup {e}
    BY <2>1 DEF Held
  <2>4. NotTakenUnseen'
    BY <2>1, <2>3 DEF IInv, NotTakenUnseen, Unseen
  <2>5. OnePlace' /\ StoredAtMostOnce'
    BY <1>1, <2>1 DEF IInv, OnePlace, Unseen, StoredAtMostOnce
  <2>6. NoSilentLoss'
    BY <1>3, <2>1, <2>3 DEF IInv, NoSilentLoss, InFlight, AddAppend
  <2>7. Winding'
    BY <1>1, <1>3 DEF IInv, TypeOK, AddAppend, Winding
  <2>8. QED BY <2>2, <2>4, <2>5, <2>6, <2>7 DEF IInv
<1>4. QED BY <1>2, <1>3

\* The steps that move a goroutine without touching batches or rows.
LEMMA SameBatches ==
  ASSUME IInv,
         UNCHANGED <<buffer, stored, lost>>, Held' = Held,
         \A f \in Flusher : /\ flusher'[f].batch = flusher[f].batch
                            /\ flusher[f].batch # {} => flusher'[f].landed = flusher[f].landed
  PROVE  NotTakenUnseen' /\ OnePlace' /\ StoredAtMostOnce' /\ NoSilentLoss'
<1>1. NotTakenUnseen' /\ StoredAtMostOnce'
  BY DEF IInv, NotTakenUnseen, Unseen, StoredAtMostOnce
<1>2. OnePlace'
  BY DEF IInv, OnePlace
<1>3. NoSilentLoss'
  BY DEF IInv, NoSilentLoss, InFlight
<1>4. QED BY <1>1, <1>2, <1>3

LEMMA AddSpawnIInv ==
  ASSUME IInv, NEW e \in Event, AddSpawn(e)
  PROVE  IInv'
<1>1. ~closed /\ add[e] = "spawn" /\ add' = [add EXCEPT ![e] = "accepted"]
  BY DEF IInv, AddSpawn, Winding
<1>2. Held' = Held
  BY <1>1 DEF IInv, TypeOK, Held
<1>3. CASE UNCHANGED flusher
  <2>1. TypeOK' /\ Winding'
    BY <1>1, <1>3 DEF IInv, TypeOK, AddSpawn, Winding
  <2>2. QED BY <1>2, <1>3, <2>1, SameBatches DEF AddSpawn, IInv
<1>4. ASSUME NEW s \in Slot, flusher[s].pc = "free", flusher' = [flusher EXCEPT ![s].pc = "take"]
      PROVE  IInv'
  <2>1. s \in Flusher /\ s # Worker /\ Worker \in Flusher
    BY BufferAssumption DEF Flusher
  <2>2. TypeOK'
    BY <1>1, <1>4, <2>1 DEF IInv, TypeOK, AddSpawn
  <2>3. \A f \in Flusher : /\ flusher'[f].batch = flusher[f].batch
                           /\ flusher'[f].landed = flusher[f].landed
    BY <1>4, <2>1 DEF IInv, TypeOK
  <2>4. Winding'
    BY <1>1, <1>4, <2>1 DEF IInv, TypeOK, AddSpawn, Winding
  <2>5. QED BY <1>2, <2>2, <2>3, <2>4, SameBatches DEF AddSpawn, IInv
<1>5. QED BY <1>3, <1>4 DEF AddSpawn

-----------------------------------------------------------------------------
(* The flushing goroutines.                                                 *)

\* What flushAndWrite leaves behind when it returns.
LEMMA FinishEffect ==
  ASSUME IInv, NEW f \in Flusher, Finish(f)
  PROVE  /\ flusher' \in [Flusher -> Goroutine]
         /\ flusher'[f].batch = {}
         /\ flusher'[f].pc = IF f = Worker /\ stopping THEN "exited" ELSE "free"
         /\ \A g \in Flusher : g # f => flusher'[g] = flusher[g]
<1>1. DEFINE left == IF f = Worker /\ stopping THEN Resting("exited") ELSE Free
<1>2. left \in Goroutine /\ left.batch = {}
      /\ left.pc = IF f = Worker /\ stopping THEN "exited" ELSE "free"
  <2>1. 0 \in 0..Retries
    BY BufferAssumption
  <2>2. Free \in Goroutine /\ Free.batch = {} /\ Free.pc = "free"
    BY <2>1 DEF Free, Resting, Goroutine
  <2>3. Resting("exited") \in Goroutine
    BY <2>1 DEF Resting, Goroutine
  <2>4. Resting("exited").batch = {} /\ Resting("exited").pc = "exited"
    BY DEF Resting
  <2>5. CASE f = Worker /\ stopping
    BY <2>3, <2>4, <2>5
  <2>6. CASE ~(f = Worker /\ stopping)
    BY <2>2, <2>6
  <2>7. QED BY <2>5, <2>6
<1>3. flusher \in [Flusher -> Goroutine]
  BY DEF IInv, TypeOK, Goroutine
<1>4. flusher' = [flusher EXCEPT ![f] = left]
  BY DEF Finish
<1>5. QED BY ONLY <1>2, <1>3, <1>4, f \in Flusher

LEMMA TakeIInv ==
  ASSUME IInv, NEW f \in Flusher, Take(f)
  PROVE  IInv'
<1>1. flusher[f].pc = "take" /\ flusher[f].batch = {} /\ Worker \in Flusher
  BY DEF IInv, TypeOK, Take, Flusher
<1>2. Held' = Held
  BY DEF Take, Held
<1>3. CASE buffer = {}
  <2>1. Finish(f) /\ buffer' = buffer
    BY <1>3 DEF Take
  <2>2. TypeOK'
    BY <1>3, <2>1, FinishEffect DEF IInv, TypeOK, Take, Goroutine
  <2>3. \A g \in Flusher : /\ flusher'[g].batch = flusher[g].batch
                           /\ flusher[g].batch # {} => flusher'[g].landed = flusher[g].landed
    BY <1>1, <2>1, FinishEffect
  <2>4. Winding'
    BY <1>1, <1>3, <2>1, FinishEffect DEF IInv, TypeOK, Winding, Take, Flusher
  <2>5. QED BY <1>2, <2>1, <2>2, <2>3, <2>4, SameBatches DEF Take, IInv
<1>4. CASE buffer # {}
  <2>1. /\ flusher'[f] = [pc |-> "write", batch |-> buffer, attempt |-> 1, landed |-> FALSE]
        /\ \A g \in Flusher : g # f => flusher'[g] = flusher[g]
        /\ buffer' = {} /\ stored' = stored /\ lost' = lost
    BY <1>4 DEF IInv, TypeOK, Take
  <2>2. TypeOK'
    <3>1. flusher'[f] \in Goroutine
      BY <2>1, BufferAssumption DEF IInv, TypeOK, Goroutine
    <3>2. flusher' \in [Flusher -> Goroutine]
      <4>1. flusher \in [Flusher -> Goroutine]
        BY DEF IInv, TypeOK, Goroutine
      <4>2. flusher' = [flusher EXCEPT ![f] =
              [pc |-> "write", batch |-> buffer, attempt |-> 1, landed |-> FALSE]]
        BY <1>4 DEF Take
      <4>3. QED BY <2>1, <3>1, <4>1, <4>2
    <3>3. QED BY <2>1, <3>2 DEF IInv, TypeOK, Take, Goroutine
  <2>3. NotTakenUnseen' /\ StoredAtMostOnce'
    BY <1>2, <2>1 DEF IInv, NotTakenUnseen, Unseen, StoredAtMostOnce
  <2>4. OnePlace'
    BY <2>1 DEF IInv, OnePlace
  <2>5. NoSilentLoss'
    <3>1. InFlight \subseteq InFlight' /\ buffer \subseteq InFlight'
      BY <1>1, <2>1 DEF InFlight
    <3>2. QED BY <1>2, <2>1, <3>1 DEF IInv, NoSilentLoss
  <2>6. Winding'
    BY <1>1, <2>1 DEF IInv, TypeOK, Winding, Take, Flusher
  <2>7. QED BY <2>2, <2>3, <2>4, <2>5, <2>6 DEF IInv
<1>5. QED BY <1>3, <1>4

\* The rows after a commit: those of the batch are stored once.
LEMMA CommitEffect ==
  ASSUME IInv, NEW f \in Flusher, Commit(f)
  PROVE  /\ stored' \in [Event -> Nat]
         /\ \A e \in flusher[f].batch : stored'[e] = 1
         /\ \A e \in Event : e \notin flusher[f].batch => stored'[e] = stored[e]
BY DEF IInv, TypeOK, OnePlace, Commit

LEMMA InsertOkIInv ==
  ASSUME IInv, NEW f \in Flusher, InsertOk(f)
  PROVE  IInv'
<1>1. /\ Commit(f) /\ Finish(f) /\ flusher[f].pc = "write" /\ Worker \in Flusher
      /\ UNCHANGED <<add, buffer, stopping, closed, shutdown, lost>>
  BY DEF InsertOk, Flusher
<1>2. Held' = Held
  BY <1>1 DEF Held
<1>3. TypeOK'
  BY <1>1, FinishEffect, CommitEffect DEF IInv, TypeOK, Goroutine
<1>4. NotTakenUnseen'
  <2> SUFFICES ASSUME NEW e \in Event, e \notin Held PROVE Unseen(e)'
    BY <1>2 DEF NotTakenUnseen
  <2>1. Unseen(e)
    BY DEF IInv, NotTakenUnseen
  <2>2. \A g \in Flusher : e \notin flusher'[g].batch
    BY <1>1, <2>1, FinishEffect DEF Unseen
  <2>3. stored'[e] = 0
    BY <1>1, <2>1, CommitEffect DEF Unseen
  <2> QED
    BY <1>1, <2>1, <2>2, <2>3 DEF Unseen
<1>9. StoredAtMostOnce'
  <2> SUFFICES ASSUME NEW e \in Event PROVE stored'[e] <= 1
    BY DEF StoredAtMostOnce
  <2>1. stored[e] <= 1
    BY DEF IInv, StoredAtMostOnce
  <2> QED
    BY <1>1, <2>1, CommitEffect
<1>5. OnePlace'
  <2>1. ASSUME NEW e \in buffer
        PROVE  stored'[e] = 0 /\ \A g \in Flusher : e \notin flusher'[g].batch
    <3>1. e \in Event /\ stored[e] = 0 /\ \A g \in Flusher : e \notin flusher[g].batch
      BY <2>1 DEF IInv, TypeOK, OnePlace
    <3>2. \A g \in Flusher : e \notin flusher'[g].batch
      BY <1>1, <3>1, FinishEffect
    <3>3. QED BY <1>1, <3>1, <3>2, CommitEffect
  <2>2. ASSUME NEW g \in Flusher, NEW h \in Flusher, g # h
        PROVE  flusher'[g].batch \cap flusher'[h].batch = {}
    <3>1. flusher[g].batch \cap flusher[h].batch = {}
      BY <2>2 DEF IInv, OnePlace
    <3>2. \A x \in Flusher : flusher'[x].batch \in {{}, flusher[x].batch}
      BY <1>1, FinishEffect
    <3>3. QED BY <3>1, <3>2
  <2>3. ASSUME NEW g \in Flusher, NEW e \in flusher'[g].batch
        PROVE  stored'[e] = IF flusher'[g].landed THEN 1 ELSE 0
    <3>1. g # f /\ flusher'[g] = flusher[g]
      BY <1>1, <2>3, FinishEffect
    <3>2. e \in Event /\ e \notin flusher[f].batch
      BY <2>3, <3>1 DEF IInv, TypeOK, OnePlace, Goroutine
    <3>3. stored[e] = IF flusher[g].landed THEN 1 ELSE 0
      BY <2>3, <3>1 DEF IInv, OnePlace
    <3>4. QED BY <1>1, <3>1, <3>2, <3>3, CommitEffect
  <2>4. QED BY <1>1, <2>1, <2>2, <2>3 DEF OnePlace
<1>6. NoSilentLoss'
  <2>1. \A e \in InFlight : e \in flusher[f].batch \/ e \in InFlight'
    BY <1>1, FinishEffect DEF InFlight
  <2>2. \A e \in Event : stored[e] > 0 => stored'[e] > 0
    BY <1>1, CommitEffect DEF IInv, TypeOK
  <2>3. QED BY <1>1, <1>2, <2>1, <2>2, CommitEffect DEF IInv, TypeOK, NoSilentLoss, Held
<1>7. Winding'
  BY <1>1, FinishEffect DEF IInv, TypeOK, Winding, Flusher
<1>8. QED BY <1>3, <1>4, <1>9, <1>5, <1>6, <1>7 DEF IInv

LEMMA InsertErrorIInv ==
  ASSUME IInv, NEW f \in Flusher, InsertError(f)
  PROVE  IInv'
<1>1. flusher[f].pc = "write" /\ UNCHANGED <<add, buffer, stopping, closed, shutdown, lost>>
  BY DEF InsertError
<1>2. Held' = Held
  BY <1>1 DEF Held
<1>3. CASE Commit(f) /\ flusher' = [flusher EXCEPT ![f].pc = "backoff", ![f].landed = TRUE]
  <2>1. /\ \A g \in Flusher : flusher'[g].batch = flusher[g].batch
        /\ \A g \in Flusher : g # f => flusher'[g] = flusher[g]
        /\ flusher'[f].landed = TRUE /\ flusher'[f].pc = "backoff"
    BY <1>3 DEF IInv, TypeOK
  <2>2. TypeOK'
    <3>1. flusher'[f] = [flusher[f] EXCEPT !.pc = "backoff", !.landed = TRUE]
      BY <1>3 DEF IInv, TypeOK
    <3>2. flusher'[f] \in Goroutine
      <4>1. flusher[f] \in Goroutine
        BY DEF IInv, TypeOK, Goroutine
      <4>2. QED BY <3>1, <4>1 DEF Goroutine
    <3>3. flusher' \in [Flusher -> Goroutine]
      BY <1>3, <2>1, <3>2 DEF IInv, TypeOK, Goroutine
    <3>4. QED BY <1>1, <1>3, <2>1, <3>3, CommitEffect DEF IInv, TypeOK, Goroutine
  <2>3. NotTakenUnseen' /\ StoredAtMostOnce'
    BY <1>1, <1>2, <1>3, <2>1, CommitEffect
    DEF IInv, TypeOK, NotTakenUnseen, Unseen, StoredAtMostOnce
  <2>4. OnePlace'
    BY <1>1, <1>3, <2>1, CommitEffect DEF IInv, TypeOK, OnePlace
  <2>5. NoSilentLoss'
    <3>1. InFlight' = InFlight
      BY <2>1 DEF InFlight
    <3>2. \A e \in Event : stored[e] > 0 => stored'[e] > 0
      BY <1>3, CommitEffect DEF IInv, TypeOK
    <3>3. QED BY <1>1, <1>2, <3>1, <3>2 DEF IInv, TypeOK, NoSilentLoss, Held
  <2>6. Winding'
    BY <1>1, <2>1 DEF IInv, TypeOK, Winding, Flusher
  <2>7. QED BY <2>2, <2>3, <2>4, <2>5, <2>6 DEF IInv
<1>4. CASE flusher' = [flusher EXCEPT ![f].pc = "backoff"] /\ UNCHANGED stored
  <2>1. \A g \in Flusher : /\ flusher'[g].batch = flusher[g].batch
                           /\ flusher'[g].landed = flusher[g].landed
    BY <1>4 DEF IInv, TypeOK
  <2>2. TypeOK'
    BY <1>1, <1>4 DEF IInv, TypeOK
  <2>3. Winding'
    BY <1>1, <1>4 DEF IInv, TypeOK, Winding, Flusher
  <2>4. QED BY <1>1, <1>2, <1>4, <2>1, <2>2, <2>3, SameBatches DEF IInv
<1>5. QED BY <1>3, <1>4 DEF InsertError

LEMMA RetryIInv ==
  ASSUME IInv, NEW f \in Flusher, Retry(f)
  PROVE  IInv'
<1>1. /\ flusher[f].pc = "backoff" /\ Worker \in Flusher
      /\ UNCHANGED <<add, buffer, stopping, closed, shutdown, stored>>
  BY DEF Retry, Flusher
<1>2. Held' = Held
  BY <1>1 DEF Held
<1>3. CASE flusher[f].attempt < Retries
  <2>1. flusher' = [flusher EXCEPT ![f].pc = "write", ![f].attempt = @ + 1] /\ lost' = lost
    BY <1>3 DEF Retry
  <2>2. TypeOK'
    BY <1>1, <1>3, <2>1, BufferAssumption DEF IInv, TypeOK
  <2>3. \A g \in Flusher : /\ flusher'[g].batch = flusher[g].batch
                           /\ flusher'[g].landed = flusher[g].landed
    BY <2>1 DEF IInv, TypeOK
  <2>4. Winding'
    BY <1>1, <2>1 DEF IInv, TypeOK, Winding, Flusher
  <2>5. QED BY <1>1, <1>2, <2>1, <2>2, <2>3, <2>4, SameBatches DEF IInv
<1>4. CASE ~(flusher[f].attempt < Retries)
  <2>1. lost' = lost \cup flusher[f].batch /\ Finish(f)
    BY <1>4 DEF Retry
  <2>2. TypeOK'
    BY <1>1, <2>1, FinishEffect DEF IInv, TypeOK, Goroutine
  <2>3. NotTakenUnseen' /\ StoredAtMostOnce' /\ OnePlace'
    <3>1. \A g \in Flusher : flusher'[g].batch = {} \/ flusher'[g] = flusher[g]
      BY <2>1, FinishEffect
    <3>2. NotTakenUnseen' /\ StoredAtMostOnce'
      BY <1>1, <1>2, <3>1 DEF IInv, NotTakenUnseen, Unseen, StoredAtMostOnce
    <3>3. OnePlace'
      BY <1>1, <3>1 DEF IInv, OnePlace
    <3>4. QED BY <3>2, <3>3
  <2>4. NoSilentLoss'
    <3>1. \A e \in InFlight : e \in flusher[f].batch \/ e \in InFlight'
      BY <2>1, FinishEffect DEF InFlight
    <3>2. QED BY <1>1, <1>2, <2>1, <3>1 DEF IInv, NoSilentLoss
  <2>5. Winding'
    BY <1>1, <2>1, FinishEffect DEF IInv, TypeOK, Winding, Flusher
  <2>6. QED BY <2>2, <2>3, <2>4, <2>5 DEF IInv
<1>5. QED BY <1>3, <1>4

-----------------------------------------------------------------------------
(* The worker and Shutdown.                                                 *)

LEMMA WorkerWakesIInv ==
  ASSUME IInv, Tick \/ LastFlush
  PROVE  IInv'
<1>1. /\ flusher[Worker].pc = "free" /\ Worker \in Flusher
      /\ flusher' = [flusher EXCEPT ![Worker].pc = "take"]
      /\ UNCHANGED <<add, buffer, closed, shutdown, stored, lost>>
      /\ stopping' = stopping \/ (closed /\ stopping' = TRUE)
  BY DEF Tick, LastFlush, Flusher
<1>2. Held' = Held
  BY <1>1 DEF Held
<1>3. TypeOK'
  BY <1>1 DEF IInv, TypeOK
<1>4. \A g \in Flusher : /\ flusher'[g].batch = flusher[g].batch
                         /\ flusher'[g].landed = flusher[g].landed
  BY <1>1 DEF IInv, TypeOK
<1>5. Winding'
  BY <1>1, BufferAssumption DEF IInv, TypeOK, Winding, Flusher
<1>6. QED BY <1>1, <1>2, <1>3, <1>4, <1>5, SameBatches DEF IInv

LEMMA ShutdownIInv ==
  ASSUME IInv, Shutdown \/ ShutdownReturn
  PROVE  IInv'
<1>1. UNCHANGED <<add, buffer, flusher, stopping, stored, lost>>
  BY DEF Shutdown, ShutdownReturn
<1>2. Held' = Held
  BY <1>1 DEF Held
<1>3. TypeOK'
  BY <1>1 DEF IInv, TypeOK, Shutdown, ShutdownReturn
<1>4. Winding'
  BY <1>1 DEF IInv, TypeOK, Winding, Shutdown, ShutdownReturn
<1>5. QED BY <1>1, <1>2, <1>3, <1>4, SameBatches DEF IInv

LEMMA StepIInv == IInv /\ [Next]_vars => IInv'
<1>1. SUFFICES ASSUME IInv, [Next]_vars PROVE IInv'
  OBVIOUS
<1>2. ASSUME NEW e \in Event, Add(e) PROVE IInv'
  BY <1>1, <1>2, AddCheckIInv, AddAppendIInv, AddSpawnIInv DEF Add
<1>3. ASSUME NEW f \in Flusher, Flush(f) PROVE IInv'
  BY <1>1, <1>3, TakeIInv, InsertOkIInv, InsertErrorIInv, RetryIInv DEF Flush
<1>4. CASE Tick \/ LastFlush
  BY <1>1, <1>4, WorkerWakesIInv
<1>5. CASE Shutdown \/ ShutdownReturn
  BY <1>1, <1>5, ShutdownIInv
<1>6. CASE UNCHANGED vars
  <2>1. TypeOK' /\ Winding' /\ Held' = Held
    BY <1>1, <1>6 DEF vars, IInv, TypeOK, Winding, Held
  <2>2. QED BY <1>1, <1>6, <2>1, SameBatches DEF vars, IInv
<1>7. QED BY <1>1, <1>2, <1>3, <1>4, <1>5, <1>6 DEF Next, Terminated

\* The inductive invariant holds in every reachable state.
LEMMA Invariance == Spec => []IInv
<1>1. Init => IInv
  BY InitIInv
<1>2. IInv /\ [Next]_vars => IInv'
  BY StepIInv
<1>3. QED BY <1>1, <1>2, PTL DEF Spec

\* The event write buffer keeps its types.
THEOREM TypeCorrect == Spec => []TypeOK
<1>1. IInv => TypeOK
  BY DEF IInv
<1>2. QED BY <1>1, Invariance, PTL

\* No event is stored twice, whatever batches run concurrently and however many
\* attempts were committed and reported as failed.
THEOREM AtMostOnce == Spec => []StoredAtMostOnce
<1>1. IInv => StoredAtMostOnce
  BY DEF IInv
<1>2. QED BY <1>1, Invariance, PTL

\* Between Add and ClickHouse no event is out of sight, unless its batch was
\* given up after the last attempt.
THEOREM NothingLostSilently == Spec => []NoSilentLoss
<1>1. IInv => NoSilentLoss
  BY DEF IInv
<1>2. QED BY <1>1, Invariance, PTL

\* When Shutdown has returned, every event taken in is stored or was given up.
THEOREM ShutdownComplete == Spec => []ShutdownFlushesAll
<1>1. ASSUME IInv, shutdown = "cancelled", NEW e \in Held
      PROVE  stored[e] > 0 \/ e \in lost
  <2>1. flusher[Worker].pc = "exited" /\ \A f \in Slot : flusher[f].pc = "free"
    BY <1>1 DEF IInv, Winding
  <2>2. InFlight = {}
    BY <1>1, <2>1 DEF IInv, TypeOK, InFlight, Flusher
  <2>3. buffer = {}
    BY <1>1, <2>1 DEF IInv, Winding
  <2>4. QED BY <1>1, <2>2, <2>3 DEF IInv, NoSilentLoss
<1>2. IInv => ShutdownFlushesAll
  BY <1>1 DEF ShutdownFlushesAll
<1>3. QED BY <1>2, Invariance, PTL

-----------------------------------------------------------------------------
(* The limit of the buffer, an invariant of its own: the buffer is finite   *)
(* and grows by one event at a time.                                        *)

Limit == IsFiniteSet(buffer) /\ BufferBounded

LEMMA StepLimit == Limit /\ [Next]_vars => Limit'
<1>1. SUFFICES ASSUME Limit, [Next]_vars PROVE Limit'
  OBVIOUS
<1>2. IsFiniteSet(buffer) /\ Cardinality(buffer) \in Nat /\ Cardinality(buffer) <= MaxBuffer
  BY <1>1, FS_CardinalityType DEF Limit, BufferBounded
<1>3. CASE buffer' = buffer
  BY <1>1, <1>3 DEF Limit, BufferBounded
<1>4. ASSUME NEW e \in Event, AddAppend(e), buffer' # buffer PROVE Limit'
  <2>1. Cardinality(buffer) < MaxBuffer /\ buffer' = buffer \cup {e}
    BY <1>2, <1>4, BufferAssumption DEF AddAppend
  <2>2. IsFiniteSet(buffer') /\ Cardinality(buffer') <= Cardinality(buffer) + 1
    BY <1>2, <2>1, FS_AddElement
  <2>3. Cardinality(buffer') \in Nat
    BY <2>2, FS_CardinalityType
  <2>4. QED BY <1>2, <2>1, <2>2, <2>3, BufferAssumption DEF Limit, BufferBounded
<1>5. CASE buffer' = {}
  BY <1>5, FS_EmptySet, BufferAssumption DEF Limit, BufferBounded
<1>6. ASSUME NEW e \in Event, Add(e) PROVE Limit'
  BY <1>3, <1>4, <1>6 DEF Add, AddCheck, AddSpawn
<1>7. ASSUME NEW f \in Flusher, Flush(f) PROVE Limit'
  BY <1>3, <1>5, <1>7 DEF Flush, Take, InsertOk, InsertError, Retry
<1>8. QED
  BY <1>1, <1>3, <1>6, <1>7 DEF Next, Tick, LastFlush, Shutdown, ShutdownReturn, Terminated, vars

\* However long ClickHouse is away, the buffer never exceeds maxBufferSize.
THEOREM BufferWithinLimit == Spec => []BufferBounded
<1>1. Init => Limit
  BY FS_EmptySet, BufferAssumption DEF Init, Limit, BufferBounded
<1>2. Limit /\ [Next]_vars => Limit'
  BY StepLimit
<1>3. Limit => BufferBounded
  BY DEF Limit
<1>4. QED BY <1>1, <1>2, <1>3, PTL DEF Spec
=============================================================================
