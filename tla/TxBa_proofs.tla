---------------------------- MODULE TxBa_proofs ----------------------------
(***************************************************************************)
(* The types of the sessions, and the rate at which the driver polls the   *)
(* firmware, for any TIDs, interval and queue.                             *)
(***************************************************************************)
EXTENDS TxBa, TLAPS

(* No step queues a second probe of a TID before its timer has run out.    *)
LEMMA ProbeStep == IInv /\ [Next]_vars => IInv'
<1> SUFFICES ASSUME IInv, [Next]_vars PROVE IInv'
  OBVIOUS
<1> USE DEF IInv
<1>1. ASSUME NEW t \in Tids, Probe(t) PROVE IInv'
  BY <1>1 DEF Probe
<1>2. ASSUME NEW t \in Tids, Store(t) PROVE IInv'
  BY <1>2 DEF Store
<1>3. ASSUME NEW t \in Tids, Expire(t) PROVE IInv'
  BY <1>3 DEF Expire
<1>4. CASE UNCHANGED <<due, probes>>
  BY <1>4
<1>5. ASSUME NEW t \in Tids, Setup(t) \/ Load(t)
      PROVE  UNCHANGED <<due, probes>>
  BY <1>5 DEF Setup, Load
<1>6. ASSUME NEW t \in Tids, Send(t) \/ Check(t) \/ Event(t) \/ ProbeFails(t)
      PROVE  UNCHANGED <<due, probes>>
  BY <1>6 DEF Send, Check, Event, ProbeFails
<1>7. ASSUME NEW t \in Tids, Accept(t) \/ Refuse(t) \/ Delete(t) \/ Drop(t)
      PROVE  UNCHANGED <<due, probes>>
  BY <1>7 DEF Accept, Refuse, Delete, Drop
<1>8. ASSUME NEW t \in Tids, NEW legacy \in BOOLEAN, Refresh(t, legacy)
      PROVE  UNCHANGED <<due, probes>>
  BY <1>8 DEF Refresh
<1>9. ASSUME ClearLoad \/ ClearStore PROVE UNCHANGED <<due, probes>>
  BY <1>9 DEF ClearLoad, ClearStore
<1>10. CASE UNCHANGED vars
  BY <1>4, <1>10 DEF vars
<1>11. QED
  BY <1>1, <1>2, <1>3, <1>4, <1>5, <1>6, <1>7, <1>8, <1>9, <1>10
  DEF Next, Frame, Work

(* However many frames a TID sends, one interval sees one probe of it.     *)
THEOREM ProbesBounded == Spec => []OneProbePerTid
<1>1. Init => IInv
  BY DEF Init, IInv
<1>2. IInv => OneProbePerTid
  BY DEF IInv, OneProbePerTid
<1>3. QED
  BY <1>1, <1>2, ProbeStep, PTL DEF Spec

-----------------------------------------------------------------------------
(* TypeOK as it is inductive: the worker is busy with the first job of the *)
(* queue, so there is one to take off.                                     *)
Served == worker # "idle" => queue # <<>>

LEMMA TypedStep == TypeOK /\ Served /\ [Next]_vars => (TypeOK /\ Served)'
<1> SUFFICES ASSUME TypeOK, Served, [Next]_vars PROVE (TypeOK /\ Served)'
  OBVIOUS
<1> USE TxBaAssumption DEF TxBaAssumption, TypeOK, Served, transmit, jobs, firmware
<1>fault. Fault => faults' \in 0 .. MaxFaults
  BY DEF Fault
<1>add. ASSUME NEW job \in Jobs, Room, Add(job)
        PROVE  queue' \in Seq(Jobs) /\ Len(queue') <= QueueSize /\ queue' # <<>>
  BY <1>add DEF Room, Add
<1>tail. ASSUME queue # <<>>, Finish
         PROVE  queue' \in Seq(Jobs) /\ Len(queue') <= QueueSize /\ worker' = "idle"
  BY <1>tail DEF Finish
<1>job. \A t \in Tids : <<"setup", t>> \in Jobs /\ <<"probe", t>> \in Jobs /\ <<"event", t>> \in Jobs
  BY DEF Jobs
<1> HIDE DEF Jobs
<1>1. ASSUME NEW t \in Tids, Probe(t) PROVE (TypeOK /\ Served)'
  <2>1. due' \in SUBSET Tids /\ UNCHANGED <<bitmap, tx, word, worker, scratch, asked, session, faults>>
    BY <1>1 DEF Probe
  <2>2. CASE Room
    <3>1. probes' \in [Tids -> Nat] /\ Add(<<"probe", t>>)
      BY <1>1, <2>2 DEF Probe
    <3>2. queue' \in Seq(Jobs) /\ Len(queue') <= QueueSize /\ queue' # <<>>
      BY <2>2, <3>1, <1>add, <1>job
    <3> QED
      BY <2>1, <3>1, <3>2
  <2>3. CASE ~Room
    BY <1>1, <2>1, <2>3 DEF Probe
  <2> QED
    BY <2>2, <2>3
<1>2. ASSUME NEW t \in Tids, Setup(t) PROVE (TypeOK /\ Served)'
  BY <1>2, <1>add, <1>job DEF Setup
<1>3. ASSUME NEW t \in Tids, Load(t) PROVE (TypeOK /\ Served)'
  BY <1>3 DEF Load
<1>4. ASSUME NEW t \in Tids, Store(t) PROVE (TypeOK /\ Served)'
  BY <1>4 DEF Store
<1>5. ASSUME NEW t \in Tids, Expire(t) PROVE (TypeOK /\ Served)'
  BY <1>5 DEF Expire
<1>6. ASSUME NEW t \in Tids, Send(t) PROVE (TypeOK /\ Served)'
  BY <1>6, <1>fault, <1>tail DEF Send, Doing
<1>7. ASSUME NEW t \in Tids, ProbeFails(t) PROVE (TypeOK /\ Served)'
  BY <1>7, <1>fault, <1>tail DEF ProbeFails, Doing
<1>8. ASSUME NEW t \in Tids, NEW legacy \in BOOLEAN, Refresh(t, legacy) PROVE (TypeOK /\ Served)'
  BY <1>8, <1>tail DEF Refresh, Doing
<1>9. ASSUME NEW t \in Tids, Check(t) PROVE (TypeOK /\ Served)'
  BY <1>9, <1>tail DEF Check, Doing
<1>10. ASSUME NEW t \in Tids, Event(t) PROVE (TypeOK /\ Served)'
  BY <1>10 DEF Event, Doing
<1>11. CASE ClearLoad
  BY <1>11 DEF ClearLoad
<1>12. CASE ClearStore
  BY <1>12, <1>tail DEF ClearStore
<1>13. ASSUME NEW t \in Tids, Accept(t) PROVE (TypeOK /\ Served)'
  BY <1>13 DEF Accept
<1>14. ASSUME NEW t \in Tids, Refuse(t) PROVE (TypeOK /\ Served)'
  BY <1>14, <1>fault, <1>add, <1>job DEF Refuse
<1>15. ASSUME NEW t \in Tids, Delete(t) PROVE (TypeOK /\ Served)'
  BY <1>15, <1>fault, <1>add, <1>job DEF Delete
<1>16. ASSUME NEW t \in Tids, Drop(t) PROVE (TypeOK /\ Served)'
  BY <1>16, <1>fault DEF Drop
<1>17. CASE UNCHANGED vars
  BY <1>17 DEF vars
<1> QED
  BY <1>1, <1>2, <1>3, <1>4, <1>5, <1>6, <1>7, <1>8, <1>9, <1>10, <1>11, <1>12, <1>13, <1>14, <1>15, <1>16, <1>17
  DEF Next, Frame, Work

(* The driver's state, its queue within its bound, and the firmware's keep *)
(* their types in every interleaving of transmit path, worker and firmware *)
(* (TxBa, TypeOK).                                                         *)
THEOREM TypeCorrect == Spec => []TypeOK
<1>1. Init => TypeOK /\ Served
  BY TxBaAssumption DEF Init, TypeOK, Served, TxBaAssumption
<1> QED
  BY <1>1, TypedStep, PTL DEF Spec
=============================================================================
