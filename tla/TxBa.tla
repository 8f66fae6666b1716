-------------------------------- MODULE TxBa --------------------------------
(***************************************************************************)
(* The transmit block-ack sessions of one peer, as the Seekwave driver     *)
(* keeps them after patch 0002.  A bit per TID says that a session has     *)
(* been asked for; the transmit path sets it without a lock, the driver's  *)
(* worker clears it on a failure, a DEL_TX_BA and, since the patch, when a *)
(* probe finds the peer's uplink rate fallen back while its downlink is    *)
(* not.  The firmware can drop a session without saying so.                *)
(*                                                                         *)
(* Every TID has its transmit queue, so the frames of one TID are sent one *)
(* at a time and those of different TIDs at once.  The worker takes its    *)
(* jobs in order.                                                          *)
(***************************************************************************)
EXTENDS Naturals, Sequences

CONSTANTS
  Tids,
  HasHE,     \* the peer sends to us at HE rates
  StaleSec,  \* module parameter txba_stale_sec; 0 disables the check
  QueueSize, \* bound on the jobs the worker's queue takes
  MaxFaults  \* bound on silent drops, failed sends and refusals

ASSUME TxBaAssumption ==
  /\ HasHE \in BOOLEAN
  /\ StaleSec \in Nat /\ QueueSize \in Nat \ {0} /\ MaxFaults \in Nat

VARIABLES
  bitmap,   \* peer->txba.bitmap
  due,      \* the TIDs whose txba.stale lies in the past
  tx,       \* per TID, how far skw_setup_txba has come
  word,     \* per TID, the bitmap a |= under way has loaded
  queue,    \* the worker's jobs
  worker,   \* how far the worker has come with the first of them
  scratch,  \* the bitmap its SKW_CLEAR has loaded
  asked,    \* ADD_TX_BA commands the firmware has not answered
  session,  \* the sessions the firmware has
  probes,   \* per TID, probes queued since its timer last ran out
  faults

transmit == <<tx, word>>
jobs     == <<queue, worker, scratch>>
firmware == <<asked, session>>
vars     == <<bitmap, due, transmit, jobs, firmware, probes, faults>>

\* "event": an ADD_TX_BA refused or a DEL_TX_BA
Jobs == {"setup", "probe", "event"} \X Tids

Fault    == faults < MaxFaults /\ faults' = faults + 1
Room     == Len(queue) < QueueSize
Add(job) == queue' = Append(queue, job)
Doing(k, t) == queue # <<>> /\ Head(queue) = <<k, t>>

Init ==
  /\ bitmap = {} /\ due = Tids
  /\ tx = [t \in Tids |-> "idle"] /\ word = [t \in Tids |-> {}]
  /\ queue = <<>> /\ worker = "idle" /\ scratch = {}
  /\ asked = {} /\ session = {}
  /\ probes = [t \in Tids |-> 0] /\ faults = 0

-----------------------------------------------------------------------------
(* skw_setup_txba, for every frame                                         *)

\* a variant that leaves the timer in the past
ProbeUnrenewed(t) ==
  /\ tx[t] = "idle" /\ t \in bitmap
  /\ StaleSec > 0 /\ t \in due
  /\ IF Room THEN Add(<<"probe", t>>) /\ probes' = [probes EXCEPT ![t] = @ + 1]
             ELSE UNCHANGED <<queue, probes>>
  /\ UNCHANGED <<bitmap, due, transmit, worker, scratch, firmware, faults>>

\* the session has been claimed for too long: have it looked at
Probe(t) ==
  /\ tx[t] = "idle" /\ t \in bitmap
  /\ StaleSec > 0 /\ t \in due
  /\ due' = due \ {t}
  /\ IF Room THEN Add(<<"probe", t>>) /\ probes' = [probes EXCEPT ![t] = @ + 1]
             ELSE UNCHANGED <<queue, probes>>
  /\ UNCHANGED <<bitmap, transmit, worker, scratch, firmware, faults>>

\* no session: ask for one, and on success claim it; a blacklisted TID does so
\* with the first frame behind its timeout
Setup(t) ==
  /\ tx[t] = "idle" /\ t \notin bitmap
  /\ Room /\ Add(<<"setup", t>>)
  /\ tx' = [tx EXCEPT ![t] = "load"]
  /\ UNCHANGED <<bitmap, due, word, worker, scratch, firmware, probes, faults>>

\* bitmap |= BIT(tid), a load and a store
Load(t) ==
  /\ tx[t] = "load"
  /\ word' = [word EXCEPT ![t] = bitmap]
  /\ tx' = [tx EXCEPT ![t] = "store"]
  /\ UNCHANGED <<bitmap, due, jobs, firmware, probes, faults>>

\* and arms the timer; a zero interval arms it with the present
Store(t) ==
  /\ tx[t] = "store"
  /\ bitmap' = word[t] \cup {t}
  /\ word' = [word EXCEPT ![t] = {}]
  /\ due' = IF StaleSec > 0 THEN due \ {t} ELSE due
  /\ tx' = [tx EXCEPT ![t] = "idle"]
  /\ UNCHANGED <<jobs, firmware, probes, faults>>

\* txba_stale_sec goes by
Expire(t) ==
  /\ t \notin due
  /\ due' = due \cup {t}
  /\ probes' = [probes EXCEPT ![t] = 0]
  /\ UNCHANGED <<bitmap, transmit, jobs, firmware, faults>>

-----------------------------------------------------------------------------
(* skw_work                                                                *)

Finish == worker' = "idle" /\ queue' = Tail(queue)

\* a variant that queues a setup again before it takes the failed one off
SendAgain(t) ==
  /\ worker = "idle" /\ Doing("setup", t)
  /\ \/ asked' = asked \cup {t} /\ Finish /\ UNCHANGED faults
     \/ Fault /\ Add(<<"setup", t>>) /\ UNCHANGED <<worker, asked>>
  /\ UNCHANGED <<bitmap, due, transmit, scratch, session, probes>>

\* SKW_WORK_SETUP_TXBA: the command reaches the firmware, or sending it fails
Send(t) ==
  /\ worker = "idle" /\ Doing("setup", t)
  /\ \/ asked' = asked \cup {t} /\ Finish /\ UNCHANGED faults
     \/ Fault /\ worker' = "clear" /\ UNCHANGED <<queue, asked>>
  /\ UNCHANGED <<bitmap, due, transmit, scratch, session, probes>>

\* SKW_WORK_TXBA_PROBE: the peer is gone, or GET_STA fails
ProbeFails(t) ==
  /\ worker = "idle" /\ Doing("probe", t)
  /\ Fault /\ Finish
  /\ UNCHANGED <<bitmap, due, transmit, scratch, firmware, probes>>

\* GET_STA shows the uplink at a legacy rate, as it is without a session, or
\* with all of them; the frames of another TID can show the contrary
Refresh(t, legacy) ==
  /\ worker = "idle" /\ Doing("probe", t)
  /\ \E s \in Tids : legacy <=> (s \notin session \/ ~HasHE)
  /\ IF legacy /\ HasHE THEN worker' = "check" /\ UNCHANGED queue ELSE Finish
  /\ UNCHANGED <<bitmap, due, transmit, scratch, firmware, probes, faults>>

\* a variant that only warns
CheckOnly(t) ==
  /\ worker = "check" /\ Doing("probe", t)
  /\ Finish
  /\ UNCHANGED <<bitmap, due, transmit, scratch, firmware, probes, faults>>

\* under the lock of the peer, which the transmit path does not take
Check(t) ==
  /\ worker = "check" /\ Doing("probe", t)
  /\ IF t \in bitmap THEN worker' = "clear" /\ UNCHANGED queue ELSE Finish
  /\ UNCHANGED <<bitmap, due, transmit, scratch, firmware, probes, faults>>

\* the firmware's event of a refusal or a teardown
Event(t) ==
  /\ worker = "idle" /\ Doing("event", t)
  /\ worker' = "clear"
  /\ UNCHANGED <<bitmap, due, transmit, queue, scratch, firmware, probes, faults>>

\* SKW_CLEAR(bitmap, BIT(tid)), a load and a store
ClearLoad ==
  /\ worker = "clear"
  /\ scratch' = bitmap
  /\ worker' = "store"
  /\ UNCHANGED <<bitmap, due, transmit, queue, firmware, probes, faults>>

ClearStore ==
  /\ worker = "store"
  /\ bitmap' = scratch \ {Head(queue)[2]}
  /\ scratch' = {}
  /\ Finish
  /\ UNCHANGED <<due, transmit, firmware, probes, faults>>

-----------------------------------------------------------------------------
(* The firmware                                                            *)

Accept(t) ==
  /\ t \in asked
  /\ asked' = asked \ {t} /\ session' = session \cup {t}
  /\ UNCHANGED <<bitmap, due, transmit, jobs, probes, faults>>

Refuse(t) ==
  /\ t \in asked /\ Fault
  /\ asked' = asked \ {t}
  /\ Room /\ Add(<<"event", t>>)
  /\ UNCHANGED <<bitmap, due, transmit, worker, scratch, session, probes>>

\* a teardown it reports
Delete(t) ==
  /\ t \in session /\ Fault
  /\ session' = session \ {t}
  /\ Room /\ Add(<<"event", t>>)
  /\ UNCHANGED <<bitmap, due, transmit, worker, scratch, asked, probes>>

\* and one it does not
Drop(t) ==
  /\ t \in session /\ Fault
  /\ session' = session \ {t}
  /\ UNCHANGED <<bitmap, due, transmit, jobs, asked, probes>>

Frame(t) == Probe(t) \/ Setup(t) \/ Load(t) \/ Store(t)

Work ==
  \/ \E t \in Tids : Send(t) \/ Check(t) \/ Event(t)
  \/ \E t \in Tids, legacy \in BOOLEAN : Refresh(t, legacy)
  \/ ClearLoad \/ ClearStore

Next ==
  \/ Work
  \/ \E t \in Tids :
       \/ Frame(t) \/ Expire(t) \/ ProbeFails(t)
       \/ Accept(t) \/ Refuse(t) \/ Delete(t) \/ Drop(t)

Spec == Init /\ [][Next]_vars

\* every TID goes on sending and time goes by, neither only while the queue is
\* full; the worker and the firmware go on; and a TID without a session is seen
\* at a legacy rate if looked at for ever
FairSpec ==
  /\ Spec
  /\ WF_vars(Work)
  /\ \A t \in Tids :
       /\ SF_vars(Room /\ Frame(t)) /\ SF_vars(Room /\ Expire(t))
       /\ WF_vars(Accept(t)) /\ SF_vars(Refresh(t, TRUE))

-----------------------------------------------------------------------------
TypeOK ==
  /\ bitmap \in SUBSET Tids /\ due \in SUBSET Tids
  /\ tx \in [Tids -> {"idle", "load", "store"}]
  /\ word \in [Tids -> SUBSET Tids]
  /\ queue \in Seq(Jobs) /\ Len(queue) <= QueueSize
  /\ worker \in {"idle", "check", "clear", "store"}
  /\ scratch \in SUBSET Tids
  /\ asked \in SUBSET Tids /\ session \in SUBSET Tids
  /\ probes \in [Tids -> Nat]
  /\ faults \in 0 .. MaxFaults

\* a TID's frames, however many, queue one probe per interval: no flood of
\* GET_STA commands
OneProbePerTid == \A t \in Tids : probes[t] <= 1

\* a |= brings back another TID's bit that the worker cleared meanwhile
Restores(t) == Store(t) /\ ~(word[t] \subseteq bitmap)

\* a TID that goes on sending gets back to having a session for good: whichever
\* failure, event or answer came in before the bit it was to clear was set, and
\* though the firmware drops a session without a word; unless other TIDs win
\* the race for the bitmap for ever
Renegotiated ==
  <>[][\A t \in Tids : ~Restores(t)]_vars => \A t \in Tids : <>[](t \in session)

-----------------------------------------------------------------------------
(* The inductive invariant behind OneProbePerTid: a probe in this interval *)
(* has put the timer into the future.                                      *)
IInv ==
  /\ due \in SUBSET Tids
  /\ probes \in [Tids -> Nat]
  /\ \A t \in Tids : probes[t] <= 1 /\ (probes[t] = 1 => t \notin due)
=============================================================================
