---------------------------- MODULE ModtimerJavi ----------------------------
(***************************************************************************)
(* Pr4/modtimerJavi.c: another version of /proc/modtimer.  Its timer, work *)
(* item, list and read() take the steps of Modtimer, grouped here into the *)
(* functions of this file.  It differs in open(), which refuses nobody,    *)
(* and in /proc/modconfig, which refuses thresholds outside 1..100 (one    *)
(* that still rounds to no item at all is accepted).                       *)
(***************************************************************************)
EXTENDS Modtimer

FireTimer     == Fire \/ Recheck
CopyItems     == StartWork \/ Drain
ListInsert    == WorkerLock \/ ListAdd
ReadSteps(r)  == \/ BeginRead(r) \/ Reader(r)
                 \/ LockInterrupted(r) \/ SleepInterrupted(r)
ReleaseFile   == StopTimer \/ Flush

OpenAnyway ==
  /\ version = "Javi"
  /\ ~opened /\ closing = "no"
  /\ opened' = TRUE
  /\ timer' = "pending"
  /\ UNCHANGED <<cbuf, work, worker, aux, mylist, list_mtx, readerVars, closing,
                 configVars, settled, next, late, signals>>

ModconfigWrite ==
  version = "Javi" /\ \E percent \in Settings \cap 1..100 : SetThreshold(percent)

NextAll ==
  \/ FireTimer \/ CopyItems \/ ListInsert
  \/ Open \/ OpenAnyway \/ ReleaseFile \/ Cleanup
  \/ ConfigWrite \/ ModconfigWrite
  \/ \E r \in Readers : ReadSteps(r)

SpecAll == Init /\ [][NextAll]_vars /\ Fairness
=============================================================================
