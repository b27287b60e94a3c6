--------------------------- MODULE CriticalSection ---------------------------
(***************************************************************************)
(* A critical section of the server (src/thread/critical_section.c): one   *)
(* re-entrant writer or many readers, where a writer may demote itself to  *)
(* a reader and promote itself back without letting another writer in.     *)
(* The flush of the log pages does that with CSECT_LOG.                    *)
(*                                                                         *)
(* Everything between taking csect->lock and releasing it, or waiting with *)
(* it, is one step.  Callers are held to what critical_section_tracker.cpp *)
(* asserts of them: no writer inside a reader, no reader inside a plain    *)
(* reader, only a writer demotes.  It also asserts that a thread demotes   *)
(* at depth 1; csect_demote handles a nested call, which is allowed here.  *)
(* As every caller does, a thread that demotes promotes before it leaves,  *)
(* and waits without a time limit; the call that does not wait at all      *)
(* either takes the granting step here or changes nothing.                 *)
(***************************************************************************)
EXTENDS Integers, Sequences, FiniteSets

CONSTANTS
  Threads, None,
  MaxDepth,   \* bound: how deep a thread nests its calls
  MaxCalls    \* bound: how often each thread enters or demotes

ASSUME CriticalSectionAssumption ==
  /\ IsFiniteSet(Threads) /\ None \notin Threads
  /\ MaxDepth \in Nat \ {0} /\ MaxCalls \in Nat

VARIABLES
  rwlock,                   \* > 0: readers, < 0: depth of the writer
  owner,                    \* the writer, also after it has demoted
  waiting_writers,
  waiting_writers_queue,
  waiting_promoters_queue,
  readers_ok,               \* threads that wait on the condition variable
  at,                       \* "run", or what the thread waits to become
  resume_status,            \* of a thread in thread_suspend_with_other_mutex
  mode,                     \* the tracker's m_is_writer and m_is_demoted
  enter_count,              \* the tracker's m_enter_count
  demoted_at,               \* enter_count at the demotion, else 0
  calls                     \* how often the thread entered or demoted

csect == <<rwlock, owner, waiting_writers, waiting_writers_queue, waiting_promoters_queue, readers_ok>>
tracker == <<mode, enter_count, demoted_at, calls>>
vars == <<csect, at, resume_status, tracker>>

Init ==
  /\ rwlock = 0 /\ owner = None /\ waiting_writers = 0
  /\ waiting_writers_queue = <<>> /\ waiting_promoters_queue = <<>> /\ readers_ok = {}
  /\ at = [t \in Threads |-> "run"]
  /\ resume_status = [t \in Threads |-> "none"]
  /\ mode = [t \in Threads |-> "out"]
  /\ enter_count = [t \in Threads |-> 0]
  /\ demoted_at = [t \in Threads |-> 0]
  /\ calls = [t \in Threads |-> 0]

InQueue(t, q) == \E k \in DOMAIN q : q[k] = t

\* The thread enters or demotes once more.
Call(t) ==
  /\ at[t] = "run" /\ calls[t] < MaxCalls
  /\ calls' = [calls EXCEPT ![t] = @ + 1]

\* on_enter_as_writer, on_enter_as_reader: the first enter fixes the mode.
Entered(t, m) ==
  /\ at' = [at EXCEPT ![t] = "run"]
  /\ enter_count' = [enter_count EXCEPT ![t] = @ + 1]
  /\ mode' = IF enter_count[t] = 0 THEN [mode EXCEPT ![t] = m] ELSE mode
  /\ UNCHANGED demoted_at

Holds(t) == rwlock < 0 /\ owner = t

(***************************************************************************)
(* csect_enter_critical_section.                                           *)
(***************************************************************************)

\* A bug: a demoted section is taken for free once its readers are gone.
WriterMayEnterIgnoresOwner(t) == rwlock = 0 \/ Holds(t)

\* The condition of the loop; a writer that holds the section re-enters it.
WriterMayEnter(t) == (rwlock = 0 /\ owner = None) \/ Holds(t)

\* csect_wait_on_writer_queue: the thread waits at the rear of the queue.
WaitAsWriter(t, waiting, resume) ==
  /\ waiting_writers' = waiting + 1
  /\ waiting_writers_queue' = Append(waiting_writers_queue, t)
  /\ resume_status' = [resume EXCEPT ![t] = "suspended"]
  /\ at' = [at EXCEPT ![t] = "writer"]
  /\ UNCHANGED <<rwlock, owner, mode, enter_count, demoted_at>>

\* The loop of the writer, from its condition to the grant or to the next
\* wait; waiting and resume are waiting_writers and resume_status so far.
EnterOrWait(t, waiting, resume) ==
  IF WriterMayEnter(t)
    THEN /\ rwlock' = rwlock - 1 /\ owner' = t
         /\ waiting_writers' = waiting
         /\ resume_status' = resume
         /\ Entered(t, "writer")
         /\ UNCHANGED waiting_writers_queue
    ELSE WaitAsWriter(t, waiting, resume)

Enter(t) ==
  /\ Call(t) /\ enter_count[t] < MaxDepth
  /\ enter_count[t] > 0 => mode[t] = "writer"
  /\ EnterOrWait(t, waiting_writers, resume_status)
  /\ UNCHANGED <<waiting_promoters_queue, readers_ok>>

\* csect_wakeup_waiting_promoter.
WakeupWaitingPromoter ==
  IF waiting_promoters_queue = <<>> THEN UNCHANGED waiting_promoters_queue
  ELSE waiting_promoters_queue' = Tail(waiting_promoters_queue)

\* resume_status once the head of queue q, if there is one, is woken.
Woken(q) == IF q = <<>> THEN resume_status ELSE [resume_status EXCEPT ![Head(q)] = "resumed"]

\* A thread that was interrupted in the queue waits again.
StaysInQueue(t, q) ==
  /\ resume_status[t] = "interrupt" /\ InQueue(t, q)
  /\ resume_status' = [resume_status EXCEPT ![t] = "suspended"]
  /\ UNCHANGED <<csect, at, tracker>>

\* The end of csect_wait_on_writer_queue.  If a demoted owner is there the
\* thread wakes it in case it waits to be promoted.
WriterResumes(t) ==
  /\ at[t] = "writer" /\ resume_status[t] # "suspended"
  /\ \/ StaysInQueue(t, waiting_writers_queue)
     \/ /\ resume_status[t] = "interrupt" => ~ InQueue(t, waiting_writers_queue)
        /\ IF owner # None /\ waiting_writers - 1 > 0
             THEN /\ WakeupWaitingPromoter
                  /\ EnterOrWait(t, waiting_writers - 1, Woken(waiting_promoters_queue))
             ELSE /\ EnterOrWait(t, waiting_writers - 1, resume_status)
                  /\ UNCHANGED waiting_promoters_queue
        /\ UNCHANGED <<readers_ok, calls>>

(***************************************************************************)
(* csect_enter_critical_section_as_reader.                                 *)
(***************************************************************************)

\* A reader waits for a writer that is inside or waits, but does not wait
\* for writers that wait behind a demoted one.
ReaderMayEnter == rwlock >= 0 /\ (waiting_writers > 0 => owner # None)

EnterAsReader(t) ==
  /\ Call(t) /\ enter_count[t] < MaxDepth
  /\ mode[t] # "reader"
  /\ IF Holds(t) THEN rwlock' = rwlock - 1 /\ Entered(t, "writer") /\ UNCHANGED readers_ok
     ELSE IF ReaderMayEnter THEN rwlock' = rwlock + 1 /\ Entered(t, "reader") /\ UNCHANGED readers_ok
     ELSE /\ readers_ok' = readers_ok \cup {t}
          /\ at' = [at EXCEPT ![t] = "reader"]
          /\ UNCHANGED <<rwlock, mode, enter_count, demoted_at>>
  /\ UNCHANGED <<owner, waiting_writers, waiting_writers_queue, waiting_promoters_queue, resume_status>>

\* The condition variable was broadcast.
ReaderResumes(t) ==
  /\ at[t] = "reader" /\ t \notin readers_ok
  /\ IF ReaderMayEnter THEN rwlock' = rwlock + 1 /\ Entered(t, "reader") /\ UNCHANGED readers_ok
     ELSE /\ readers_ok' = readers_ok \cup {t}
          /\ UNCHANGED <<rwlock, at, mode, enter_count, demoted_at>>
  /\ UNCHANGED <<owner, waiting_writers, waiting_writers_queue, waiting_promoters_queue, resume_status, calls>>

(***************************************************************************)
(* csect_demote_critical_section and csect_promote_critical_section.       *)
(***************************************************************************)

\* The outermost writer becomes a reader and stays the owner; a nested one
\* stays a writer.
Demote(t) ==
  /\ Call(t) /\ mode[t] = "writer" /\ Holds(t)
  /\ rwlock' = IF rwlock = -1 THEN 1 ELSE rwlock
  /\ readers_ok' = {}
  /\ mode' = [mode EXCEPT ![t] = "demoted"]
  /\ demoted_at' = [demoted_at EXCEPT ![t] = enter_count[t]]
  /\ UNCHANGED <<owner, waiting_writers, waiting_writers_queue, waiting_promoters_queue,
                 at, resume_status, enter_count>>

\* The loop of the promoter; free is rwlock without the caller.
PromoteOrWait(t, free, waiting) ==
  IF free = 0 \/ (free < 0 /\ owner = t)
    THEN /\ rwlock' = free - 1 /\ owner' = t
         /\ waiting_writers' = waiting
         /\ at' = [at EXCEPT ![t] = "run"]
         /\ mode' = [mode EXCEPT ![t] = "writer"]
         /\ demoted_at' = [demoted_at EXCEPT ![t] = 0]
         /\ UNCHANGED <<waiting_promoters_queue, resume_status>>
    ELSE /\ rwlock' = free
         /\ waiting_writers' = waiting + 1
         /\ waiting_promoters_queue' = Append(waiting_promoters_queue, t)
         /\ resume_status' = [resume_status EXCEPT ![t] = "suspended"]
         /\ at' = [at EXCEPT ![t] = "promoter"]
         /\ UNCHANGED <<owner, mode, demoted_at>>

\* A bug: the thread does not give up its own read before it waits.
PromoteKeepsRead(t) ==
  /\ at[t] = "run" /\ mode[t] = "demoted" /\ enter_count[t] = demoted_at[t]
  /\ PromoteOrWait(t, rwlock, waiting_writers)
  /\ UNCHANGED <<waiting_writers_queue, readers_ok, enter_count, calls>>

\* The thread gives up its read, or one level of its depth, and asks again.
Promote(t) ==
  /\ at[t] = "run" /\ mode[t] = "demoted" /\ enter_count[t] = demoted_at[t]
  /\ PromoteOrWait(t, IF rwlock > 0 THEN rwlock - 1 ELSE rwlock + 1, waiting_writers)
  /\ UNCHANGED <<waiting_writers_queue, readers_ok, enter_count, calls>>

PromoterResumes(t) ==
  /\ at[t] = "promoter" /\ resume_status[t] # "suspended"
  /\ \/ StaysInQueue(t, waiting_promoters_queue)
     \/ /\ resume_status[t] = "interrupt" => ~ InQueue(t, waiting_promoters_queue)
        /\ PromoteOrWait(t, rwlock, waiting_writers - 1)
        /\ UNCHANGED <<waiting_writers_queue, readers_ok, enter_count, calls>>

(***************************************************************************)
(* csect_exit_critical_section.                                            *)
(***************************************************************************)

\* A bug: writers are woken although the owner waits to be promoted.
WakeupWritersFirst ==
  IF waiting_writers > 0 /\ rwlock' = 0
    THEN /\ waiting_writers_queue' = IF waiting_writers_queue = <<>> THEN <<>> ELSE Tail(waiting_writers_queue)
         /\ resume_status' = Woken(waiting_writers_queue)
         /\ UNCHANGED <<waiting_promoters_queue, readers_ok>>
  ELSE readers_ok' = {} /\ UNCHANGED <<waiting_writers_queue, waiting_promoters_queue, resume_status>>

\* A promoter first, then a writer, and otherwise all readers; the new values
\* of rwlock and owner are given.
WakeupWaiters ==
  IF waiting_writers > 0 /\ rwlock' = 0 /\ owner' # None
    THEN /\ WakeupWaitingPromoter
         /\ resume_status' = Woken(waiting_promoters_queue)
         /\ UNCHANGED <<waiting_writers_queue, readers_ok>>
  ELSE IF waiting_writers > 0 /\ rwlock' = 0
    THEN /\ waiting_writers_queue' = IF waiting_writers_queue = <<>> THEN <<>> ELSE Tail(waiting_writers_queue)
         /\ resume_status' = Woken(waiting_writers_queue)
         /\ UNCHANGED <<waiting_promoters_queue, readers_ok>>
  ELSE readers_ok' = {} /\ UNCHANGED <<waiting_writers_queue, waiting_promoters_queue, resume_status>>

\* on_exit.
Exited(t) ==
  /\ enter_count' = [enter_count EXCEPT ![t] = @ - 1]
  /\ mode' = IF enter_count[t] = 1 THEN [mode EXCEPT ![t] = "out"] ELSE mode

Exit(t) ==
  /\ at[t] = "run" /\ enter_count[t] > demoted_at[t]
  /\ rwlock # 0
  /\ rwlock' = IF rwlock < 0 THEN rwlock + 1 ELSE rwlock - 1
  /\ owner' = IF rwlock = -1 THEN None ELSE owner
  /\ IF rwlock' < 0
       THEN UNCHANGED <<waiting_writers_queue, waiting_promoters_queue, readers_ok, resume_status>>
       ELSE WakeupWaiters
  /\ Exited(t)
  /\ UNCHANGED <<waiting_writers, at, demoted_at, calls>>

\* css_stop_non_log_writer: the shutdown wakes threads that are suspended.
Interrupt(t) ==
  /\ at[t] \in {"writer", "promoter"}
  /\ resume_status' = [resume_status EXCEPT ![t] = "interrupt"]
  /\ UNCHANGED <<csect, at, tracker>>

Resumes(t) == WriterResumes(t) \/ ReaderResumes(t) \/ PromoterResumes(t)

Next ==
  \E t \in Threads :
    \/ Enter(t) \/ EnterAsReader(t) \/ Demote(t) \/ Promote(t) \/ Exit(t)
    \/ Resumes(t) \/ Interrupt(t)

Spec == Init /\ [][Next]_vars

\* Threads that are woken run, and threads that are inside leave.
Fairness == \A t \in Threads : WF_vars(Resumes(t)) /\ WF_vars(Promote(t)) /\ WF_vars(Exit(t))

FairSpec == Spec /\ Fairness
------------------------------------------------------------------------------
\* Type invariant.
TypeOK ==
  /\ rwlock \in Int /\ owner \in Threads \cup {None} /\ waiting_writers \in Nat
  /\ waiting_writers_queue \in Seq(Threads) /\ waiting_promoters_queue \in Seq(Threads)
  /\ readers_ok \subseteq Threads
  /\ at \in [Threads -> {"run", "writer", "reader", "promoter"}]
  /\ resume_status \in [Threads -> {"none", "suspended", "resumed", "interrupt"}]
  /\ mode \in [Threads -> {"out", "reader", "writer", "demoted"}]
  /\ enter_count \in [Threads -> 0 .. MaxDepth]
  /\ demoted_at \in [Threads -> 0 .. MaxDepth]
  /\ calls \in [Threads -> 0 .. MaxCalls]

\* A thread that entered as a writer and has not demoted is alone: nobody
\* else is inside, not as a reader and not as a thread that has demoted.  So
\* from a demotion until the promotion is granted, the wait for it included,
\* nobody becomes a writer, and what the thread wrote before is still there.
WriterIsAlone ==
  \A t, u \in Threads : mode[t] = "writer" /\ t # u => mode[u] = "out"

\* Nobody waits for a wakeup that does not come: a writer or a reader that is
\* still asleep is so because of a thread that is inside, or of one that was
\* woken and will take the section; and if only the owner can take it, it is
\* the owner that was woken.
NoForgottenWaiter ==
  /\ rwlock = 0 /\ owner = None /\ waiting_writers_queue # <<>> =>
       \E t \in Threads : at[t] = "writer" /\ ~ InQueue(t, waiting_writers_queue)
  /\ rwlock = 0 /\ owner # None =>
       at[owner] = "promoter" /\ ~ InQueue(owner, waiting_promoters_queue)
  /\ readers_ok # {} => rwlock < 0 \/ (owner = None /\ \E t \in Threads : at[t] = "writer")

\* Every thread that waits goes on in the end, if those that are inside leave
\* and each calls only so many times (writers are preferred to readers, and a
\* writer that comes may overtake one that was woken).
EveryWaitEnds == \A t \in Threads : at[t] # "run" ~> at[t] = "run"
==============================================================================
