----------------------------- MODULE ThreadPosix -----------------------------
(***************************************************************************)
(* A Thread object of Common/Thread_POSIX and the pthreads that it starts. *)
(* The owner starts, joins and destroys it; each pthread runs runnableEntry*)
(* (callableEntry does the same with the callback).  Both share ThreadData,*)
(* which is reference counted and holds the target, the handle and an Event*)
(* that is set at the end of a run and never reset.                        *)
(***************************************************************************)
EXTENDS Naturals

CONSTANT MaxStarts  \* bound: how often the thread is started

ASSUME MaxStartsAssumption == MaxStarts \in Nat

Runs == 1 .. MaxStarts

OWNER == "owner"

VARIABLES
    target,   \* pRunnableTarget # 0, which is what isRunning returns
    thread,   \* the pthread that the handle names; 0 for none
    run,      \* run[i]: where pthread i is
    fate,     \* fate[i]: "joinable", "joined" or "detached"
    count,    \* the reference count of ThreadData
    owner,    \* where the owner is
    done,     \* the event done
    call      \* the calls of its wait and tryWait

threadVars == <<target, thread, run, fate, count, owner>>
vars == <<threadVars, done, call>>

\* done(false): the event does not reset itself.
Done == INSTANCE EventObject WITH
    Threads <- {OWNER}, AutoReset <- FALSE, state <- done

TypeOK ==
    /\ target \in BOOLEAN
    /\ thread \in 0 .. MaxStarts
    /\ run \in [Runs -> {"none", "new", "body", "over", "set", "exited"}]
    /\ fate \in [Runs -> {"joinable", "joined", "detached"}]
    /\ count \in 0 .. MaxStarts + 1
    /\ owner \in {"idle", "wait", "join", "gone"}
    /\ Done!TypeOK

Init ==
    /\ target = FALSE /\ thread = 0
    /\ run = [i \in Runs |-> "none"]
    /\ fate = [i \in Runs |-> "joinable"]
    /\ count = 1
    /\ owner = "idle"
    /\ Done!Init

-------------------------------------------------------------------------------
(***************************************************************************)
(* The owner.                                                              *)
(***************************************************************************)
\* Mutant: the thread may be started while it runs.
StartAgain ==
    /\ owner = "idle" /\ thread < MaxStarts
    /\ target' = TRUE
    /\ thread' = thread + 1
    /\ run' = [run EXCEPT ![thread + 1] = "new"]
    /\ UNCHANGED <<fate, count, owner, done, call>>

\* startImpl, when the thread is not already running.
Start ==
    /\ owner = "idle" /\ thread < MaxStarts
    /\ ~target
    /\ target' = TRUE
    /\ thread' = thread + 1
    /\ run' = [run EXCEPT ![thread + 1] = "new"]
    /\ UNCHANGED <<fate, count, owner, done, call>>

\* join or tryJoin of a thread that was started and not joined since.
Join(kind) ==
    /\ owner = "idle" /\ thread # 0 /\ fate[thread] = "joinable"
    /\ Done!Arrive(OWNER, kind)
    /\ owner' = "wait"
    /\ UNCHANGED <<target, thread, run, fate, count>>

\* done.wait() has returned, or done.tryWait() with TRUE.
JoinSeesDone ==
    /\ owner = "wait"
    /\ Done!Pass(OWNER)
    /\ owner' = "join"
    /\ UNCHANGED <<target, thread, run, fate, count>>

\* tryJoin returns FALSE.
JoinGivesUp ==
    /\ owner = "wait"
    /\ Done!GiveUp(OWNER)
    /\ owner' = "idle"
    /\ UNCHANGED <<target, thread, run, fate, count>>

\* pthread_join returns when the pthread has ended.
PthreadJoin ==
    /\ owner = "join" /\ run[thread] = "exited"
    /\ fate' = [fate EXCEPT ![thread] = "joined"]
    /\ owner' = "idle"
    /\ UNCHANGED <<target, thread, run, count, done, call>>

\* ~ThreadImpl.  A pthread that has not begun would read the object after it:
\* the owner must not destroy it so soon.
Destroy ==
    /\ owner = "idle" /\ \A i \in Runs : run[i] # "new"
    /\ fate' = IF target THEN [fate EXCEPT ![thread] = "detached"] ELSE fate
    /\ count' = count - 1
    /\ owner' = "gone"
    /\ UNCHANGED <<target, thread, run, done, call>>

Owner == JoinSeesDone \/ JoinGivesUp \/ PthreadJoin

-------------------------------------------------------------------------------
(***************************************************************************)
(* Pthread i: runnableEntry.                                               *)
(***************************************************************************)
Move(i, from, to) ==
    /\ run[i] = from
    /\ run' = [run EXCEPT ![i] = to]

\* Mutant: ThreadData is used without a reference.
EntryBorrows(i) ==
    /\ Move(i, "new", "body")
    /\ UNCHANGED <<target, thread, fate, count, owner, done, call>>

\* Mutant: the event is set before the target runs.
EntryTellsDone(i) ==
    /\ Move(i, "new", "body")
    /\ count' = count + 1
    /\ Done!Set
    /\ UNCHANGED <<target, thread, fate, owner>>

\* The thread takes its reference to ThreadData and calls the target.
Entry(i) ==
    /\ Move(i, "new", "body")
    /\ count' = count + 1
    /\ UNCHANGED <<target, thread, fate, owner, done, call>>

\* Mutant: the target stays.
TargetReturnsKept(i) ==
    /\ Move(i, "body", "over")
    /\ UNCHANGED <<target, thread, fate, count, owner, done, call>>

\* The target has returned or thrown: pRunnableTarget = 0.
TargetReturns(i) ==
    /\ Move(i, "body", "over")
    /\ target' = FALSE
    /\ UNCHANGED <<thread, fate, count, owner, done, call>>

\* Mutant: the end of the run is not told.
DoneSetNot(i) ==
    /\ Move(i, "over", "set")
    /\ UNCHANGED <<target, thread, fate, count, owner, done, call>>

\* done.set()
DoneSet(i) ==
    /\ Move(i, "over", "set")
    /\ Done!Set
    /\ UNCHANGED <<target, thread, fate, count, owner>>

\* The reference is given back and the pthread ends.
Exit(i) ==
    /\ Move(i, "set", "exited")
    /\ count' = count - 1
    /\ UNCHANGED <<target, thread, fate, owner, done, call>>

Pthread(i) == Entry(i) \/ DoneSet(i) \/ Exit(i)

Next ==
    \/ Start \/ Destroy \/ Owner
    \/ \E kind \in Done!Waits : Join(kind)
    \/ \E i \in Runs : Pthread(i) \/ TargetReturns(i)

Spec == Init /\ [][Next]_vars

\* Threads go on when they can, and a wait for a limited time ends; the target
\* may run forever.
FairSpec == Spec /\ WF_vars(Owner) /\ \A i \in Runs : WF_vars(Pthread(i))

-------------------------------------------------------------------------------
(***************************************************************************)
(* Properties.                                                             *)
(***************************************************************************)
\* Never do two pthreads run the target of one Thread object, although it can
\* be started again before the last pthread has ended (startImpl).
OneTarget ==
    \A i, j \in Runs : {run[i], run[j]} \subseteq {"new", "body"} => i = j

\* After a join has returned, isRunning is FALSE until the next start, whatever
\* older pthreads still do (joinImpl, runnableEntry).
JoinedIsStopped == thread # 0 /\ fate[thread] = "joined" => ~target

\* ThreadData lives exactly as long as the object or a pthread uses it, in
\* whichever order they end.
DataLives ==
    count > 0 <=> owner # "gone" \/ \E i \in Runs : run[i] \in {"body", "over", "set"}

Timed == call[OWNER] = "tryWait"

\* A join for a limited time returns, even when the target runs on forever
\* (Thread::tryJoin), if it joins the first run: the event is set only when the
\* target is over, and pthread_join then waits for the last steps at most.  In
\* a later run the event is still set, and the wait has no limit.
FirstTimedJoinReturns == Timed /\ thread = 1 ~> owner = "idle"

\* A join returns once the target of the thread has: the end of a run is told
\* even if nobody was waiting at the time.
JoinReturns ==
    owner \in {"wait", "join"} /\ ~target ~> owner = "idle"
===============================================================================
