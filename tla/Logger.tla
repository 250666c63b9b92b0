--------------------------------- MODULE Logger ---------------------------------
(***************************************************************************)
(* asio2::logger with ASIO2_LOGGER_MULTI_MODULE: the threads that log hold *)
(* mutex_ while they write; a file that has grown too large is closed and  *)
(* opened again by a thread of the module that made the logger, which the  *)
(* caller wakes and waits for, still holding mutex_.                       *)
(***************************************************************************)
EXTENDS Naturals, Sequences, FiniteSets

CONSTANTS
    User,           \* threads that log
    Level,          \* the severity levels, numbers
    MaxLines,       \* bound: calls of a thread
    RollSize        \* roll_size_, in lines

VARIABLES
    level,          \* level_
    file,           \* the severity of each line written
    size,           \* size_: written since the file was opened
    mkflag, is_stop,
    user,           \* of each user thread: [at, sev, calls]; "roll" holds mutex_
    maker           \* thread_: "check", "block", "wait" or "exit"

vars == <<level, file, size, mkflag, is_stop, user, maker>>

Init ==
    /\ level \in Level
    /\ file = <<>> /\ size = 0
    /\ mkflag = FALSE /\ is_stop = FALSE
    /\ user = [u \in User |-> [at |-> "out", sev |-> 0, calls |-> 0]]
    /\ maker = "check"

MutexFree == \A u \in User : user[u].at # "roll"
Goes(u, where) == user' = [user EXCEPT ![u].at = where]

(* log_trace() and the others look at level_ without the mutex.            *)
LogAt(u, sev) ==
    /\ ~ is_stop
    /\ user[u].at = "out" /\ user[u].calls < MaxLines
    /\ user' = [user EXCEPT ![u] = [at |-> IF sev >= level THEN "lock" ELSE "out",
                                    sev |-> sev, calls |-> @.calls + 1]]
    /\ UNCHANGED <<level, file, size, mkflag, is_stop, maker>>

SetLevel(l) ==
    /\ ~ is_stop /\ MutexFree
    /\ level' = l
    /\ UNCHANGED <<file, size, mkflag, is_stop, user, maker>>

(* log(): the level may have been raised before the mutex was there.       *)
Rejected_Never(u) == FALSE           (* Mutant: the level is not looked at again. *)

Rejected(u) == user[u].sev < level

Log(u) ==
    /\ user[u].at = "lock" /\ MutexFree
    /\ \/ Rejected(u) /\ Goes(u, "out") /\ UNCHANGED <<file, size, mkflag>>
       \/ /\ ~ Rejected(u)
          /\ file' = Append(file, user[u].sev)
          /\ size' = size + 1
          /\ mkflag' = (size + 1 > RollSize)
          /\ Goes(u, IF size + 1 > RollSize THEN "roll" ELSE "out")
    /\ UNCHANGED <<level, is_stop, maker>>

(* cv_.notify_one(), each time the caller has slept: what it notifies      *)
(* between the maker's look at mkflag_ and its wait is lost, because       *)
(* mkflag_ is set without mtx_.                                            *)
Notify_Once(u) == FALSE /\ UNCHANGED vars        (* Mutant: the flag is enough. *)

Notify(u) ==
    /\ user[u].at = "roll" /\ mkflag
    /\ maker' = IF maker = "wait" THEN "check" ELSE maker
    /\ UNCHANGED <<level, file, size, mkflag, is_stop, user>>

(* The maker has made the file; the caller opens it once more.             *)
Rolled(u) ==
    /\ user[u].at = "roll" /\ ~ mkflag
    /\ size' = 0
    /\ Goes(u, "out")
    /\ UNCHANGED <<level, file, mkflag, is_stop, maker>>

-----------------------------------------------------------------------------
Look ==
    /\ maker = "check" /\ ~ is_stop /\ ~ mkflag
    /\ maker' = "block"
    /\ UNCHANGED <<level, file, size, mkflag, is_stop, user>>

Block ==
    /\ maker = "block"
    /\ maker' = "wait"
    /\ UNCHANGED <<level, file, size, mkflag, is_stop, user>>

Make ==
    /\ maker = "check" /\ ~ is_stop /\ mkflag
    /\ size' = 0
    /\ mkflag' = FALSE
    /\ UNCHANGED <<level, file, is_stop, user, maker>>

Return ==
    /\ maker = "check" /\ is_stop
    /\ maker' = "exit"
    /\ UNCHANGED <<level, file, size, mkflag, is_stop, user>>

(* ~logger(), when nobody logs any more; is_stop_ is set under mtx_, which *)
(* the maker holds from its look until it waits.                           *)
Destroy_Unlocked ==                  (* Mutant: is_stop_ is set like mkflag_. *)
    /\ ~ is_stop /\ \A u \in User : user[u].at = "out"
    /\ is_stop' = TRUE
    /\ maker' = IF maker = "wait" THEN "check" ELSE maker
    /\ UNCHANGED <<level, file, size, mkflag, user>>

Destroy ==
    /\ ~ is_stop /\ \A u \in User : user[u].at = "out"
    /\ maker # "block"
    /\ is_stop' = TRUE
    /\ maker' = IF maker = "wait" THEN "check" ELSE maker
    /\ UNCHANGED <<level, file, size, mkflag, user>>

MakerNext == Look \/ Block \/ Make \/ Return
UserNext(u) == Log(u) \/ Notify(u) \/ Rolled(u)

Next ==
    \/ \E u \in User, sev \in Level : LogAt(u, sev)
    \/ \E l \in Level : SetLevel(l)
    \/ \E u \in User : UserNext(u)
    \/ MakerNext
    \/ Destroy

(* Every thread that can run does; a thread gets a mutex that is free      *)
(* again and again.                                                        *)
UserFairness ==
    \A u \in User : SF_vars(Log(u)) /\ WF_vars(Notify(u)) /\ WF_vars(Rolled(u))

Fairness == WF_vars(MakerNext) /\ UserFairness

Spec == Init /\ [][Next]_vars /\ Fairness

-----------------------------------------------------------------------------
(* A call of log() returns, although it waits, with the mutex held, for a  *)
(* thread that may miss what it is told.                                   *)
LogReturns == \A u \in User : user[u].at # "out" ~> user[u].at = "out"

(* The destructor joins thread_, which comes to its end.                   *)
LoggerJoins == is_stop ~> maker = "exit"

(* No line is written below the level that is set when it is written,      *)
(* though the caller first looked at the level without the mutex.          *)
LevelKept == [][file' # file => file'[Len(file')] >= level]_vars
=============================================================================
