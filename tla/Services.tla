-------------------------------- MODULE Services --------------------------------
(***************************************************************************)
(* Model checking what has to happen in the end: in the server, with the   *)
(* service it promises, in asio2::timer, in asio2::thread_pool and in      *)
(* asio2::logger and over TLS; and the memory the handlers share.  A       *)
(* behaviour is of one of these parts; the others stay in their initial    *)
(* state, where no fairness asks anything of them.  (The threads of the    *)
(* pool and the logger could move there: they are only asked to in their   *)
(* own part.)                                                              *)
(***************************************************************************)
EXTENDS TcpServer

CONSTANTS Id, MaxObj, LateCalls, Worker, Task,
          Level, MaxLines, RollSize,
          Io, Handler, Large, MaxStream

(* There is a worker, and the names of queues and of no queue are others.  *)
ASSUME WorkAssumption ==
    /\ Worker # {} /\ Worker \cap {"shared", "none"} = {}
    /\ Level \subseteq Nat /\ MaxObj \in Nat /\ MaxStream \in Nat

VARIABLES part,
          inbox, obj, user_timers, timers, registered, guard, t_pc, late,   \* the timer
          tasks, at, task, posted, ran, pool_stop,                          \* the thread pool
          level, file, size, mkflag, is_stop, user, maker,                  \* the logger
          in_use, memory, frame,                                            \* handler memory
          phase, t_sock, stream, op, read, limit, flag, clear_s, holders, handlers  \* TLS

Tim == INSTANCE Timers WITH pc <- t_pc
Pool == INSTANCE ThreadPool WITH stop <- pool_stop
Log == INSTANCE Logger WITH User <- Worker
Mem == INSTANCE HandlerMemory WITH Caller <- Worker
Ssl == INSTANCE Tls WITH sock <- t_sock, timer <- limit, ready <- handlers

timVars == <<inbox, obj, user_timers, timers, registered, guard, t_pc, late>>
taskVars == <<tasks, at, task, posted, ran, pool_stop>>
logVars == <<level, file, size, mkflag, is_stop, user, maker>>
memVars == <<in_use, memory, frame>>
sslVars == <<phase, t_sock, stream, op, read, limit, flag, clear_s, holders, handlers>>
allVars == <<vars, timVars, taskVars, logVars, memVars, sslVars, part>>

ServicesInit ==
    /\ Init /\ Tim!Init /\ Pool!Init /\ Log!Init /\ Mem!Init /\ Ssl!Init
    /\ part \in {"server", "timer", "pool", "log", "memory", "tls"}
    /\ part # "log" => \A l \in Level : level <= l

ServicesNext ==
    /\ UNCHANGED part
    /\ \/ part = "server" /\ Next
          /\ UNCHANGED <<timVars, taskVars, logVars, memVars, sslVars>>
       \/ part = "timer" /\ Tim!Next
          /\ UNCHANGED <<vars, taskVars, logVars, memVars, sslVars>>
       \/ part = "pool" /\ Pool!Next
          /\ UNCHANGED <<vars, timVars, logVars, memVars, sslVars>>
       \/ part = "log" /\ Log!Next
          /\ UNCHANGED <<vars, timVars, taskVars, memVars, sslVars>>
       \/ part = "memory" /\ Mem!Next
          /\ UNCHANGED <<vars, timVars, taskVars, logVars, sslVars>>
       \/ part = "tls" /\ Ssl!Next
          /\ UNCHANGED <<vars, timVars, taskVars, logVars, memVars>>

ServicesSpec ==
    /\ ServicesInit /\ [][ServicesNext]_allVars
    /\ Fairness /\ Tim!Fairness /\ Ssl!Fairness
    /\ \A w \in Worker : WF_taskVars(part = "pool" /\ Pool!WorkerNext(w))
    /\ WF_logVars(part = "log" /\ Log!MakerNext) /\ Log!UserFairness

-----------------------------------------------------------------------------
(* asio2::timer: what is pending can be stopped, and what has been stopped *)
(* is not set again.  asio2::thread_pool: no task is run twice or on       *)
(* another worker than its own, and the destructor leaves none.            *)
(* handler_memory: no block is lent to two handlers, and its flag is set   *)
(* just when a handler has it.                                             *)
PartsAreSound ==
    /\ Tim!CanBeStopped /\ Tim!StoppedIsNotSet
    /\ Pool!RunsOnce /\ Pool!NothingLeft
    /\ Mem!NeverShared /\ Mem!FlagAgrees

(* The logger writes no line below the level that is set when it writes    *)
(* it.  Over TLS an SSL_clear finds its stream, and what is reported up is *)
(* open.                                                                   *)
StepsAreSound == Log!LevelKept /\ Ssl!ClearsTheLiving /\ Ssl!UpIsOpen

(* stop() of the timer returns, so that every wait comes to its end, and   *)
(* so do the destructors of the pool and of the logger, which join their   *)
(* threads.                                                                *)
StopsEnd == Tim!StopEnds /\ Pool!DestroyReturns /\ Log!LoggerJoins

(* A task of the pool's shared queue is run, a call of the logger returns. *)
WorkIsDone == Pool!SharedTaskRuns /\ Log!LogReturns

(* Over TLS both handshake and shutdown end though the peer never answers, *)
(* and a session whose socket a late timer closed does not stay up.        *)
TlsEnds == Ssl!HandshakeEnds /\ Ssl!TlsStopEnds /\ Ssl!ClosedIsNoticed
=============================================================================
