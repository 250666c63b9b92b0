----------------------------- MODULE ServicesProofs -----------------------------
(***************************************************************************)
(* The parts of Services beside the server, for every value of their       *)
(* constants: the handler memory, the logger, the thread pool, TLS and the *)
(* timers.  Each has an inductive invariant of its own (MemoryInv, LogInv, *)
(* PoolInv, TlsInv, TimInv); the theorems at the end put them together.    *)
(***************************************************************************)
EXTENDS Services, OccurrenceProofs, FiniteSetTheorems, FunctionTheorems, TLAPS

-----------------------------------------------------------------------------
(***************************************************************************)
(* A block of handler_memory is lent to one handler at a time, for every   *)
(* number of threads and handlers.  NeverShared is not inductive: a thread *)
(* between reading the plain flag and writing it must be the io thread,    *)
(* and must find the block as it saw it.                                   *)
(***************************************************************************)
MemoryTypeOK ==
    /\ in_use \in [Mem!Block -> BOOLEAN]
    /\ memory \in [Handler -> Mem!Block \cup {"none", "heap"}]
    /\ frame \in [Mem!Thread -> [handler : Handler \cup {"none"}, block : Mem!Block \cup {"none"}]]

(* A thread inside allocate() is the io thread, with a block nobody has    *)
(* and a handler that has nothing yet.                                     *)
InAllocate ==
    \A t \in Mem!Thread : frame[t] # Mem!Idle =>
        /\ t = Io
        /\ frame[t].block = "r" /\ ~ in_use["r"]
        /\ frame[t].handler \in Handler /\ memory[frame[t].handler] = "none"

MemoryInv == MemoryTypeOK /\ InAllocate /\ Mem!FlagAgrees /\ Mem!NeverShared

LEMMA MemoryInitInv == Mem!Init => MemoryInv
  BY DEF Mem!Init, MemoryInv, MemoryTypeOK, InAllocate, Mem!FlagAgrees, Mem!NeverShared, Mem!Block, Mem!Thread, Mem!Idle

LEMMA MemoryNextInv == MemoryInv /\ [Mem!Next]_(Mem!vars) => MemoryInv'
<1> SUFFICES ASSUME MemoryInv, [Mem!Next]_(Mem!vars) PROVE MemoryInv'
  OBVIOUS
<1> USE DEF MemoryInv, MemoryTypeOK, InAllocate, Mem!FlagAgrees, Mem!NeverShared, Mem!Block, Mem!Lend, Mem!Idle
<1>1. ASSUME NEW t \in Mem!Thread, NEW b \in Mem!Block, NEW h \in Handler, Mem!Allocate(t, b, h)
      PROVE  MemoryInv'
  <2>1. CASE h \in Large \/ in_use[b]
    BY <1>1, <2>1 DEF Mem!Allocate, Mem!Free
  <2>2. CASE b = "r" /\ ~ (h \in Large \/ in_use[b])
    <3> DEFINE f == [handler |-> h, block |-> "r"]
    <3>1. /\ t = Io /\ ~ in_use["r"] /\ memory[h] = "none"
          /\ frame' = [frame EXCEPT ![t] = f]
          /\ UNCHANGED <<in_use, memory>>
      BY <1>1, <2>2 DEF Mem!Allocate, Mem!Free
    <3>2. f # Mem!Idle /\ f.block = "r" /\ f.handler = h
      OBVIOUS
    <3>3. MemoryTypeOK' /\ Mem!FlagAgrees' /\ Mem!NeverShared'
      BY <3>1
    <3>4. InAllocate'
      BY <3>1, <3>2
    <3> QED BY <3>3, <3>4
  <2>3. CASE b = "w" /\ ~ (h \in Large \/ in_use[b])
    <3>1. /\ ~ in_use["w"] /\ memory[h] = "none"
          /\ \A u \in Mem!Thread : frame[u].handler # h
          /\ in_use' = [in_use EXCEPT !["w"] = TRUE]
          /\ memory' = [memory EXCEPT ![h] = "w"]
          /\ UNCHANGED frame
      BY <1>1, <2>3 DEF Mem!Allocate, Mem!Free
    <3>2. MemoryTypeOK' /\ Mem!FlagAgrees' /\ Mem!NeverShared'
      BY <3>1
    <3>3. InAllocate'
      BY <3>1
    <3> QED BY <3>2, <3>3
  <2> QED BY <2>1, <2>2, <2>3
<1>2. ASSUME NEW t \in Mem!Thread, Mem!SetFlag(t) PROVE MemoryInv'
  BY <1>2 DEF Mem!SetFlag
<1>3. ASSUME NEW h \in Handler, Mem!Deallocate(h) PROVE MemoryInv'
  BY <1>3 DEF Mem!Deallocate, Mem!Thread
<1>4. CASE UNCHANGED Mem!vars
  BY <1>4 DEF Mem!vars
<1> QED BY <1>1, <1>2, <1>3, <1>4 DEF Mem!Next

-----------------------------------------------------------------------------
(***************************************************************************)
(* Logger: what is written was compared with the level under the mutex.    *)
(***************************************************************************)
LogInv ==
    /\ level \in Nat /\ file \in Seq(Nat)
    /\ user \in [Worker -> [at : {"out", "lock", "roll"}, sev : Nat, calls : Nat]]

LevelStep == file' # file => file'[Len(file')] >= level

LEMMA LogInitInv == Log!Init => LogInv
<1> SUFFICES ASSUME Log!Init PROVE LogInv
  OBVIOUS
<1>1. level \in Nat /\ <<>> \in Seq(Nat)
  BY WorkAssumption DEF Log!Init
<1> QED BY <1>1 DEF Log!Init, LogInv

LEMMA LogNextInv == LogInv /\ [Log!Next]_(Log!vars) => LogInv' /\ LevelStep
<1> SUFFICES ASSUME LogInv, [Log!Next]_(Log!vars) PROVE LogInv' /\ LevelStep
  OBVIOUS
<1> USE DEF LogInv, LevelStep
<1>1. ASSUME NEW u \in Worker, NEW sev \in Level, Log!LogAt(u, sev) PROVE LogInv' /\ LevelStep
  <2>1. sev \in Nat
    BY WorkAssumption
  <2>2. /\ user' = [user EXCEPT ![u] = [at |-> IF sev >= level THEN "lock" ELSE "out",
                                        sev |-> sev, calls |-> user[u].calls + 1]]
        /\ level' = level /\ file' = file
    BY <1>1 DEF Log!LogAt
  <2> QED BY <2>1, <2>2
<1>2. ASSUME NEW l \in Level, Log!SetLevel(l) PROVE LogInv' /\ LevelStep
  BY <1>2, WorkAssumption DEF Log!SetLevel
<1>3. ASSUME NEW u \in Worker, Log!Log(u) PROVE LogInv' /\ LevelStep
  <2>1. LogInv'
    <3>1. user[u].sev \in Nat /\ Append(file, user[u].sev) \in Seq(Nat)
      BY AppendProperties
    <3>2. level' = level /\ (file' = file \/ file' = Append(file, user[u].sev))
      BY <1>3 DEF Log!Log
    <3>3. PICK where \in {"out", "roll"} : user' = [user EXCEPT ![u].at = where]
      BY <1>3 DEF Log!Log, Log!Goes
    <3>4. user' \in [Worker -> [at : {"out", "lock", "roll"}, sev : Nat, calls : Nat]]
      BY <3>3
    <3>5. file' \in Seq(Nat) /\ level' \in Nat
      BY <3>1, <3>2
    <3> QED BY <3>4, <3>5
  <2>2. ASSUME file' # file PROVE file'[Len(file')] >= level
    <3>1. ~(user[u].sev < level) /\ file' = Append(file, user[u].sev)
      BY <1>3, <2>2 DEF Log!Log, Log!Rejected
    <3>2. user[u].sev \in Nat /\ file'[Len(file')] = user[u].sev
      BY <3>1, AppendProperties
    <3> QED BY <3>1, <3>2
  <2> QED BY <2>1, <2>2
<1>4. ASSUME NEW u \in Worker, Log!Notify(u) \/ Log!Rolled(u) PROVE LogInv' /\ LevelStep
  BY <1>4 DEF Log!Notify, Log!Rolled, Log!Goes
<1>5. CASE Log!MakerNext \/ Log!Destroy
  BY <1>5 DEF Log!MakerNext, Log!Look, Log!Block, Log!Make, Log!Return, Log!Destroy
<1>6. CASE UNCHANGED Log!vars
  BY <1>6 DEF Log!vars
<1> QED BY <1>1, <1>2, <1>3, <1>4, <1>5, <1>6 DEF Log!Next, Log!UserNext

-----------------------------------------------------------------------------
(***************************************************************************)
(* The thread pool, for any number of workers and tasks.  A task is in the *)
(* queue it was posted to or among those taken, one of them and once       *)
(* (TasksPlaced), and a worker that has gone leaves no queue behind that   *)
(* another one would have to empty (GoneIsEmpty).                          *)
(***************************************************************************)
PoolTypeOK ==
    /\ tasks \in [Pool!Queue -> Seq(Task)]
    /\ at \in [Worker -> {"check", "wait", "run", "exit"}]
    /\ task \in [Worker -> Seq(Task)]
    /\ posted \in [Task -> Pool!Queue \cup {"none"}] /\ ran \in Seq(Task) /\ pool_stop \in BOOLEAN

TasksPlaced ==
    \A t \in Task :
        /\ \A q \in Pool!Queue \ {posted[t]} : Never(tasks[q], {t})
        /\ posted[t] = "none" => Never(ran, {t})
        /\ posted[t] # "none" =>
             \/ Once(tasks[posted[t]], {t}) /\ Never(ran, {t})
             \/ Never(tasks[posted[t]], {t}) /\ Once(ran, {t})

OnItsWorker == \A w \in Worker : \A i \in DOMAIN task[w] : posted[task[w][i]] \in {w, Pool!Shared}

GoneIsEmpty ==
    \A w \in Worker : at[w] = "exit" =>
        pool_stop /\ tasks[Pool!Shared] = <<>> /\ tasks[w] = <<>>

PoolInv == PoolTypeOK /\ TasksPlaced /\ OnItsWorker /\ GoneIsEmpty

LEMMA PoolInitInv == Pool!Init => PoolInv
<1> SUFFICES ASSUME Pool!Init PROVE PoolInv
  OBVIOUS
<1>1. PoolTypeOK /\ OnItsWorker /\ GoneIsEmpty
  <2>1. PoolTypeOK
    <3>1. <<>> \in Seq(Task)
      OBVIOUS
    <3> QED BY <3>1 DEF Pool!Init, PoolTypeOK
  <2>2. \A w \in Worker : task[w] = <<>> /\ at[w] = "check"
    BY DEF Pool!Init
  <2> QED BY <2>1, <2>2 DEF OnItsWorker, GoneIsEmpty
<1>2. /\ \A q \in Pool!Queue : tasks[q] = <<>>
      /\ \A t \in Task : posted[t] = "none"
      /\ ran = <<>>
  BY DEF Pool!Init
<1>3. TasksPlaced
  BY <1>2, EmptyOccurs DEF TasksPlaced
<1> QED BY <1>1, <1>3 DEF PoolInv

(* Whoever is told, nobody who has gone comes back.                        *)
LEMMA NotifyKeeps ==
    ASSUME PoolTypeOK, Pool!NotifyOne
    PROVE  /\ at' \in [Worker -> {"check", "wait", "run", "exit"}]
           /\ \A w \in Worker : at'[w] = "exit" => at[w] = "exit"
  BY DEF PoolTypeOK, Pool!NotifyOne, Pool!Waiting

LEMMA PostKeeps ==
    ASSUME PoolInv, NEW t \in Task, NEW q \in Pool!Queue, Pool!Post(t, q)
    PROVE  PoolInv'
<1> USE DEF PoolInv, Pool!Queue
<1>1. /\ ~pool_stop /\ posted[t] = "none"
      /\ tasks' = [tasks EXCEPT ![q] = Append(tasks[q], t)]
      /\ posted' = [posted EXCEPT ![t] = q]
      /\ task' = task /\ ran' = ran /\ pool_stop' = pool_stop
  BY DEF Pool!Post
<1>2. /\ Append(tasks[q], t) \in Seq(Task)
      /\ \A S : Never(Append(tasks[q], t), S) <=> Never(tasks[q], S) /\ t \notin S
      /\ \A S : t \notin S => (Once(Append(tasks[q], t), S) <=> Once(tasks[q], S))
      /\ \A S : t \in S => (Once(Append(tasks[q], t), S) <=> Never(tasks[q], S))
  BY AppendOccurs DEF PoolTypeOK
<1>3. PoolTypeOK'
  BY <1>1, <1>2, NotifyKeeps DEF PoolTypeOK, Pool!Post
<1>4. q # "none" /\ "none" \notin Pool!Queue
  BY WorkAssumption DEF Pool!Shared
<1>5. TasksPlaced'
  <2> SUFFICES ASSUME NEW u \in Task
               PROVE  /\ \A r \in Pool!Queue \ {posted'[u]} : Never(tasks'[r], {u})
                      /\ posted'[u] = "none" => Never(ran, {u})
                      /\ posted'[u] # "none" =>
                           \/ Once(tasks'[posted'[u]], {u}) /\ Never(ran, {u})
                           \/ Never(tasks'[posted'[u]], {u}) /\ Once(ran, {u})
    BY <1>1 DEF TasksPlaced
  <2>1. \A r \in Pool!Queue : tasks'[r] = IF r = q THEN Append(tasks[q], t) ELSE tasks[r]
    BY <1>1 DEF PoolTypeOK
  <2>2. CASE u = t
    <3>1. posted'[u] = q /\ \A r \in Pool!Queue : Never(tasks[r], {t})
      BY <1>1, <1>4, <2>2 DEF PoolTypeOK, TasksPlaced
    <3>2. Never(ran, {t}) /\ Once(tasks'[q], {t})
      BY <1>1, <1>2, <2>1, <3>1 DEF TasksPlaced
    <3> QED BY <1>4, <2>1, <2>2, <3>1, <3>2
  <2>3. CASE u # t
    <3>1. posted'[u] = posted[u]
      BY <1>1, <2>3 DEF PoolTypeOK
    <3>2. \A r \in Pool!Queue : /\ Never(tasks'[r], {u}) <=> Never(tasks[r], {u})
                                /\ Once(tasks'[r], {u}) <=> Once(tasks[r], {u})
      BY <1>2, <2>1, <2>3
    <3> QED BY <3>1, <3>2 DEF TasksPlaced, PoolTypeOK
  <2> QED BY <2>2, <2>3
<1>6. OnItsWorker'
  <2>1. \A w \in Worker : \A i \in DOMAIN task[w] :
            task[w][i] \in Task /\ posted[task[w][i]] \in {w, Pool!Shared}
    BY DEF OnItsWorker, PoolTypeOK
  <2>2. \A u \in Task : posted[u] # "none" => posted'[u] = posted[u]
    BY <1>1 DEF PoolTypeOK
  <2>3. \A w \in Worker : "none" \notin {w, Pool!Shared}
    BY WorkAssumption DEF Pool!Shared
  <2> QED BY <1>1, <2>1, <2>2, <2>3 DEF OnItsWorker
<1>7. GoneIsEmpty'
  <2>1. \A w \in Worker : at'[w] = "exit" => at[w] = "exit"
    BY NotifyKeeps DEF Pool!Post
  <2> QED BY <1>1, <2>1 DEF GoneIsEmpty
<1> QED BY <1>3, <1>5, <1>6, <1>7

LEMMA TakeKeeps ==
    ASSUME PoolInv, NEW w \in Worker, Pool!Take(w)
    PROVE  PoolInv'
<1> USE DEF PoolInv, Pool!Queue
<1> DEFINE q == Pool!Next1(w)
           t == Head(tasks[q])
<1>1. /\ at[w] = "check" /\ tasks[q] # <<>>
      /\ task' = [task EXCEPT ![w] = <<t>>]
      /\ ran' = Append(ran, t)
      /\ tasks' = [tasks EXCEPT ![q] = Tail(tasks[q])]
      /\ at' = [at EXCEPT ![w] = "run"]
      /\ UNCHANGED <<posted, pool_stop>>
  BY DEF Pool!Take
<1>2. q \in {w, Pool!Shared} /\ q \in Pool!Queue
  BY DEF Pool!Next1
<1> HIDE DEF q
<1>3. /\ t \in Task /\ Tail(tasks[q]) \in Seq(Task)
      /\ \A S : Never(tasks[q], S) <=> t \notin S /\ Never(Tail(tasks[q]), S)
      /\ \A S : t \notin S => (Once(tasks[q], S) <=> Once(Tail(tasks[q]), S))
      /\ \A S : t \in S => (Once(tasks[q], S) <=> Never(Tail(tasks[q]), S))
  BY <1>1, <1>2, TailOccurs DEF PoolTypeOK
<1> HIDE DEF t
<1>4. /\ Append(ran, t) \in Seq(Task)
      /\ \A S : Never(Append(ran, t), S) <=> Never(ran, S) /\ t \notin S
      /\ \A S : t \notin S => (Once(Append(ran, t), S) <=> Once(ran, S))
      /\ \A S : t \in S => (Once(Append(ran, t), S) <=> Never(ran, S))
  BY <1>3, AppendOccurs DEF PoolTypeOK
<1>5. PoolTypeOK'
  BY <1>1, <1>2, <1>3, <1>4 DEF PoolTypeOK
<1>6. posted[t] = q /\ Once(tasks[q], {t}) /\ Never(ran, {t})
  <2>1. ~Never(tasks[q], {t})
    BY <1>3
  <2>2. posted[t] = q
    BY <1>2, <1>3, <2>1 DEF TasksPlaced
  <2>3. q # "none"
    BY <1>2, WorkAssumption DEF Pool!Shared
  <2> QED BY <1>3, <2>1, <2>2, <2>3 DEF TasksPlaced
<1>7. TasksPlaced'
  <2> SUFFICES ASSUME NEW u \in Task
               PROVE  /\ \A r \in Pool!Queue \ {posted[u]} : Never(tasks'[r], {u})
                      /\ posted[u] = "none" => Never(ran', {u})
                      /\ posted[u] # "none" =>
                           \/ Once(tasks'[posted[u]], {u}) /\ Never(ran', {u})
                           \/ Never(tasks'[posted[u]], {u}) /\ Once(ran', {u})
    BY <1>1 DEF TasksPlaced
  <2>1. \A r \in Pool!Queue : tasks'[r] = IF r = q THEN Tail(tasks[q]) ELSE tasks[r]
    BY <1>1 DEF PoolTypeOK
  <2>2. CASE u = t
    <3>1. posted[u] = q /\ \A r \in Pool!Queue \ {q} : Never(tasks[r], {t})
      BY <1>6, <2>2 DEF TasksPlaced
    <3>2. Never(tasks'[q], {t}) /\ Once(ran', {t})
      BY <1>1, <1>2, <1>3, <1>4, <1>6, <2>1
    <3>3. q # "none"
      BY <1>2, WorkAssumption DEF Pool!Shared
    <3> QED BY <2>1, <2>2, <3>1, <3>2, <3>3
  <2>3. CASE u # t
    <3>1. \A r \in Pool!Queue : /\ Never(tasks'[r], {u}) <=> Never(tasks[r], {u})
                                /\ Once(tasks'[r], {u}) <=> Once(tasks[r], {u})
      BY <1>3, <2>1, <2>3
    <3>2. (Never(ran', {u}) <=> Never(ran, {u})) /\ (Once(ran', {u}) <=> Once(ran, {u}))
      BY <1>1, <1>4, <2>3
    <3> QED BY <3>1, <3>2 DEF TasksPlaced, PoolTypeOK
  <2> QED BY <2>2, <2>3
<1>8. OnItsWorker'
  <2>1. \A v \in Worker : task'[v] = IF v = w THEN <<t>> ELSE task[v]
    BY <1>1 DEF PoolTypeOK
  <2>2. \A i \in DOMAIN <<t>> : <<t>>[i] = t
    OBVIOUS
  <2> QED BY <1>1, <1>2, <1>6, <2>1, <2>2 DEF OnItsWorker
<1>9. GoneIsEmpty'
  <2> SUFFICES ASSUME NEW v \in Worker, at'[v] = "exit"
               PROVE  pool_stop /\ tasks'[Pool!Shared] = <<>> /\ tasks'[v] = <<>>
    BY <1>1 DEF GoneIsEmpty
  <2>1. v # w /\ at[v] = "exit"
    BY <1>1 DEF PoolTypeOK
  <2>2. pool_stop /\ tasks[Pool!Shared] = <<>> /\ tasks[v] = <<>>
    BY <2>1 DEF GoneIsEmpty
  <2>3. q # Pool!Shared /\ q # v
    BY <1>1, <1>2, <2>1, <2>2
  <2> QED BY <1>1, <2>2, <2>3 DEF PoolTypeOK
<1> QED BY <1>5, <1>7, <1>8, <1>9

LEMMA PoolNextInv == PoolInv /\ [Pool!Next]_(Pool!vars) => PoolInv'
<1> SUFFICES ASSUME PoolInv, [Pool!Next]_(Pool!vars) PROVE PoolInv'
  OBVIOUS
<1>1. ASSUME NEW w \in Worker, Pool!Wait(w) PROVE PoolInv'
  BY <1>1 DEF PoolInv, PoolTypeOK, TasksPlaced, OnItsWorker, GoneIsEmpty, Pool!Wait
<1>2. ASSUME NEW w \in Worker, Pool!Exit(w) PROVE PoolInv'
  <2>1. /\ pool_stop /\ tasks[Pool!Shared] = <<>> /\ tasks[w] = <<>>
        /\ at' = [at EXCEPT ![w] = "exit"] /\ UNCHANGED <<tasks, task, posted, ran, pool_stop>>
    BY <1>2 DEF Pool!Exit, Pool!Finished
  <2> QED BY <2>1 DEF PoolInv, PoolTypeOK, TasksPlaced, OnItsWorker, GoneIsEmpty
<1>3. ASSUME NEW w \in Worker, Pool!Done(w) PROVE PoolInv'
  <2>1. task' = [task EXCEPT ![w] = <<>>] /\ at' = [at EXCEPT ![w] = "check"]
        /\ UNCHANGED <<tasks, posted, ran, pool_stop>>
    BY <1>3 DEF Pool!Done
  <2>2. PoolTypeOK' /\ TasksPlaced'
    <3>1. <<>> \in Seq(Task)
      OBVIOUS
    <3>2. PoolTypeOK'
      BY <2>1, <3>1 DEF PoolInv, PoolTypeOK
    <3>3. TasksPlaced'
      BY <2>1 DEF PoolInv, TasksPlaced
    <3> QED BY <3>2, <3>3
  <2>3. \A v \in Worker : task'[v] = IF v = w THEN <<>> ELSE task[v]
    BY <2>1 DEF PoolInv, PoolTypeOK
  <2>4. OnItsWorker'
    BY <2>1, <2>3 DEF PoolInv, OnItsWorker
  <2>5. \A v \in Worker : at'[v] = "exit" => at[v] = "exit"
    BY <2>1 DEF PoolInv, PoolTypeOK
  <2>6. GoneIsEmpty'
    BY <2>1, <2>5 DEF PoolInv, GoneIsEmpty
  <2> QED BY <2>2, <2>4, <2>6 DEF PoolInv
<1>4. CASE Pool!Destroy
  <2>1. /\ pool_stop' = TRUE /\ ~pool_stop
        /\ at' = [w \in Worker |-> IF at[w] = "wait" THEN "check" ELSE at[w]]
        /\ UNCHANGED <<tasks, task, posted, ran>>
    BY <1>4 DEF Pool!Destroy
  <2>2. PoolTypeOK' /\ TasksPlaced' /\ OnItsWorker'
    BY <2>1 DEF PoolInv, PoolTypeOK, TasksPlaced, OnItsWorker
  <2>3. \A w \in Worker : at'[w] # "exit"
    BY <2>1 DEF PoolInv, GoneIsEmpty
  <2> QED BY <2>2, <2>3 DEF PoolInv, GoneIsEmpty
<1>5. CASE UNCHANGED Pool!vars
  BY <1>5 DEF PoolInv, PoolTypeOK, TasksPlaced, OnItsWorker, GoneIsEmpty, Pool!vars
<1> QED BY <1>1, <1>2, <1>3, <1>4, <1>5, PostKeeps, TakeKeeps DEF Pool!Next, Pool!WorkerNext

LEMMA PoolTells == PoolInv => Pool!RunsOnce /\ Pool!NothingLeft
<1> SUFFICES ASSUME PoolInv PROVE Pool!RunsOnce /\ Pool!NothingLeft
  OBVIOUS
<1> USE DEF PoolInv
<1>1. \A t \in Task : ~Never(ran, {t}) => Once(ran, {t})
  BY DEF TasksPlaced
<1>2. ASSUME NEW i \in DOMAIN ran, NEW j \in DOMAIN ran, ran[i] = ran[j] PROVE i = j
  <2>1. ran[i] \in Task /\ ~Never(ran, {ran[i]})
    BY DEF PoolTypeOK, Never
  <2>2. Once(ran, {ran[i]})
    BY <1>1, <2>1
  <2> QED BY <1>2, <2>2 DEF Once
<1>3. ASSUME \A w \in Worker : at[w] = "exit", NEW t \in Task, posted[t] # "none"
      PROVE  Pool!Contains(ran, t)
  <2>1. posted[t] \in Pool!Queue /\ Worker # {}
    BY <1>3, WorkAssumption DEF PoolTypeOK
  <2>2. tasks[posted[t]] = <<>>
    BY <1>3, <2>1 DEF GoneIsEmpty, Pool!Queue
  <2>3. Once(ran, {t})
    BY <1>3, <2>2, EmptyOccurs DEF TasksPlaced
  <2>4. PICK i \in DOMAIN ran : ran[i] = t
    BY <2>3 DEF Once
  <2>5. DOMAIN ran = 1..Len(ran)
    BY DEF PoolTypeOK
  <2> QED BY <2>4, <2>5 DEF Pool!Contains
<1> QED BY <1>2, <1>3 DEF Pool!RunsOnce, Pool!NothingLeft, OnItsWorker

-----------------------------------------------------------------------------
(***************************************************************************)
(* TLS, for any number of attempts.  While a shutdown is under way its     *)
(* guard is in one place: with the timer, in a handler of the timer, in    *)
(* the close, or in the posted next event (GuardOfStop).  The next event   *)
(* is the last handler there is, so that a new attempt finds none of the   *)
(* old one's (NextIsLast).                                                 *)
(***************************************************************************)
TlsKind == {"read", "handshake", "handshake_timer", "shutdown", "shutdown_timer", "close", "next"}
TlsResult == {"ok", "bad", "error", "aborted", "fired"}
TlsItem == [of : TlsKind, result : TlsResult, stream : Nat]

TlsTypeOK ==
    /\ phase \in {"idle", "handshake", "up", "stopping"}
    /\ t_sock \in BOOLEAN /\ stream \in Nat
    /\ op \in {"none", "handshake", "shutdown"} /\ read \in BOOLEAN
    /\ limit \in {"none", "handshake", "shutdown"} /\ flag \in BOOLEAN
    /\ holders \subseteq {"timer", "op"}
    /\ handlers \in Seq(TlsItem)

Of(k) == {x \in TlsItem : x.of = k}
Leaving == Of("shutdown_timer") \cup Of("close") \cup Of("next")

(* Of a timer of an attempt before this one.                               *)
Old == {x \in Of("handshake_timer") : x.stream # stream}

WhileIdle ==
    handlers = <<>> /\ op = "none" /\ ~read /\ limit = "none" /\ holders = {}

WhileShaking ==
    /\ ~read /\ holders = {} /\ op # "shutdown" /\ limit # "shutdown"
    /\ t_sock \/ flag
    /\ Never(handlers, Leaving) /\ Never(handlers, Of("shutdown")) /\ Never(handlers, Old)
    /\ IF op = "handshake" THEN Never(handlers, Of("handshake")) ELSE Once(handlers, Of("handshake"))

WhileUp ==
    /\ op = "none" /\ holders = {} /\ limit = "none"
    /\ Never(handlers, Leaving) /\ Never(handlers, Of("shutdown")) /\ Never(handlers, Of("handshake"))

GuardOfStop ==
    \/ limit = "shutdown" /\ Never(handlers, Leaving)
    \/ limit = "none" /\ Once(handlers, Leaving)

NextIsLast ==
    ~Never(handlers, Of("next")) =>
        op = "none" /\ handlers[Len(handlers)] \in Of("next")

WhileStopping ==
    /\ ~read /\ op # "handshake" /\ Never(handlers, Of("handshake"))
    /\ holders # {} => clear_s = stream
    /\ "op" \in holders => op = "shutdown" \/ ~Never(handlers, Of("shutdown"))
    /\ "timer" \in holders => limit = "shutdown" \/ ~Never(handlers, Of("shutdown_timer"))
    /\ GuardOfStop /\ NextIsLast

TlsInv ==
    /\ TlsTypeOK
    /\ phase = "idle" => WhileIdle
    /\ phase = "handshake" => WhileShaking
    /\ phase = "up" => WhileUp
    /\ phase = "stopping" => WhileStopping

LEMMA TlsInitInv == Ssl!Init => TlsInv
<1> SUFFICES ASSUME Ssl!Init PROVE TlsInv
  OBVIOUS
<1>1. <<>> \in Seq(TlsItem)
  OBVIOUS
<1> QED BY <1>1 DEF Ssl!Init, TlsInv, TlsTypeOK, WhileIdle

-----------------------------------------------------------------------------
(* What a handler is of, and what is added to the handlers.                *)
LEMMA Handlers ==
    ASSUME TlsTypeOK, NEW k \in TlsKind, NEW r \in TlsResult
    PROVE  /\ Ssl!H(k, r) \in TlsItem /\ Ssl!H(k, r).of = k
           /\ \A j : Ssl!H(k, r) \in Of(j) <=> j = k
           /\ Ssl!H(k, r) \in Leaving <=> k \in {"shutdown_timer", "close", "next"}
           /\ Ssl!H(k, r) \notin Old
<1>1. Ssl!H(k, r) \in TlsItem /\ Ssl!H(k, r).of = k /\ Ssl!H(k, r).stream = stream
  BY DEF TlsTypeOK, TlsItem, Ssl!H
<1>2. \A j : Ssl!H(k, r) \in Of(j) <=> j = k
  BY <1>1 DEF Of
<1> QED BY <1>1, <1>2 DEF Leaving, Old

LEMMA AddIf ==
    ASSUME NEW T, NEW q \in Seq(T), NEW c \in BOOLEAN, NEW e, c => e \in T
    PROVE  /\ q \o Ssl!If(c, e) \in Seq(T)
           /\ ~c => q \o Ssl!If(c, e) = q
           /\ \A S : Never(q \o Ssl!If(c, e), S) <=> Never(q, S) /\ (c => e \notin S)
           /\ \A S : ~c \/ e \notin S => (Once(q \o Ssl!If(c, e), S) <=> Once(q, S))
           /\ \A S : c /\ e \in S => (Once(q \o Ssl!If(c, e), S) <=> Never(q, S))
<1>1. CASE c
  <2>1. q \o Ssl!If(c, e) = Append(q, e)
    BY <1>1, AppendIsConcat DEF Ssl!If
  <2>2. /\ e \in T /\ Append(q, e) \in Seq(T)
        /\ \A S : Never(Append(q, e), S) <=> Never(q, S) /\ e \notin S
        /\ \A S : e \notin S => (Once(Append(q, e), S) <=> Once(q, S))
        /\ \A S : e \in S => (Once(Append(q, e), S) <=> Never(q, S))
    BY <1>1, AppendOccurs
  <2> QED BY <1>1, <2>1, <2>2, Zenon
<1>2. CASE ~c
  <2>1. q \o Ssl!If(c, e) = q
    BY <1>2, ConcatEmptySeq DEF Ssl!If
  <2> QED BY <1>2, <2>1
<1> QED BY <1>1, <1>2

(* What closing the socket adds.                                           *)
LEMMA AbortedOccurs ==
    ASSUME TlsTypeOK, NEW q \in Seq(TlsItem)
    PROVE  LET a == Ssl!H(op, "aborted")  b == Ssl!H("read", "aborted")
               p == q \o Ssl!If(op # "none", a) IN
           /\ op # "none" => a \in TlsItem /\ a \notin Old /\ \A j : a \in Of(j) <=> j = op
           /\ b \in TlsItem /\ b \notin Old /\ \A j : b \in Of(j) <=> j = "read"
           /\ p \in Seq(TlsItem) /\ q \o Ssl!Aborted = p \o Ssl!If(read, b)
<1> DEFINE a == Ssl!H(op, "aborted")
           b == Ssl!H("read", "aborted")
<1>1. op # "none" => a \in TlsItem /\ a \notin Old /\ \A j : a \in Of(j) <=> j = op
  <2>1. op # "none" => op \in TlsKind /\ "aborted" \in TlsResult
    BY DEF TlsTypeOK, TlsKind, TlsResult
  <2> QED BY <2>1, Handlers
<1>2. b \in TlsItem /\ b \notin Old /\ \A j : b \in Of(j) <=> j = "read"
  <2>1. "read" \in TlsKind /\ "aborted" \in TlsResult
    BY DEF TlsKind, TlsResult
  <2> QED BY <2>1, Handlers
<1>3. Ssl!If(op # "none", a) \in Seq(TlsItem) /\ Ssl!If(read, b) \in Seq(TlsItem)
  <2> HIDE DEF a, b
  <2> QED BY <1>1, <1>2 DEF Ssl!If
<1>4. q \o Ssl!If(op # "none", a) \in Seq(TlsItem)
  BY <1>3, ConcatProperties
<1>5. q \o Ssl!Aborted = (q \o Ssl!If(op # "none", a)) \o Ssl!If(read, b)
  <2>1. Ssl!Aborted = Ssl!If(op # "none", a) \o Ssl!If(read, b)
    BY DEF Ssl!Aborted
  <2> HIDE DEF a, b
  <2> QED BY <1>3, <2>1, ConcatAssociative
<1> QED BY <1>1, <1>2, <1>4, <1>5

(* The last handler stays the last one while it is not the first.          *)
LEMMA TailKeepsLast ==
    ASSUME NEW T, NEW q \in Seq(T), q # <<>>, Tail(q) # <<>>
    PROVE  Tail(q)[Len(Tail(q))] = q[Len(q)]
<1>1. Len(q) \in Nat /\ Len(Tail(q)) = Len(q) - 1 /\ Len(Tail(q)) # 0 /\ Tail(q) \in Seq(T)
  BY HeadTailProperties, EmptySeq
<1> QED BY <1>1

LEMMA AnswerKeeps ==
    ASSUME TlsInv, NEW result \in {"ok", "bad"}, Ssl!Answer(result)
    PROVE  TlsInv'
<1> USE DEF TlsInv
<1>1. /\ op # "none" /\ op' = "none" /\ handlers' = Append(handlers, Ssl!H(op, result))
      /\ UNCHANGED <<phase, t_sock, stream, read, limit, flag, clear_s, holders>>
  BY DEF Ssl!Answer
<1> DEFINE e == Ssl!H(op, result)
<1>2. /\ e \in TlsItem /\ e \notin Leaving /\ e \notin Old
      /\ \A j : e \in Of(j) <=> j = op
  <2>1. op \in TlsKind /\ result \in TlsResult /\ op \notin {"shutdown_timer", "close", "next"}
    BY <1>1 DEF TlsTypeOK, TlsKind, TlsResult
  <2> QED BY <2>1, Handlers
<1> HIDE DEF e
<1>3. /\ handlers' \in Seq(TlsItem)
      /\ \A S : Never(handlers', S) <=> Never(handlers, S) /\ e \notin S
      /\ \A S : e \notin S => (Once(handlers', S) <=> Once(handlers, S))
      /\ \A S : e \in S => (Once(handlers', S) <=> Never(handlers, S))
  BY <1>1, <1>2, AppendOccurs DEF TlsTypeOK, e
<1>4. TlsTypeOK'
  BY <1>1, <1>3 DEF TlsTypeOK
<1>5. CASE phase = "handshake"
  <2>1. op = "handshake" /\ Old' = Old
    BY <1>1, <1>5 DEF WhileShaking, TlsTypeOK, Old
  <2> QED BY <1>1, <1>2, <1>3, <1>4, <1>5, <2>1 DEF WhileShaking, Of, Leaving
<1>6. CASE phase = "stopping"
  <2>1. op = "shutdown"
    BY <1>1, <1>6 DEF WhileStopping, TlsTypeOK
  <2>2. Never(handlers, Of("next")) /\ Never(handlers', Of("next"))
    BY <1>1, <1>2, <1>3, <1>6, <2>1 DEF WhileStopping, NextIsLast
  <2>3. GuardOfStop' /\ NextIsLast'
    BY <1>1, <1>2, <1>3, <1>6, <2>2 DEF WhileStopping, GuardOfStop, NextIsLast
  <2> QED BY <1>1, <1>2, <1>3, <1>4, <1>6, <2>1, <2>3 DEF WhileStopping
<1>7. phase \in {"handshake", "stopping"}
  BY <1>1 DEF WhileIdle, WhileUp, TlsTypeOK
<1> QED BY <1>5, <1>6, <1>7

LEMMA ConnectKeeps ==
    ASSUME TlsInv, Ssl!Connect
    PROVE  TlsInv'
<1>1. /\ phase = "idle" /\ phase' = "handshake" /\ t_sock' = TRUE /\ stream' = stream + 1
      /\ op' = "handshake" /\ limit' = "handshake" /\ flag' = FALSE
      /\ handlers = <<>> /\ read = FALSE /\ holders = {}
      /\ UNCHANGED <<read, clear_s, holders, handlers>>
  BY DEF Ssl!Connect, TlsInv, WhileIdle, TlsTypeOK
<1>2. TlsTypeOK'
  <2>1. stream \in Nat /\ holders \subseteq {"timer", "op"} /\ handlers \in Seq(TlsItem)
    BY DEF TlsInv, TlsTypeOK
  <2>2. read' \in BOOLEAN /\ t_sock' \in BOOLEAN /\ flag' \in BOOLEAN
    BY <1>1
  <2> QED BY <1>1, <2>1, <2>2 DEF TlsTypeOK
<1>3. \A S : Never(handlers', S)
  BY <1>1, EmptyOccurs
<1> QED BY <1>1, <1>2, <1>3 DEF TlsInv, WhileShaking

LEMMA ReceiveKeeps ==
    ASSUME TlsInv, Ssl!Receive
    PROVE  TlsInv'
<1> USE DEF TlsInv
<1> DEFINE e == Ssl!H("read", "error")
<1>1. /\ read /\ read' = FALSE /\ handlers' = Append(handlers, e)
      /\ UNCHANGED <<phase, t_sock, stream, op, limit, flag, clear_s, holders>>
  BY DEF Ssl!Receive
<1>2. e \in TlsItem /\ e \notin Leaving /\ \A j : e \in Of(j) <=> j = "read"
  BY Handlers DEF TlsKind, TlsResult
<1> HIDE DEF e
<1>3. /\ handlers' \in Seq(TlsItem)
      /\ \A S : Never(handlers', S) <=> Never(handlers, S) /\ e \notin S
  BY <1>1, <1>2, AppendOccurs DEF TlsTypeOK
<1>4. TlsTypeOK'
  BY <1>1, <1>3 DEF TlsTypeOK
<1>5. phase = "up"
  BY <1>1 DEF WhileIdle, WhileShaking, WhileStopping, TlsTypeOK
<1> QED BY <1>1, <1>2, <1>3, <1>4, <1>5 DEF WhileUp

LEMMA ExpireKeeps ==
    ASSUME TlsInv, Ssl!Expire
    PROVE  TlsInv'
<1> USE DEF TlsInv
<1> DEFINE e == Ssl!H(Ssl!TimerHandler[limit], "fired")
<1>1. /\ limit # "none" /\ limit' = "none" /\ handlers' = Append(handlers, e)
      /\ UNCHANGED <<phase, t_sock, stream, op, read, flag, clear_s, holders>>
  BY DEF Ssl!Expire
<1>2. Ssl!TimerHandler[limit] = IF limit = "handshake" THEN "handshake_timer" ELSE "shutdown_timer"
  BY <1>1 DEF Ssl!TimerHandler, TlsTypeOK
<1>3. /\ e \in TlsItem /\ e \notin Old
      /\ e \in Leaving <=> limit = "shutdown"
      /\ \A j : e \in Of(j) <=> j = Ssl!TimerHandler[limit]
  <2>1. Ssl!TimerHandler[limit] \in TlsKind /\ "fired" \in TlsResult
    BY <1>2 DEF TlsKind, TlsResult
  <2> QED BY <1>1, <1>2, <2>1, Handlers DEF TlsTypeOK
<1> HIDE DEF e
<1>4. /\ handlers' \in Seq(TlsItem)
      /\ \A S : Never(handlers', S) <=> Never(handlers, S) /\ e \notin S
      /\ \A S : e \notin S => (Once(handlers', S) <=> Once(handlers, S))
      /\ \A S : e \in S => (Once(handlers', S) <=> Never(handlers, S))
  BY <1>1, <1>3, AppendOccurs DEF TlsTypeOK
<1>5. TlsTypeOK'
  BY <1>1, <1>4 DEF TlsTypeOK
<1>6. CASE phase = "handshake"
  <2>1. limit = "handshake" /\ Old' = Old
    BY <1>1, <1>6 DEF WhileShaking, TlsTypeOK, Old
  <2> QED BY <1>1, <1>2, <1>3, <1>4, <1>5, <1>6, <2>1 DEF WhileShaking
<1>7. CASE phase = "stopping"
  <2>1. limit = "shutdown" /\ Never(handlers, Leaving)
    BY <1>1, <1>7 DEF WhileStopping, GuardOfStop
  <2>2. Never(handlers, Of("next")) /\ Never(handlers', Of("next"))
    <3>1. Never(handlers, Of("next"))
      BY <2>1 DEF Leaving, Never
    <3> QED BY <1>2, <1>3, <1>4, <2>1, <3>1
  <2>3. GuardOfStop' /\ NextIsLast'
    <3>1. Leaving' = Leaving /\ Once(handlers', Leaving)
      BY <1>3, <1>4, <2>1 DEF Leaving, Of
    <3> QED BY <1>1, <2>2, <3>1 DEF GuardOfStop, NextIsLast, Of
  <2>4. ~Never(handlers', Of("shutdown_timer"))
    BY <1>2, <1>3, <1>4, <2>1
  <2> QED BY <1>1, <1>2, <1>3, <1>4, <1>5, <1>7, <2>1, <2>3, <2>4 DEF WhileStopping
<1>8. phase \in {"handshake", "stopping"}
  BY <1>1 DEF WhileIdle, WhileUp, TlsTypeOK
<1> QED BY <1>6, <1>7, <1>8

LEMMA SslStopKeeps ==
    ASSUME TlsInv, phase = "up", NEW rest \in Seq(TlsItem),
           Never(rest, Leaving), Never(rest, Of("shutdown")), Never(rest, Of("handshake")),
           Ssl!SslStop(rest)
    PROVE  TlsInv'
<1> DEFINE a == Ssl!H("read", "aborted")
           b == Ssl!H("shutdown", "error")
           r == rest \o Ssl!If(read, a)
<1>1. /\ phase' = "stopping" /\ clear_s' = stream /\ holders' = {"timer", "op"}
      /\ limit' = "shutdown" /\ read' = FALSE
      /\ op' = IF t_sock THEN "shutdown" ELSE "none"
      /\ handlers' = r \o Ssl!If(~t_sock, b)
      /\ UNCHANGED <<t_sock, stream, flag>>
  BY DEF Ssl!SslStop
<1>2. /\ a \in TlsItem /\ a \notin Leaving /\ \A j : a \in Of(j) <=> j = "read"
      /\ b \in TlsItem /\ b \notin Leaving /\ \A j : b \in Of(j) <=> j = "shutdown"
  BY Handlers DEF TlsKind, TlsResult, TlsInv
<1> HIDE DEF a, b
<1>3. r \in Seq(TlsItem) /\ \A S : Never(r, S) <=> Never(rest, S) /\ (read => a \notin S)
  BY <1>2, AddIf DEF TlsInv, TlsTypeOK
<1> HIDE DEF r
<1>4. /\ handlers' \in Seq(TlsItem)
      /\ \A S : Never(handlers', S) <=> Never(r, S) /\ (~t_sock => b \notin S)
  BY <1>1, <1>2, <1>3, AddIf DEF TlsInv, TlsTypeOK
<1>5. TlsTypeOK'
  BY <1>1, <1>4 DEF TlsInv, TlsTypeOK
<1>6. Never(handlers', Leaving) /\ Leaving' = Leaving
  BY <1>2, <1>3, <1>4 DEF Leaving, Of
<1>7. GuardOfStop'
  BY <1>1, <1>6 DEF GuardOfStop
<1>8. NextIsLast'
  <2>1. Never(handlers', Of("next"))
    BY <1>6 DEF Leaving, Never
  <2> QED BY <2>1 DEF NextIsLast
<1>9. ~t_sock => ~Never(handlers', Of("shutdown"))
  BY <1>2, <1>4
<1>10. WhileStopping'
  BY <1>1, <1>2, <1>3, <1>4, <1>7, <1>8, <1>9 DEF WhileStopping
<1> QED BY <1>1, <1>5, <1>10 DEF TlsInv

LEMMA StopKeeps ==
    ASSUME TlsInv, Ssl!Stop
    PROVE  TlsInv'
  BY SslStopKeeps DEF Ssl!Stop, TlsInv, TlsTypeOK, WhileUp

(* The first handler is taken; nothing else of the phase has changed.      *)
LEMMA FirstTaken ==
    ASSUME TlsInv, handlers # <<>>
    PROVE  /\ handlers[1] = Head(handlers) /\ Head(handlers) \in TlsItem
           /\ Tail(handlers) \in Seq(TlsItem)
           /\ \A k : Ssl!Is(k) <=> Head(handlers) \in Of(k)
           /\ \A S : Never(handlers, S) <=> Head(handlers) \notin S /\ Never(Tail(handlers), S)
           /\ \A S : Head(handlers) \notin S => (Once(handlers, S) <=> Once(Tail(handlers), S))
           /\ \A S : Head(handlers) \in S => (Once(handlers, S) <=> Never(Tail(handlers), S))
<1>1. handlers[1] = Head(handlers)
  BY DEF TlsInv, TlsTypeOK
<1>2. /\ Head(handlers) \in TlsItem /\ Tail(handlers) \in Seq(TlsItem)
      /\ \A S : Never(handlers, S) <=> Head(handlers) \notin S /\ Never(Tail(handlers), S)
      /\ \A S : Head(handlers) \notin S => (Once(handlers, S) <=> Once(Tail(handlers), S))
      /\ \A S : Head(handlers) \in S => (Once(handlers, S) <=> Never(Tail(handlers), S))
  BY TailOccurs DEF TlsInv, TlsTypeOK
<1>3. \A k : Ssl!Is(k) <=> Head(handlers) \in Of(k)
  BY <1>1, <1>2 DEF Ssl!Is, Of
<1> QED BY <1>1, <1>2, <1>3

(* What is last stays last: while a next event is posted nothing is added. *)
LEMMA NextStaysLast ==
    ASSUME TlsInv, phase = "stopping", handlers # <<>>, Head(handlers) \notin Of("next"),
           ~Never(Tail(handlers), Of("next"))
    PROVE  /\ op = "none" /\ limit = "none"
           /\ Tail(handlers)[Len(Tail(handlers))] \in Of("next")
<1>1. ~Never(handlers, Of("next")) /\ Tail(handlers) # <<>>
  BY FirstTaken, EmptyOccurs
<1>2. op = "none" /\ handlers[Len(handlers)] \in Of("next")
  BY <1>1 DEF TlsInv, WhileStopping, NextIsLast
<1>3. ~Never(handlers, Leaving)
  BY <1>1 DEF Leaving, Never
<1>4. limit = "none"
  BY <1>3 DEF TlsInv, WhileStopping, GuardOfStop
<1> QED BY <1>1, <1>2, <1>4, TailKeepsLast DEF TlsInv, TlsTypeOK

LEMMA RunReadKeeps ==
    ASSUME TlsInv, Ssl!RunRead
    PROVE  TlsInv'
<1>1. handlers # <<>> /\ Ssl!Is("read")
  BY DEF Ssl!RunRead, Ssl!Is
<1> DEFINE h == Head(handlers)
           p == Tail(handlers)
<1>2. /\ h \in TlsItem /\ p \in Seq(TlsItem) /\ h \in Of("read")
      /\ \A S : Never(handlers, S) <=> h \notin S /\ Never(p, S)
      /\ \A S : h \notin S => (Once(handlers, S) <=> Once(p, S))
  BY <1>1, FirstTaken
<1>3. h \notin Leaving /\ h \notin Old /\ \A j : h \in Of(j) <=> j = "read"
  BY <1>2 DEF Leaving, Old, Of
<1>4. CASE phase = "up"
  BY <1>2, <1>4, SslStopKeeps DEF Ssl!RunRead, TlsInv, WhileUp
<1>5. CASE phase # "up"
  <2>1. /\ handlers' = p
        /\ UNCHANGED <<phase, t_sock, stream, op, read, limit, flag, clear_s, holders>>
    BY <1>5 DEF Ssl!RunRead
  <2>2. TlsTypeOK'
    BY <1>2, <2>1 DEF TlsInv, TlsTypeOK
  <2>3. phase # "idle"
    BY <1>1 DEF TlsInv, WhileIdle
  <2>4. CASE phase = "handshake"
    <3>1. Old' = Old
      BY <2>1 DEF Old
    <3>2. WhileShaking'
      BY <1>2, <1>3, <2>1, <2>4, <3>1 DEF TlsInv, WhileShaking, Leaving, Of
    <3> QED BY <2>1, <2>2, <2>4, <3>2 DEF TlsInv
  <2>5. CASE phase = "stopping"
    <3>1. GuardOfStop'
      BY <1>2, <1>3, <2>1, <2>5 DEF TlsInv, WhileStopping, GuardOfStop, Leaving, Of
    <3>2. NextIsLast'
      <4>1. h \notin Of("next")
        BY <1>3
      <4>2. CASE Never(p, Of("next"))
        BY <2>1, <4>2 DEF NextIsLast
      <4>3. CASE ~Never(p, Of("next"))
        BY <1>1, <2>1, <2>5, <4>1, <4>3, NextStaysLast DEF NextIsLast
      <4> QED BY <4>2, <4>3
    <3>3. WhileStopping'
      BY <1>2, <1>3, <2>1, <2>5, <3>1, <3>2 DEF TlsInv, WhileStopping
    <3> QED BY <2>1, <2>2, <2>5, <3>3 DEF TlsInv
  <2> QED BY <1>5, <2>2, <2>3, <2>4, <2>5 DEF TlsInv, TlsTypeOK
<1> QED BY <1>4, <1>5

(* The handshake comes to its end once, while it is waited for.            *)
LEMMA HandshakeMeans ==
    ASSUME TlsInv, Ssl!Is("handshake")
    PROVE  /\ phase = "handshake" /\ op = "none" /\ handlers # <<>>
           /\ Never(Tail(handlers), Of("handshake"))
           /\ Never(Tail(handlers), Leaving) /\ Never(Tail(handlers), Of("shutdown"))
           /\ Tail(handlers) \in Seq(TlsItem)
<1>1. handlers # <<>>
  BY DEF Ssl!Is
<1>2. Head(handlers) \in Of("handshake")
  BY <1>1, FirstTaken
<1>3. ~Never(handlers, Of("handshake"))
  BY <1>1, <1>2, FirstTaken
<1>4. phase = "handshake"
  BY <1>1, <1>3 DEF TlsInv, TlsTypeOK, WhileIdle, WhileUp, WhileStopping
<1>5. op = "none" /\ Once(handlers, Of("handshake"))
  BY <1>3, <1>4 DEF TlsInv, TlsTypeOK, WhileShaking
<1>6. Never(handlers, Leaving) /\ Never(handlers, Of("shutdown"))
  BY <1>4 DEF TlsInv, WhileShaking
<1> QED BY <1>1, <1>2, <1>4, <1>5, <1>6, FirstTaken

LEMMA RunHandshakeKeeps ==
    ASSUME TlsInv, Ssl!RunHandshake
    PROVE  TlsInv' /\ (phase' = "up" => t_sock')
<1> DEFINE p == Tail(handlers)
           c == Ssl!H("handshake_timer", "aborted")
           d == Ssl!H("read", "error")
           e == Ssl!H("shutdown", "error")
           q == p \o Ssl!If(limit = "handshake", c)
<1>1. /\ phase = "handshake" /\ op = "none" /\ handlers # <<>>
      /\ Never(p, Of("handshake")) /\ Never(p, Leaving) /\ Never(p, Of("shutdown"))
      /\ p \in Seq(TlsItem)
  BY HandshakeMeans DEF Ssl!RunHandshake
<1>2. /\ c \in TlsItem /\ c \notin Leaving /\ \A j : c \in Of(j) <=> j = "handshake_timer"
      /\ d \in TlsItem /\ d \notin Leaving /\ \A j : d \in Of(j) <=> j = "read"
      /\ e \in TlsItem /\ e \notin Leaving /\ \A j : e \in Of(j) <=> j = "shutdown"
  BY Handlers DEF TlsKind, TlsResult, TlsInv
<1>3. Ssl!CalledOff("handshake") = Ssl!If(limit = "handshake", c)
  BY DEF Ssl!CalledOff, Ssl!TimerHandler
<1>4. CASE Ssl!Shaken
  <2>1. /\ ~flag /\ flag' = TRUE /\ phase' = "up" /\ read' = t_sock
        /\ limit' = IF limit = "handshake" THEN "none" ELSE limit
        /\ handlers' = q \o Ssl!If(~t_sock, d)
        /\ UNCHANGED <<t_sock, stream, op, clear_s, holders>>
    BY <1>3, <1>4 DEF Ssl!RunHandshake, Ssl!Shaken, Ssl!TimerOff
  <2> HIDE DEF c, d, e, p
  <2>2. q \in Seq(TlsItem) /\ \A S : Never(q, S) <=> Never(p, S) /\ (limit = "handshake" => c \notin S)
    BY <1>1, <1>2, AddIf
  <2> HIDE DEF q
  <2>3. /\ handlers' \in Seq(TlsItem)
        /\ \A S : Never(handlers', S) <=> Never(q, S) /\ (~t_sock => d \notin S)
    BY <1>2, <2>1, <2>2, AddIf DEF TlsInv, TlsTypeOK
  <2>4. t_sock /\ holders = {} /\ limit \in {"none", "handshake"}
    BY <1>1, <2>1 DEF TlsInv, TlsTypeOK, WhileShaking
  <2>5. TlsTypeOK'
    BY <2>1, <2>3 DEF TlsInv, TlsTypeOK
  <2>6. WhileUp'
    BY <1>1, <1>2, <2>1, <2>2, <2>3, <2>4 DEF WhileUp, Leaving, Of
  <2> QED BY <2>1, <2>4, <2>5, <2>6 DEF TlsInv
<1>5. CASE ~Ssl!Shaken
  <2>1. /\ flag' = TRUE /\ phase' = "stopping" /\ clear_s' = stream /\ holders' = {"timer", "op"}
        /\ limit' = "shutdown" /\ op' = IF t_sock THEN "shutdown" ELSE "none"
        /\ handlers' = q \o Ssl!If(~t_sock, e)
        /\ UNCHANGED <<t_sock, stream, read>>
    BY <1>3, <1>5 DEF Ssl!RunHandshake
  <2> HIDE DEF c, d, e, p
  <2>2. q \in Seq(TlsItem) /\ \A S : Never(q, S) <=> Never(p, S) /\ (limit = "handshake" => c \notin S)
    BY <1>1, <1>2, AddIf
  <2> HIDE DEF q
  <2>3. /\ handlers' \in Seq(TlsItem)
        /\ \A S : Never(handlers', S) <=> Never(q, S) /\ (~t_sock => e \notin S)
    BY <1>2, <2>1, <2>2, AddIf DEF TlsInv, TlsTypeOK
  <2>4. TlsTypeOK'
    BY <2>1, <2>3 DEF TlsInv, TlsTypeOK
  <2>5. Never(handlers', Leaving) /\ Leaving' = Leaving
    BY <1>1, <1>2, <2>2, <2>3 DEF Leaving, Of
  <2>6. GuardOfStop' /\ NextIsLast'
    <3>1. Never(handlers', Of("next"))
      BY <2>5 DEF Leaving, Never
    <3> QED BY <2>1, <2>5, <3>1 DEF GuardOfStop, NextIsLast
  <2>7. ~t_sock => ~Never(handlers', Of("shutdown"))
    BY <1>2, <2>3
  <2>8. ~read
    BY <1>1 DEF TlsInv, WhileShaking
  <2>9. WhileStopping'
    BY <1>1, <1>2, <2>1, <2>2, <2>3, <2>6, <2>7, <2>8 DEF WhileStopping
  <2> QED BY <2>1, <2>4, <2>9 DEF TlsInv
<1> QED BY <1>4, <1>5

(* A handler that is only taken, in any phase: it is of the handshake's    *)
(* timer, or was given up.                                                 *)
LEMMA RunHandshakeTimerKeeps ==
    ASSUME TlsInv, Ssl!RunHandshakeTimer
    PROVE  TlsInv'
<1> DEFINE h == Head(handlers)
           p == Tail(handlers)
           a == Ssl!H(op, "aborted")
           b == Ssl!H("read", "aborted")
           q == p \o Ssl!If(op # "none", a)
<1>1. /\ handlers # <<>> /\ h \in Of("handshake_timer") /\ handlers[1] = h
      /\ h \in TlsItem /\ p \in Seq(TlsItem)
      /\ \A S : Never(handlers, S) <=> h \notin S /\ Never(p, S)
      /\ \A S : h \notin S => (Once(handlers, S) <=> Once(p, S))
  BY FirstTaken DEF Ssl!RunHandshakeTimer, Ssl!Is
<1>2. h \notin Leaving /\ \A j : h \in Of(j) <=> j = "handshake_timer"
  BY <1>1 DEF Leaving, Of
<1>3. /\ UNCHANGED <<phase, stream, limit, clear_s, holders>>
      /\ phase # "idle" /\ TlsTypeOK /\ Leaving' = Leaving /\ Old' = Old
  BY <1>1 DEF Ssl!RunHandshakeTimer, TlsInv, WhileIdle, Leaving, Of, Old
<1>4. \/ /\ flag' \in BOOLEAN /\ (h.stream = stream => flag') /\ (flag => flag')
         /\ handlers' = p \o Ssl!Aborted
         /\ t_sock' = FALSE /\ op' = "none" /\ read' = FALSE
      \/ handlers' = p /\ UNCHANGED <<t_sock, op, read, flag>>
  BY <1>1 DEF Ssl!RunHandshakeTimer, Ssl!CloseSocket, TlsInv, TlsTypeOK
<1>5. /\ op # "none" => a \in TlsItem /\ a \notin Old /\ \A j : a \in Of(j) <=> j = op
      /\ b \in TlsItem /\ b \notin Old /\ \A j : b \in Of(j) <=> j = "read"
      /\ q \in Seq(TlsItem) /\ p \o Ssl!Aborted = q \o Ssl!If(read, b)
  BY <1>1, <1>3, AbortedOccurs
<1>6. /\ op # "none" => a \notin Leaving
      /\ b \notin Leaving
  BY <1>3, <1>5 DEF Leaving, TlsTypeOK
<1> HIDE DEF p, a, b
<1>7. /\ \A S : Never(q, S) <=> Never(p, S) /\ (op # "none" => a \notin S)
      /\ \A S : op = "none" \/ a \notin S => (Once(q, S) <=> Once(p, S))
      /\ \A S : op # "none" /\ a \in S => (Once(q, S) <=> Never(p, S))
      /\ op = "none" => q = p
  <2>1. op = "none" \/ op # "none"
    OBVIOUS
  <2> QED BY <1>1, <1>5, <2>1, AddIf
<1> HIDE DEF q, h
<1>8. /\ read \in BOOLEAN
      /\ q \o Ssl!If(read, b) \in Seq(TlsItem)
      /\ \A S : Never(q \o Ssl!If(read, b), S) <=> Never(q, S) /\ (read => b \notin S)
      /\ \A S : b \notin S \/ ~read => (Once(q \o Ssl!If(read, b), S) <=> Once(q, S))
      /\ ~read => q \o Ssl!If(read, b) = q
  BY <1>3, <1>5, AddIf DEF TlsTypeOK
<1>9. TlsTypeOK'
  <2>1. handlers' \in Seq(TlsItem)
    BY <1>1, <1>4, <1>5, <1>8
  <2>2. op' \in {"none", "handshake", "shutdown"} /\ read' \in BOOLEAN /\ t_sock' \in BOOLEAN /\ flag' \in BOOLEAN
    BY <1>3, <1>4 DEF TlsTypeOK
  <2> QED BY <1>3, <2>1, <2>2 DEF TlsTypeOK
<1>10. CASE phase = "handshake"
  <2>1. WhileShaking /\ h.stream = stream
    BY <1>1, <1>10 DEF TlsInv, WhileShaking, Old
  <2>2. CASE handlers' = p /\ UNCHANGED <<t_sock, op, read, flag>>
    <3>1. WhileShaking'
      BY <1>1, <1>2, <1>3, <2>1, <2>2 DEF WhileShaking, Of
    <3> QED BY <1>3, <1>9, <1>10, <3>1 DEF TlsInv
  <2>3. CASE /\ flag' \in BOOLEAN /\ (h.stream = stream => flag') /\ handlers' = p \o Ssl!Aborted
             /\ t_sock' = FALSE /\ op' = "none" /\ read' = FALSE
    <3>1. ~read /\ handlers' = q
      BY <1>5, <1>8, <2>1, <2>3 DEF WhileShaking
    <3>2. Once(q, Of("handshake"))
      <4>1. CASE op = "handshake"
        BY <1>1, <1>5, <1>7, <2>1, <4>1 DEF WhileShaking
      <4>2. CASE op # "handshake"
        <5>1. op = "none" /\ Once(handlers, Of("handshake"))
          BY <1>3, <2>1, <4>2 DEF WhileShaking, TlsTypeOK
        <5> QED BY <1>1, <1>2, <1>7, <5>1
      <4> QED BY <4>1, <4>2
    <3>3. Never(q, Leaving) /\ Never(q, Of("shutdown")) /\ Never(q, Old)
      <4>1. Never(p, Leaving) /\ Never(p, Of("shutdown")) /\ Never(p, Old)
        BY <1>1, <2>1 DEF WhileShaking
      <4>2. op # "none" => a \notin Leaving /\ a \notin Of("shutdown") /\ a \notin Old
        BY <1>5, <1>6, <2>1 DEF WhileShaking
      <4> QED BY <1>7, <4>1, <4>2
    <3>4. WhileShaking'
      BY <1>3, <2>1, <2>3, <3>1, <3>2, <3>3 DEF WhileShaking, Of
    <3> QED BY <1>3, <1>9, <1>10, <3>4 DEF TlsInv
  <2> QED BY <1>4, <2>2, <2>3
<1>11. CASE phase = "up"
  <2>1. WhileUp /\ q = p
    BY <1>7, <1>11 DEF TlsInv, WhileUp
  <2>2. WhileUp'
    BY <1>1, <1>3, <1>4, <1>5, <1>6, <1>8, <2>1 DEF WhileUp, Of
  <2> QED BY <1>3, <1>9, <1>11, <2>2 DEF TlsInv
<1>12. CASE phase = "stopping"
  <2>1. WhileStopping /\ ~read
    BY <1>12 DEF TlsInv, WhileStopping
  <2>2. (handlers' = p /\ op' = op) \/ (handlers' = q /\ op' = "none")
    <3>1. q \o Ssl!If(read, b) = q
      BY <1>8, <2>1
    <3> QED BY <1>4, <1>5, <3>1
  <2>3. op = "none" \/ op = "shutdown"
    BY <1>3, <2>1 DEF WhileStopping, TlsTypeOK
  <2>4. GuardOfStop'
    <3>1. Never(handlers', Leaving) <=> Never(handlers, Leaving)
      BY <1>1, <1>2, <1>6, <1>7, <2>2
    <3>2. Once(handlers', Leaving) <=> Once(handlers, Leaving)
      BY <1>1, <1>2, <1>6, <1>7, <2>2
    <3> QED BY <1>3, <2>1, <3>1, <3>2 DEF WhileStopping, GuardOfStop
  <2>5. NextIsLast'
    <3>1. Never(handlers', Of("next")) <=> Never(p, Of("next"))
      BY <1>5, <1>7, <2>2, <2>3
    <3>2. CASE Never(p, Of("next"))
      BY <3>1, <3>2 DEF NextIsLast, Of
    <3>3. CASE ~Never(p, Of("next"))
      <4>1. op = "none" /\ p[Len(p)] \in Of("next")
        <5>1. Head(handlers) \notin Of("next") /\ ~Never(Tail(handlers), Of("next"))
          BY <1>2, <3>3 DEF p, h
        <5> QED BY <1>1, <1>12, <5>1, NextStaysLast DEF p
      <4>2. handlers' = p /\ op' = "none"
        BY <1>7, <2>2, <4>1
      <4> QED BY <4>1, <4>2 DEF NextIsLast, Of
    <3> QED BY <3>2, <3>3
  <2>6. Never(handlers', Of("handshake"))
    BY <1>1, <1>5, <1>7, <2>1, <2>2, <2>3 DEF WhileStopping
  <2>7. op = "shutdown" => op' = "shutdown" \/ ~Never(handlers', Of("shutdown"))
    BY <1>5, <1>7, <2>2, <2>3
  <2>8. \A k : k # "handshake_timer" /\ ~Never(handlers, Of(k)) => ~Never(handlers', Of(k))
    BY <1>1, <1>2, <1>7, <2>2
  <2>9. read' = FALSE /\ op' # "handshake"
    BY <1>4, <2>1, <2>2, <2>3
  <2>10. WhileStopping'
    BY <1>3, <2>1, <2>4, <2>5, <2>6, <2>7, <2>8, <2>9 DEF WhileStopping, Of
  <2> QED BY <1>3, <1>9, <1>12, <2>10 DEF TlsInv
<1> QED BY <1>3, <1>10, <1>11, <1>12 DEF TlsTypeOK

LEMMA RunShutdownKeeps ==
    ASSUME TlsInv, Ssl!RunShutdown
    PROVE  TlsInv'
<1> DEFINE h == Head(handlers)
           p == Tail(handlers)
           a == Ssl!H("shutdown_timer", "aborted")
<1>1. /\ handlers # <<>> /\ h \in Of("shutdown") /\ h \in TlsItem /\ p \in Seq(TlsItem)
      /\ \A S : Never(handlers, S) <=> h \notin S /\ Never(p, S)
      /\ \A S : h \notin S => (Once(handlers, S) <=> Once(p, S))
  BY FirstTaken DEF Ssl!RunShutdown, Ssl!Is
<1>2. h \notin Leaving /\ \A j : h \in Of(j) <=> j = "shutdown"
  BY <1>1 DEF Leaving, Of
<1>3. phase = "stopping" /\ WhileStopping /\ TlsTypeOK
  <2>1. ~Never(handlers, Of("shutdown"))
    BY <1>1
  <2> QED BY <1>1, <2>1 DEF TlsInv, TlsTypeOK, WhileIdle, WhileUp, WhileShaking
<1>4. /\ holders' = holders \ {"op"}
      /\ limit' = IF limit = "shutdown" THEN "none" ELSE limit
      /\ handlers' = p \o Ssl!If(limit = "shutdown", a)
      /\ UNCHANGED <<phase, t_sock, stream, op, read, flag, clear_s>>
  BY DEF Ssl!RunShutdown, Ssl!TimerOff, Ssl!CalledOff, Ssl!TimerHandler
<1>5. a \in TlsItem /\ a \in Leaving /\ \A j : a \in Of(j) <=> j = "shutdown_timer"
  BY <1>3, Handlers DEF TlsKind, TlsResult
<1> HIDE DEF a
<1>6. /\ handlers' \in Seq(TlsItem)
      /\ limit # "shutdown" => handlers' = p
      /\ \A S : Never(handlers', S) <=> Never(p, S) /\ (limit = "shutdown" => a \notin S)
      /\ \A S : limit # "shutdown" \/ a \notin S => (Once(handlers', S) <=> Once(p, S))
      /\ \A S : limit = "shutdown" /\ a \in S => (Once(handlers', S) <=> Never(p, S))
  <2> DEFINE c == limit = "shutdown"
  <2> HIDE DEF c, p
  <2>1. c \in BOOLEAN
    BY DEF c
  <2>2. /\ p \o Ssl!If(c, a) \in Seq(TlsItem)
        /\ ~c => p \o Ssl!If(c, a) = p
        /\ \A S : Never(p \o Ssl!If(c, a), S) <=> Never(p, S) /\ (c => a \notin S)
        /\ \A S : ~c \/ a \notin S => (Once(p \o Ssl!If(c, a), S) <=> Once(p, S))
        /\ \A S : c /\ a \in S => (Once(p \o Ssl!If(c, a), S) <=> Never(p, S))
    BY <1>1, <1>5, <2>1, AddIf
  <2>3. handlers' = p \o Ssl!If(c, a)
    BY <1>4 DEF c
  <2>4. c <=> limit = "shutdown"
    BY DEF c
  <2> QED BY <2>2, <2>3, <2>4, Zenon
<1> HIDE DEF p
<1>7. TlsTypeOK'
  BY <1>3, <1>4, <1>6 DEF TlsTypeOK
<1>8. limit' = "none" /\ Once(handlers', Leaving) /\ Leaving' = Leaving
  <2>1. CASE limit = "shutdown" /\ Never(handlers, Leaving)
    BY <1>1, <1>4, <1>5, <1>6, <2>1 DEF Leaving, Of
  <2>2. CASE limit = "none" /\ Once(handlers, Leaving)
    BY <1>1, <1>2, <1>4, <1>6, <2>2 DEF Leaving, Of
  <2> QED BY <1>3, <2>1, <2>2 DEF WhileStopping, GuardOfStop
<1>9. NextIsLast'
  <2>1. Never(handlers', Of("next")) <=> Never(p, Of("next"))
    BY <1>5, <1>6
  <2>2. CASE Never(p, Of("next"))
    BY <2>1, <2>2 DEF NextIsLast, Of
  <2>3. CASE ~Never(p, Of("next"))
    <3>1. h \notin Of("next") /\ ~Never(Tail(handlers), Of("next"))
      BY <1>2, <2>3 DEF p
    <3>2. op = "none" /\ limit = "none" /\ p[Len(p)] \in Of("next")
      BY <1>1, <1>3, <3>1, NextStaysLast DEF p
    <3> QED BY <1>4, <1>6, <3>2 DEF NextIsLast, Of
  <2> QED BY <2>2, <2>3
<1>10. "timer" \in holders' => ~Never(handlers', Of("shutdown_timer"))
  BY <1>1, <1>2, <1>3, <1>4, <1>5, <1>6 DEF WhileStopping
<1>11. WhileStopping'
  <2>1. GuardOfStop'
    BY <1>8 DEF GuardOfStop
  <2>2. Never(handlers', Of("handshake"))
    BY <1>1, <1>3, <1>5, <1>6 DEF WhileStopping
  <2> QED BY <1>3, <1>4, <1>9, <1>10, <2>1, <2>2 DEF WhileStopping, Of
<1> QED BY <1>3, <1>4, <1>7, <1>11 DEF TlsInv

LEMMA RunShutdownTimerKeeps ==
    ASSUME TlsInv, Ssl!RunShutdownTimer
    PROVE  TlsInv'
<1> DEFINE h == Head(handlers)
           p == Tail(handlers)
           a == Ssl!H("close", "ok")
<1>1. /\ handlers # <<>> /\ h \in Of("shutdown_timer") /\ h \in TlsItem /\ p \in Seq(TlsItem)
      /\ \A S : Never(handlers, S) <=> h \notin S /\ Never(p, S)
      /\ \A S : h \in S => (Once(handlers, S) <=> Never(p, S))
  BY FirstTaken DEF Ssl!RunShutdownTimer, Ssl!Is
<1>2. h \in Leaving /\ \A j : h \in Of(j) <=> j = "shutdown_timer"
  BY <1>1 DEF Leaving, Of
<1>3. phase = "stopping" /\ WhileStopping /\ TlsTypeOK
  <2>1. ~Never(handlers, Leaving)
    BY <1>1, <1>2
  <2> QED BY <1>1, <2>1 DEF TlsInv, TlsTypeOK, WhileIdle, WhileUp, WhileShaking
<1>4. /\ holders' = holders \ {"timer"} /\ handlers' = Append(p, a)
      /\ UNCHANGED <<phase, t_sock, stream, op, read, limit, flag, clear_s>>
  BY DEF Ssl!RunShutdownTimer
<1>5. a \in TlsItem /\ a \in Leaving /\ \A j : a \in Of(j) <=> j = "close"
  BY <1>3, Handlers DEF TlsKind, TlsResult
<1> HIDE DEF a
<1>6. /\ handlers' \in Seq(TlsItem)
      /\ \A S : Never(handlers', S) <=> Never(p, S) /\ a \notin S
      /\ \A S : a \in S => (Once(handlers', S) <=> Never(p, S))
  BY <1>1, <1>4, <1>5, AppendOccurs
<1> HIDE DEF p
<1>7. TlsTypeOK'
  BY <1>3, <1>4, <1>6 DEF TlsTypeOK
<1>8. limit = "none" /\ Never(p, Leaving)
  BY <1>1, <1>2, <1>3 DEF WhileStopping, GuardOfStop
<1>9. Leaving' = Leaving /\ Once(handlers', Leaving)
  BY <1>5, <1>6, <1>8 DEF Leaving, Of
<1>10. Never(p, Of("next"))
  BY <1>8 DEF Leaving, Never
<1>11. WhileStopping'
  <2>1. GuardOfStop'
    BY <1>4, <1>8, <1>9 DEF GuardOfStop
  <2>2. NextIsLast'
    BY <1>5, <1>6, <1>10 DEF NextIsLast, Of
  <2>3. Never(handlers', Of("handshake"))
    BY <1>1, <1>3, <1>5, <1>6 DEF WhileStopping
  <2>4. ~Never(handlers, Of("shutdown")) => ~Never(handlers', Of("shutdown"))
    BY <1>1, <1>2, <1>6
  <2> QED BY <1>3, <1>4, <2>1, <2>2, <2>3, <2>4 DEF WhileStopping, Of
<1> QED BY <1>3, <1>4, <1>7, <1>11 DEF TlsInv

LEMMA RunCloseKeeps ==
    ASSUME TlsInv, Ssl!RunClose
    PROVE  TlsInv'
<1> DEFINE h == Head(handlers)
           p == Tail(handlers)
           n == Ssl!H("next", "ok")
           a == Ssl!H(op, "aborted")
           q == p \o Ssl!If(op # "none", a)
<1>1. /\ handlers # <<>> /\ h \in Of("close") /\ h \in TlsItem /\ p \in Seq(TlsItem)
      /\ \A S : Never(handlers, S) <=> h \notin S /\ Never(p, S)
      /\ \A S : h \in S => (Once(handlers, S) <=> Never(p, S))
  BY FirstTaken DEF Ssl!RunClose, Ssl!Is
<1>2. h \in Leaving /\ \A j : h \in Of(j) <=> j = "close"
  BY <1>1 DEF Leaving, Of
<1>3. phase = "stopping" /\ WhileStopping /\ TlsTypeOK
  <2>1. ~Never(handlers, Leaving)
    BY <1>1, <1>2
  <2> QED BY <1>1, <2>1 DEF TlsInv, TlsTypeOK, WhileIdle, WhileUp, WhileShaking
<1>4. /\ handlers' = Append(p \o Ssl!Aborted, n)
      /\ t_sock' = FALSE /\ op' = "none" /\ read' = FALSE
      /\ UNCHANGED <<phase, stream, limit, flag, clear_s, holders>>
  BY DEF Ssl!RunClose, Ssl!CloseSocket
<1>5. n \in TlsItem /\ n \in Leaving /\ \A j : n \in Of(j) <=> j = "next"
  BY <1>3, Handlers DEF TlsKind, TlsResult
<1>6. /\ op # "none" => a \in TlsItem /\ \A j : a \in Of(j) <=> j = op
      /\ q \in Seq(TlsItem) /\ p \o Ssl!Aborted = q
  <2>1. ~read
    BY <1>3 DEF WhileStopping
  <2>2. /\ op # "none" => a \in TlsItem /\ \A j : a \in Of(j) <=> j = op
        /\ q \in Seq(TlsItem) /\ p \o Ssl!Aborted = q \o Ssl!If(read, Ssl!H("read", "aborted"))
    BY <1>1, <1>3, AbortedOccurs
  <2> HIDE DEF q
  <2>3. q \o Ssl!If(read, Ssl!H("read", "aborted")) = q
    BY <2>1, <2>2, ConcatEmptySeq DEF Ssl!If
  <2> QED BY <2>2, <2>3
<1> HIDE DEF n, a, p
<1>7. \A S : Never(q, S) <=> Never(p, S) /\ (op # "none" => a \notin S)
  <2>1. (op # "none") \in BOOLEAN
    OBVIOUS
  <2> QED BY <1>1, <1>6, <2>1, AddIf, Zenon
<1> HIDE DEF q
<1>8. /\ handlers' \in Seq(TlsItem) /\ handlers' = Append(q, n)
      /\ \A S : Never(handlers', S) <=> Never(q, S) /\ n \notin S
      /\ \A S : n \in S => (Once(handlers', S) <=> Never(q, S))
  BY <1>4, <1>5, <1>6, AppendOccurs
<1>9. TlsTypeOK'
  BY <1>3, <1>4, <1>8 DEF TlsTypeOK
<1>10. limit = "none" /\ Never(p, Leaving) /\ (op = "none" \/ op = "shutdown")
  BY <1>1, <1>2, <1>3 DEF WhileStopping, GuardOfStop, TlsTypeOK
<1>11. Leaving' = Leaving /\ Once(handlers', Leaving)
  <2>1. Never(q, Leaving)
    BY <1>6, <1>7, <1>10 DEF Leaving
  <2> QED BY <1>5, <1>8, <2>1 DEF Leaving, Of
<1>12. WhileStopping'
  <2>1. GuardOfStop'
    BY <1>4, <1>10, <1>11 DEF GuardOfStop
  <2>2. NextIsLast'
    <3>1. handlers'[Len(handlers')] = n
      BY <1>5, <1>6, <1>8, AppendProperties
    <3> QED BY <1>4, <1>5, <3>1 DEF NextIsLast, Of
  <2>3. Never(handlers', Of("handshake"))
    BY <1>1, <1>3, <1>5, <1>6, <1>7, <1>8, <1>10 DEF WhileStopping
  <2>4. op = "shutdown" \/ ~Never(handlers, Of("shutdown")) => ~Never(handlers', Of("shutdown"))
    BY <1>1, <1>2, <1>6, <1>7, <1>8
  <2>5. ~Never(handlers, Of("shutdown_timer")) => ~Never(handlers', Of("shutdown_timer"))
    BY <1>1, <1>2, <1>7, <1>8
  <2> QED BY <1>3, <1>4, <1>10, <2>1, <2>2, <2>3, <2>4, <2>5 DEF WhileStopping, Of
<1> QED BY <1>3, <1>4, <1>9, <1>12 DEF TlsInv

(* The next event finds everything of the attempt gone.                    *)
LEMMA RunNextKeeps ==
    ASSUME TlsInv, Ssl!RunNext
    PROVE  TlsInv'
<1> DEFINE p == Tail(handlers)
<1>1. /\ handlers # <<>> /\ Head(handlers) \in Of("next") /\ p \in Seq(TlsItem)
      /\ \A S : Never(handlers, S) <=> Head(handlers) \notin S /\ Never(p, S)
      /\ \A S : Head(handlers) \in S => (Once(handlers, S) <=> Never(p, S))
  BY FirstTaken DEF Ssl!RunNext, Ssl!Is
<1>2. Head(handlers) \in Leaving
  BY <1>1 DEF Leaving
<1>3. phase = "stopping" /\ WhileStopping /\ TlsTypeOK
  <2>1. ~Never(handlers, Leaving)
    BY <1>1, <1>2
  <2> QED BY <1>1, <2>1 DEF TlsInv, TlsTypeOK, WhileIdle, WhileUp, WhileShaking
<1>4. phase' = "idle" /\ handlers' = p
      /\ UNCHANGED <<t_sock, stream, op, read, limit, flag, clear_s, holders>>
  BY DEF Ssl!RunNext
<1>5. op = "none" /\ handlers[Len(handlers)] \in Of("next") /\ limit = "none" /\ Never(p, Leaving)
  <2>1. ~Never(handlers, Of("next"))
    BY <1>1
  <2> QED BY <1>1, <1>2, <1>3, <2>1 DEF WhileStopping, GuardOfStop, NextIsLast
<1>6. p = <<>>
  <2> SUFFICES ASSUME p # <<>> PROVE FALSE
    OBVIOUS
  <2>1. p[Len(p)] \in Leaving
    BY <1>1, <1>3, <1>5, TailKeepsLast DEF Leaving, TlsTypeOK
  <2>2. Len(p) \in DOMAIN p
    BY <1>1
  <2> QED BY <1>5, <2>1, <2>2 DEF Never
<1>7. holders = {}
  <2>1. Never(handlers, Of("shutdown")) /\ Never(handlers, Of("shutdown_timer"))
    BY <1>1, <1>6, EmptyOccurs DEF Of
  <2> QED BY <1>3, <1>5, <2>1 DEF WhileStopping, TlsTypeOK
<1>8. TlsTypeOK'
  BY <1>1, <1>3, <1>4 DEF TlsTypeOK
<1>9. WhileIdle'
  BY <1>3, <1>4, <1>5, <1>6, <1>7 DEF WhileIdle, WhileStopping
<1> QED BY <1>4, <1>8, <1>9 DEF TlsInv

LEMMA TlsNextInv == TlsInv /\ [Ssl!Next]_(Ssl!vars) => TlsInv'
<1> SUFFICES ASSUME TlsInv, [Ssl!Next]_(Ssl!vars) PROVE TlsInv'
  OBVIOUS
<1>1. CASE Ssl!Next
  BY <1>1, ConnectKeeps, StopKeeps, ReceiveKeeps, ExpireKeeps, AnswerKeeps, RunReadKeeps,
     RunHandshakeKeeps, RunHandshakeTimerKeeps, RunShutdownKeeps, RunShutdownTimerKeeps,
     RunCloseKeeps, RunNextKeeps DEF Ssl!Next, Ssl!Run
<1>2. CASE UNCHANGED Ssl!vars
  BY <1>2 DEF Ssl!vars, TlsInv, TlsTypeOK, WhileIdle, WhileShaking, WhileUp, WhileStopping,
     GuardOfStop, NextIsLast, Leaving, Of, Old
<1> QED BY <1>1, <1>2

(* SSL_clear_ptr is only held while its stream is being stopped.           *)
ClearStep == holders # {} /\ holders' = {} => clear_s = stream
UpStep == phase # "up" /\ phase' = "up" => t_sock'

LEMMA TlsSteps == TlsInv /\ [Ssl!Next]_(Ssl!vars) => ClearStep /\ UpStep
<1> SUFFICES ASSUME TlsInv, [Ssl!Next]_(Ssl!vars) PROVE ClearStep /\ UpStep
  OBVIOUS
<1>1. ClearStep
  BY DEF ClearStep, TlsInv, TlsTypeOK, WhileIdle, WhileShaking, WhileUp, WhileStopping
<1>2. UpStep
  <2>1. CASE Ssl!RunHandshake
    BY <2>1, RunHandshakeKeeps DEF UpStep
  <2>2. CASE ~Ssl!RunHandshake
    <3>1. ASSUME NEW rest, Ssl!SslStop(rest) PROVE phase' = "stopping"
      BY <3>1 DEF Ssl!SslStop
    <3>2. phase' \in {phase, "handshake", "stopping", "idle"}
      BY <2>2, <3>1 DEF Ssl!vars, Ssl!Next, Ssl!Run, Ssl!Connect, Ssl!Stop, Ssl!Receive, Ssl!Expire,
         Ssl!Answer, Ssl!RunRead, Ssl!RunHandshakeTimer, Ssl!RunShutdown, Ssl!RunShutdownTimer,
         Ssl!RunClose, Ssl!RunNext
    <3> QED BY <3>2 DEF UpStep
  <2> QED BY <2>1, <2>2
<1> QED BY <1>1, <1>2

-----------------------------------------------------------------------------
(* Where in a sequence something of a set is, and how many places that     *)
(* makes.                                                                  *)
Places(q, S) == {i \in DOMAIN q : q[i] \in S}

LEMMA PlacesAreFinite ==
    ASSUME NEW T, NEW q \in Seq(T), NEW S
    PROVE  IsFiniteSet(Places(q, S)) /\ Cardinality(Places(q, S)) \in Nat
<1>1. IsFiniteSet(1..Len(q)) /\ Places(q, S) \subseteq 1..Len(q)
  BY FS_Interval DEF Places
<1> QED BY <1>1, FS_Subset, FS_CardinalityType

LEMMA PlacesOfAppend ==
    ASSUME NEW T, NEW q \in Seq(T), NEW e \in T, NEW S
    PROVE  Cardinality(Places(Append(q, e), S)) =
             IF e \in S THEN Cardinality(Places(q, S)) + 1 ELSE Cardinality(Places(q, S))
<1>1. /\ Len(q) \in Nat /\ DOMAIN q = 1..Len(q) /\ DOMAIN Append(q, e) = 1..(Len(q) + 1)
      /\ \A i \in 1..Len(q) : Append(q, e)[i] = q[i]
      /\ Append(q, e)[Len(q) + 1] = e
  BY AppendProperties
<1>2. Places(Append(q, e), S) = IF e \in S THEN Places(q, S) \cup {Len(q) + 1} ELSE Places(q, S)
  BY <1>1 DEF Places
<1>3. Len(q) + 1 \notin Places(q, S)
  BY <1>1 DEF Places
<1> QED BY <1>2, <1>3, PlacesAreFinite, FS_AddElement

LEMMA PlacesOfTail ==
    ASSUME NEW T, NEW q \in Seq(T), q # <<>>, NEW S
    PROVE  Cardinality(Places(Tail(q), S)) =
             IF Head(q) \in S THEN Cardinality(Places(q, S)) - 1 ELSE Cardinality(Places(q, S))
<1> DEFINE p == Tail(q)
           Later == Places(q, S) \ {1}
           f == [i \in Places(p, S) |-> i + 1]
<1>1. /\ p \in Seq(T) /\ Len(p) \in Nat /\ Len(q) = Len(p) + 1
      /\ DOMAIN q = 1..(Len(p) + 1) /\ DOMAIN p = 1..Len(p)
      /\ \A i \in 1..Len(p) : p[i] = q[i + 1]
      /\ q[1] = Head(q)
  BY HeadTailProperties, LenProperties
<1> HIDE DEF p
<1>2. IsFiniteSet(Places(p, S)) /\ IsFiniteSet(Places(q, S))
  BY <1>1, PlacesAreFinite
<1>3. f \in Bijection(Places(p, S), Later)
  <2>1. f \in [Places(p, S) -> Later]
    BY <1>1 DEF Places
  <2>2. \A a, b \in Places(p, S) : f[a] = f[b] => a = b
    BY <1>1 DEF Places
  <2>3. ASSUME NEW t \in Later PROVE \E s \in Places(p, S) : f[s] = t
    <3>1. t - 1 \in Places(p, S) /\ (t - 1) + 1 = t
      BY <1>1, <2>3 DEF Places
    <3> QED BY <3>1
  <2> HIDE DEF f, Later
  <2> QED BY <2>1, <2>2, <2>3, Fun_IsBij
<1>4. Cardinality(Later) = Cardinality(Places(p, S))
  BY <1>2, <1>3, FS_Bijection DEF ExistsBijection
<1>5. Cardinality(Later) =
        IF 1 \in Places(q, S) THEN Cardinality(Places(q, S)) - 1 ELSE Cardinality(Places(q, S))
  BY <1>2, FS_RemoveElement
<1>6. 1 \in Places(q, S) <=> Head(q) \in S
  BY <1>1 DEF Places
<1> QED BY <1>4, <1>5, <1>6 DEF p

LEMMA PlacesOfConcat ==
    ASSUME NEW T, NEW q \in Seq(T), NEW r \in Seq(T), NEW S, Never(r, S)
    PROVE  Places(q \o r, S) = Places(q, S)
<1>1. /\ Len(q) \in Nat /\ Len(r) \in Nat /\ DOMAIN q = 1..Len(q) /\ DOMAIN r = 1..Len(r)
      /\ DOMAIN (q \o r) = 1..(Len(q) + Len(r))
      /\ \A i \in 1..Len(q) : (q \o r)[i] = q[i]
      /\ \A i \in 1..Len(r) : (q \o r)[Len(q) + i] = r[i]
  BY ConcatProperties, LenProperties
<1>2. ASSUME NEW i \in 1..(Len(q) + Len(r)), i \notin 1..Len(q) PROVE (q \o r)[i] \notin S
  <2>1. i - Len(q) \in 1..Len(r) /\ Len(q) + (i - Len(q)) = i
    BY <1>1, <1>2
  <2> QED BY <1>1, <2>1 DEF Never
<1>3. \A i : i \in Places(q \o r, S) <=> i \in Places(q, S)
  BY <1>1, <1>2 DEF Places
<1> QED BY <1>3

(* A set as a sequence: everything of it once.                             *)
LEMMA SetToSeqOccurs ==
    ASSUME NEW T, NEW U \in SUBSET T, IsFiniteSet(U)
    PROVE  /\ Tim!SetToSeq(U) \in Seq(T)
           /\ \A S : Never(Tim!SetToSeq(U), S) <=> S \cap U = {}
           /\ \A S : (\E e : S \cap U = {e}) => Once(Tim!SetToSeq(U), S)
<1> DEFINE n == Cardinality(U)
           r == Tim!SetToSeq(U)
<1>1. n \in Nat /\ ExistsBijection(1..n, U)
  BY FS_CardinalityType
<1>4. Tim!Cardinality(U) = n
  BY DEF Tim!Cardinality, Cardinality
<1> HIDE DEF n
<1>2. PICK f : f \in Bijection(1..n, U)
  BY <1>1 DEF ExistsBijection
<1>3. f \in [1..n -> U] /\ \A a, b \in 1..n : f[a] = f[b] => a = b
  BY <1>2 DEF Bijection, Injection, IsInjective
<1>5. r \in [1..n -> U] /\ \A a, b \in 1..n : r[a] = r[b] => a = b
  <2>1. r = CHOOSE g \in [1..n -> U] : Tim!IsInjective(g)
    BY <1>4 DEF Tim!SetToSeq
  <2>2. Tim!IsInjective(f)
    BY <1>3 DEF Tim!IsInjective
  <2> HIDE DEF r
  <2>3. r \in [1..n -> U] /\ Tim!IsInjective(r)
    BY <1>3, <2>1, <2>2
  <2> QED BY <2>3 DEF Tim!IsInjective
<1> HIDE DEF r
<1>6. \A e \in U : \E i \in 1..n : r[i] = e
  <2>1. r \in Injection(1..n, U)
    BY <1>5, Fun_IsInj
  <2>2. IsFiniteSet(1..n) /\ Cardinality(1..n) = n
    BY <1>1, FS_Interval
  <2>3. r \in Surjection(1..n, U)
    BY <2>1, <2>2, FS_Injection DEF n
  <2> QED BY <2>3 DEF Surjection
<1>7. r \in Seq(T) /\ DOMAIN r = 1..n
  <2>1. r \in [1..n -> T]
    BY <1>5
  <2> QED BY <1>1, <2>1, SeqDef
<1>8. ASSUME NEW S PROVE Never(r, S) <=> S \cap U = {}
  BY <1>5, <1>6, <1>7 DEF Never
<1>9. ASSUME NEW S, NEW e, S \cap U = {e} PROVE Once(r, S)
  <2>1. PICK i \in 1..n : r[i] = e
    BY <1>6, <1>9
  <2>2. \A j \in 1..n : r[j] \in S => r[j] = e
    BY <1>5, <1>9
  <2> QED BY <1>5, <1>7, <1>9, <2>1, <2>2 DEF Once
<1> QED BY <1>7, <1>8, <1>9 DEF r

-----------------------------------------------------------------------------
(***************************************************************************)
(* Timers, for any number of ids, timers and calls.  A wait that has ended *)
(* has one handler among those that are ready, and no other wait has one   *)
(* (OneHandler); the beginning of the wait for an event is posted once     *)
(* (OneBeginning); user_timers_ and the timers that go on name each other  *)
(* (NamesAgree); what has been posted finds room (RoomLeft).               *)
(***************************************************************************)
TimKind == {"start", "stop", "stop_all", "task", "stop_tasks", "event", "notify",
            "notify_all", "unreg", "cancel", "fired", "aborted"}
TimItem == [h : TimKind, x : Id \cup Tim!Obj \cup {Tim!None}, n : 0..2]
TimObj == [kind : {"none", "timer", "task", "event"}, id : Id \cup {Tim!None}, repeat : Int,
           exited : BOOLEAN, notified : BOOLEAN, at : {"new", "armed", "queued", "dead"}]

TimTypeOK ==
    /\ inbox \in Seq(TimItem) /\ obj \in [Tim!Obj -> TimObj]
    /\ user_timers \in [Id -> Tim!Obj \cup {Tim!None}] /\ timers \in SUBSET Tim!Obj

HandlersOf(o) == {e \in TimItem : e.h \in {"fired", "aborted"} /\ e.x = o}
BeginningOf(o) == {e \in TimItem : e.h = "event" /\ e.x = o}
Makers == {e \in TimItem : e.h \in {"start", "task"}}

OneHandler ==
    \A o \in Tim!Obj : IF obj[o].at = "queued" THEN Once(inbox, HandlersOf(o))
                                               ELSE Never(inbox, HandlersOf(o))

OneBeginning ==
    \A o \in Tim!Obj : IF obj[o].at = "new" THEN Once(inbox, BeginningOf(o))
                                            ELSE Never(inbox, BeginningOf(o))

KindsAgree ==
    \A o \in Tim!Obj :
        /\ obj[o].at = "new" => obj[o].kind = "event"
        /\ obj[o].exited => obj[o].kind = "timer" /\ obj[o].at # "armed"
        /\ obj[o].kind = "none" => obj[o] = Tim!Dead

NamesAgree ==
    /\ \A o \in Tim!Obj : obj[o].kind = "timer" =>
          obj[o].id \in Id /\ (obj[o].exited \/ user_timers[obj[o].id] = o)
    /\ \A i \in Id : user_timers[i] # Tim!None =>
          /\ obj[user_timers[i]].kind = "timer" /\ obj[user_timers[i]].id = i
          /\ ~obj[user_timers[i]].exited

RoomLeft == Cardinality(Places(inbox, Makers)) <= Cardinality(Tim!Free)

TimInv == TimTypeOK /\ OneHandler /\ OneBeginning /\ KindsAgree /\ NamesAgree /\ RoomLeft

LEMMA TimObjFinite ==
    IsFiniteSet(Tim!Obj) /\ Tim!None \notin Tim!Obj /\ Tim!Obj \subseteq Nat
  BY WorkAssumption, FS_Interval DEF Tim!Obj, Tim!None

LEMMA DeadIs ==
    /\ Tim!Dead.kind = "none" /\ Tim!Dead.at = "dead" /\ Tim!Dead.exited = FALSE
    /\ Tim!Dead \in TimObj
  BY DEF Tim!Dead, TimObj, Tim!None

LEMMA TimItems ==
    ASSUME NEW k \in TimKind, NEW x \in Id \cup Tim!Obj \cup {Tim!None}, NEW n \in 0..2
    PROVE  /\ Tim!H(k, x, n) \in TimItem
           /\ \A o : Tim!H(k, x, n) \in HandlersOf(o) <=> k \in {"fired", "aborted"} /\ x = o
           /\ \A o : Tim!H(k, x, n) \in BeginningOf(o) <=> k = "event" /\ x = o
           /\ Tim!H(k, x, n) \in Makers <=> k \in {"start", "task"}
           /\ \A o : k # "notify" \/ x # o => Tim!H(k, x, n) \notin {Tim!H("notify", o, 0)}
<1>1. Tim!H(k, x, n) \in TimItem /\ Tim!H(k, x, n).h = k /\ Tim!H(k, x, n).x = x
  BY DEF TimItem, Tim!H
<1>2. \A o : k # "notify" \/ x # o => Tim!H(k, x, n) # Tim!H("notify", o, 0)
  BY DEF Tim!H
<1> QED BY <1>1, <1>2 DEF HandlersOf, BeginningOf, Makers

LEMMA RoomIs ==
    ASSUME TimTypeOK
    PROVE  /\ Tim!Coming = Cardinality(Places(inbox, Makers))
           /\ Tim!Cardinality(Tim!Free) = Cardinality(Tim!Free)
           /\ IsFiniteSet(Tim!Free) /\ Tim!Free \subseteq Tim!Obj
           /\ Cardinality(Tim!Free) \in Nat /\ Tim!Coming \in Nat
           /\ \A o \in Tim!Obj : o \in Tim!Free <=>
                 obj[o] = Tim!Dead /\ Never(inbox, {Tim!H("notify", o, 0)})
<1>1. {k \in DOMAIN inbox : inbox[k].h \in {"start", "task"}} = Places(inbox, Makers)
  BY DEF TimTypeOK, Places, Makers
<1>2. Tim!Coming = Cardinality(Places(inbox, Makers))
  <2>1. Tim!Coming = Tim!Cardinality(Places(inbox, Makers))
    BY <1>1 DEF Tim!Coming
  <2> QED BY <2>1 DEF Tim!Cardinality, Cardinality
<1>3. Tim!Cardinality(Tim!Free) = Cardinality(Tim!Free)
  BY DEF Tim!Cardinality, Cardinality
<1>4. Tim!Free \subseteq Tim!Obj
  BY DEF Tim!Free
<1>5. IsFiniteSet(Tim!Free) /\ Cardinality(Tim!Free) \in Nat
  BY <1>4, TimObjFinite, FS_Subset, FS_CardinalityType
<1>6. Tim!Coming \in Nat
  BY <1>2, PlacesAreFinite DEF TimTypeOK
<1>7. \A o \in Tim!Obj : o \in Tim!Free <=>
         obj[o] = Tim!Dead /\ Never(inbox, {Tim!H("notify", o, 0)})
  BY DEF Tim!Free, Never
<1> QED BY <1>2, <1>3, <1>4, <1>5, <1>6, <1>7

LEMMA TimInitInv == Tim!Init => TimInv
<1> SUFFICES ASSUME Tim!Init PROVE TimInv
  OBVIOUS
<1>1. /\ inbox = <<>> /\ \A o \in Tim!Obj : obj[o] = Tim!Dead
      /\ \A i \in Id : user_timers[i] = Tim!None
  BY DEF Tim!Init
<1>2. TimTypeOK
  <2>1. <<>> \in Seq(TimItem)
    OBVIOUS
  <2> QED BY <2>1, DeadIs DEF Tim!Init, TimTypeOK
<1>3. OneHandler /\ OneBeginning
  BY <1>1, DeadIs, EmptyOccurs DEF OneHandler, OneBeginning
<1>4. KindsAgree /\ NamesAgree
  BY <1>1, DeadIs DEF KindsAgree, NamesAgree
<1>5. RoomLeft
  <2>1. Places(inbox, Makers) = {}
    BY <1>1 DEF Places
  <2> QED BY <1>2, <2>1, FS_EmptySet, RoomIs DEF RoomLeft
<1> QED BY <1>2, <1>3, <1>4, <1>5 DEF TimInv

-----------------------------------------------------------------------------
(* Room is given back, or all but what is in D is.                         *)
LEMMA FreeGrows ==
    ASSUME TimTypeOK, NEW D,
           \A o \in Tim!Free \ D : obj'[o] = Tim!Dead /\ Never(inbox', {Tim!H("notify", o, 0)})
    PROVE  Cardinality(Tim!Free \ D) <= Cardinality(Tim!Free')
<1>1. Tim!Free \ D \subseteq Tim!Free'
  BY DEF Tim!Free, Never
<1>2. Tim!Free' \subseteq Tim!Obj
  BY DEF Tim!Free
<1>3. IsFiniteSet(Tim!Free')
  BY <1>2, TimObjFinite, FS_Subset
<1> QED BY <1>1, <1>3, FS_Subset

(* Something is posted, and no wait has ended.                             *)
LEMMA PostedKeeps ==
    ASSUME TimInv, inbox' \in Seq(TimItem), obj' \in [Tim!Obj -> TimObj],
           UNCHANGED <<user_timers, timers>>,
           \A p \in Tim!Obj : /\ obj'[p].kind = obj[p].kind /\ obj'[p].id = obj[p].id
                              /\ obj'[p].exited = obj[p].exited /\ obj'[p].at = obj[p].at
                              /\ obj[p] = Tim!Dead => obj'[p] = Tim!Dead,
           \A o \in Tim!Obj : /\ Never(inbox', HandlersOf(o)) <=> Never(inbox, HandlersOf(o))
                              /\ Once(inbox', HandlersOf(o)) <=> Once(inbox, HandlersOf(o))
                              /\ Never(inbox', BeginningOf(o)) <=> Never(inbox, BeginningOf(o))
                              /\ Once(inbox', BeginningOf(o)) <=> Once(inbox, BeginningOf(o)),
           \A o \in Tim!Free : Never(inbox', {Tim!H("notify", o, 0)}),
           Cardinality(Places(inbox', Makers)) <= Cardinality(Tim!Free)
    PROVE  TimInv'
<1>1. TimTypeOK' /\ TimTypeOK
  BY DEF TimInv, TimTypeOK
<1>2. OneHandler'
  BY DEF TimInv, OneHandler
<1>3. OneBeginning'
  BY DEF TimInv, OneBeginning
<1>4. KindsAgree'
  BY DEF TimInv, KindsAgree
<1>5. NamesAgree'
  <2>1. \A i \in Id : user_timers[i] # Tim!None => user_timers[i] \in Tim!Obj
    BY <1>1 DEF TimTypeOK
  <2> QED BY <2>1 DEF TimInv, NamesAgree
<1>6. RoomLeft'
  <2>1. \A o \in Tim!Free \ {} : obj'[o] = Tim!Dead /\ Never(inbox', {Tim!H("notify", o, 0)})
    BY <1>1, RoomIs
  <2>2. Cardinality(Tim!Free \ {}) <= Cardinality(Tim!Free') /\ Tim!Free \ {} = Tim!Free
    BY <1>1, <2>1, FreeGrows
  <2>3. Cardinality(Places(inbox', Makers)) \in Nat
    BY PlacesAreFinite
  <2>4. Cardinality(Tim!Free) \in Nat /\ Cardinality(Tim!Free') \in Nat
    <3>1. Tim!Free' \subseteq Tim!Obj
      BY DEF Tim!Free
    <3> QED BY <1>1, <3>1, RoomIs, TimObjFinite, FS_Subset, FS_CardinalityType
  <2> QED BY <2>2, <2>3, <2>4 DEF RoomLeft
<1> QED BY <1>1, <1>2, <1>3, <1>4, <1>5, <1>6 DEF TimInv

(* One item is posted: not the end of a wait nor its beginning.            *)
LEMMA AppendKeeps ==
    ASSUME TimInv, NEW k \in TimKind \ {"fired", "aborted", "event"},
           NEW x \in Id \cup Tim!Obj \cup {Tim!None}, NEW n \in 0..2,
           inbox' = Append(inbox, Tim!H(k, x, n)), obj' \in [Tim!Obj -> TimObj],
           UNCHANGED <<user_timers, timers>>,
           \A p \in Tim!Obj : /\ obj'[p].kind = obj[p].kind /\ obj'[p].id = obj[p].id
                              /\ obj'[p].exited = obj[p].exited /\ obj'[p].at = obj[p].at
                              /\ obj[p] = Tim!Dead => obj'[p] = Tim!Dead,
           k = "notify" => x \notin Tim!Free,
           k \in {"start", "task"} => Tim!Coming < Cardinality(Tim!Free)
    PROVE  TimInv'
<1> DEFINE e == Tim!H(k, x, n)
<1>1. /\ e \in TimItem
      /\ \A o : e \notin HandlersOf(o) /\ e \notin BeginningOf(o)
      /\ e \in Makers <=> k \in {"start", "task"}
      /\ \A o \in Tim!Free : e \notin {Tim!H("notify", o, 0)}
  BY TimItems
<1>2. inbox' = Append(inbox, e) /\ TimTypeOK
  BY DEF TimInv
<1> HIDE DEF e
<1>3. /\ inbox' \in Seq(TimItem)
      /\ \A S : Never(inbox', S) <=> Never(inbox, S) /\ e \notin S
      /\ \A S : e \notin S => (Once(inbox', S) <=> Once(inbox, S))
  BY <1>1, <1>2, AppendOccurs DEF TimTypeOK
<1>4. Cardinality(Places(inbox', Makers)) <= Cardinality(Tim!Free)
  <2>1. Cardinality(Places(inbox', Makers)) = IF e \in Makers THEN Tim!Coming + 1 ELSE Tim!Coming
    BY <1>1, <1>2, PlacesOfAppend, RoomIs DEF TimTypeOK
  <2>2. Tim!Coming <= Cardinality(Tim!Free) /\ Tim!Coming \in Nat /\ Cardinality(Tim!Free) \in Nat
    BY <1>2, RoomIs DEF TimInv, RoomLeft
  <2> QED BY <1>1, <2>1, <2>2
<1>5. \A o \in Tim!Free : Never(inbox', {Tim!H("notify", o, 0)})
  BY <1>1, <1>2, <1>3, RoomIs
<1>6. \A o \in Tim!Obj : /\ Never(inbox', HandlersOf(o)) <=> Never(inbox, HandlersOf(o))
                         /\ Once(inbox', HandlersOf(o)) <=> Once(inbox, HandlersOf(o))
                         /\ Never(inbox', BeginningOf(o)) <=> Never(inbox, BeginningOf(o))
                         /\ Once(inbox', BeginningOf(o)) <=> Once(inbox, BeginningOf(o))
  BY <1>1, <1>3
<1> QED BY <1>3, <1>4, <1>5, <1>6, PostedKeeps

LEMMA PostsKeep ==
    ASSUME TimInv, \/ \E i \in Id : Tim!stop_timer(i) \/ \E n \in {1, Tim!Forever} : Tim!start_timer(i, n)
                   \/ Tim!post_delayed \/ Tim!CancelAll
    PROVE  TimInv'
<1>1. TimTypeOK /\ Tim!Cardinality(Tim!Free) = Cardinality(Tim!Free)
      /\ Tim!Coming \in Nat /\ Cardinality(Tim!Free) \in Nat
  BY RoomIs DEF TimInv
<1>2. ASSUME NEW k \in {"start", "stop", "task", "cancel"},
             NEW x \in Id \cup {Tim!None}, NEW n \in 0..2, inbox' = Append(inbox, Tim!H(k, x, n)),
             UNCHANGED <<obj, user_timers, timers>>,
             k \in {"start", "task"} => Tim!Cardinality(Tim!Free) > Tim!Coming
      PROVE  TimInv'
  <2>1. /\ k \in TimKind \ {"fired", "aborted", "event"} /\ k # "notify"
        /\ x \in Id \cup Tim!Obj \cup {Tim!None}
    BY <1>2 DEF TimKind
  <2>2. k \in {"start", "task"} => Tim!Coming < Cardinality(Tim!Free)
    BY <1>1, <1>2
  <2>3. obj' \in [Tim!Obj -> TimObj]
    BY <1>1, <1>2 DEF TimTypeOK
  <2> QED BY <1>2, <2>1, <2>2, <2>3, AppendKeeps
<1>3. ASSUME NEW i \in Id, Tim!stop_timer(i) PROVE TimInv'
  <2>1. inbox' = Append(inbox, Tim!H("stop", i, 0)) /\ UNCHANGED <<obj, user_timers, timers>>
    BY <1>3 DEF Tim!stop_timer, Tim!Post, Tim!timerVars
  <2> QED BY <1>2, <2>1
<1>4. ASSUME NEW i \in Id, NEW n \in {1, Tim!Forever}, Tim!start_timer(i, n) PROVE TimInv'
  <2>1. /\ inbox' = Append(inbox, Tim!H("start", i, n)) /\ UNCHANGED <<obj, user_timers, timers>>
        /\ Tim!Cardinality(Tim!Free) > Tim!Coming
    BY <1>4 DEF Tim!start_timer, Tim!Post, Tim!timerVars
  <2>2. n \in 0..2
    BY DEF Tim!Forever
  <2> QED BY <1>2, <2>1, <2>2
<1>5. ASSUME Tim!post_delayed PROVE TimInv'
  <2>1. /\ inbox' = Append(inbox, Tim!H("task", Tim!None, 0)) /\ UNCHANGED <<obj, user_timers, timers>>
        /\ Tim!Cardinality(Tim!Free) > Tim!Coming
    BY <1>5 DEF Tim!post_delayed, Tim!Post, Tim!timerVars
  <2> QED BY <1>2, <2>1
<1>6. ASSUME Tim!CancelAll PROVE TimInv'
  <2>1. inbox' = Append(inbox, Tim!H("cancel", Tim!None, 0)) /\ UNCHANGED <<obj, user_timers, timers>>
    BY <1>6 DEF Tim!CancelAll, Tim!timerVars
  <2> QED BY <1>2, <2>1
<1> QED BY <1>3, <1>4, <1>5, <1>6

(* notify(), of an event that has been posted.                             *)
LEMMA NotifyKeepsTimers ==
    ASSUME TimInv, NEW o \in Tim!Obj, Tim!notify(o)
    PROVE  TimInv'
<1>1. /\ obj[o].kind = "event" /\ obj' = [obj EXCEPT ![o].notified = TRUE]
      /\ UNCHANGED <<user_timers, timers>>
      /\ inbox' = Append(inbox, Tim!H("notify", o, 0)) \/ inbox' = inbox
  BY DEF Tim!notify, Tim!timerVars
<1>2. TimTypeOK /\ o \notin Tim!Free /\ obj[o] # Tim!Dead
  BY <1>1, DeadIs, RoomIs DEF TimInv
<1>3. obj' \in [Tim!Obj -> TimObj]
  BY <1>1, <1>2 DEF TimTypeOK, TimObj
<1>4. \A p \in Tim!Obj : /\ obj'[p].kind = obj[p].kind /\ obj'[p].id = obj[p].id
                         /\ obj'[p].exited = obj[p].exited /\ obj'[p].at = obj[p].at
                         /\ obj[p] = Tim!Dead => obj'[p] = Tim!Dead
  BY <1>1, <1>2 DEF TimTypeOK, TimObj
<1>5. CASE inbox' = Append(inbox, Tim!H("notify", o, 0))
  <2>1. "notify" \in TimKind \ {"fired", "aborted", "event"} /\ 0 \in 0..2
    BY DEF TimKind
  <2> QED BY <1>1, <1>2, <1>3, <1>4, <1>5, <2>1, AppendKeeps
<1>6. CASE inbox' = inbox
  <2>1. Cardinality(Places(inbox', Makers)) <= Cardinality(Tim!Free)
    BY <1>6 DEF TimInv, RoomLeft
  <2>2. inbox' \in Seq(TimItem) /\ \A p \in Tim!Free : Never(inbox', {Tim!H("notify", p, 0)})
    BY <1>2, <1>6, RoomIs DEF TimTypeOK
  <2> QED BY <1>1, <1>3, <1>4, <1>6, <2>1, <2>2, PostedKeeps
<1> QED BY <1>1, <1>5, <1>6

-----------------------------------------------------------------------------
(* A timer, task or event takes the room of o, or all of it stays.         *)
LEMMA RoomTaken ==
    ASSUME TimInv, NEW o \in Tim!Free, inbox' \in Seq(TimItem),
           \A p \in Tim!Free \ {o} : obj'[p] = Tim!Dead /\ Never(inbox', {Tim!H("notify", p, 0)}),
           Cardinality(Places(inbox', Makers)) < Cardinality(Tim!Free)
    PROVE  RoomLeft'
<1>1. IsFiniteSet(Tim!Free) /\ Cardinality(Tim!Free) \in Nat /\ TimTypeOK
  BY RoomIs DEF TimInv
<1>2. Cardinality(Tim!Free \ {o}) <= Cardinality(Tim!Free')
  BY <1>1, FreeGrows
<1>3. Cardinality(Tim!Free \ {o}) = Cardinality(Tim!Free) - 1
  BY <1>1, FS_RemoveElement
<1>4. Cardinality(Places(inbox', Makers)) \in Nat
  BY PlacesAreFinite
<1>5. Cardinality(Tim!Free') \in Nat
  <2>1. Tim!Free' \subseteq Tim!Obj
    BY DEF Tim!Free
  <2> QED BY <2>1, TimObjFinite, FS_Subset, FS_CardinalityType
<1> QED BY <1>1, <1>2, <1>3, <1>4, <1>5 DEF RoomLeft

LEMMA RoomStays ==
    ASSUME TimInv, inbox' \in Seq(TimItem),
           \A p \in Tim!Free : obj'[p] = Tim!Dead /\ Never(inbox', {Tim!H("notify", p, 0)}),
           Cardinality(Places(inbox', Makers)) <= Cardinality(Places(inbox, Makers))
    PROVE  RoomLeft'
<1>1. IsFiniteSet(Tim!Free) /\ Cardinality(Tim!Free) \in Nat /\ TimTypeOK
  BY RoomIs DEF TimInv
<1>2. Tim!Free \ {} = Tim!Free
  OBVIOUS
<1>3. Cardinality(Tim!Free \ {}) <= Cardinality(Tim!Free')
  BY <1>1, <1>2, FreeGrows
<1>4. Cardinality(Places(inbox', Makers)) \in Nat /\ Cardinality(Places(inbox, Makers)) \in Nat
  BY <1>1, PlacesAreFinite DEF TimTypeOK
<1>5. Cardinality(Tim!Free') \in Nat
  <2>1. Tim!Free' \subseteq Tim!Obj
    BY DEF Tim!Free
  <2> QED BY <2>1, TimObjFinite, FS_Subset, FS_CardinalityType
<1> QED BY <1>1, <1>2, <1>3, <1>4, <1>5 DEF TimInv, RoomLeft

(* One of them changes.                                                    *)
LEMMA OneChanged ==
    ASSUME TimInv, NEW o \in Tim!Obj, NEW r \in TimObj, obj' = [obj EXCEPT ![o] = r],
           inbox' \in Seq(TimItem), timers' \in SUBSET Tim!Obj,
           user_timers' \in [Id -> Tim!Obj \cup {Tim!None}],
           IF r.at = "queued" THEN Once(inbox', HandlersOf(o)) ELSE Never(inbox', HandlersOf(o)),
           IF r.at = "new" THEN Once(inbox', BeginningOf(o)) ELSE Never(inbox', BeginningOf(o)),
           r.at = "new" => r.kind = "event",
           r.exited => r.kind = "timer" /\ r.at # "armed",
           r.kind = "none" => r = Tim!Dead,
           \A p \in Tim!Obj \ {o} :
              /\ Never(inbox', HandlersOf(p)) <=> Never(inbox, HandlersOf(p))
              /\ Once(inbox', HandlersOf(p)) <=> Once(inbox, HandlersOf(p))
              /\ Never(inbox', BeginningOf(p)) <=> Never(inbox, BeginningOf(p))
              /\ Once(inbox', BeginningOf(p)) <=> Once(inbox, BeginningOf(p)),
           NamesAgree', RoomLeft'
    PROVE  TimInv'
<1>1. TimTypeOK'
  BY DEF TimInv, TimTypeOK
<1>2. \A p \in Tim!Obj : obj'[p] = IF p = o THEN r ELSE obj[p]
  BY DEF TimInv, TimTypeOK
<1>3. OneHandler'
  BY <1>2 DEF TimInv, OneHandler
<1>4. OneBeginning'
  BY <1>2 DEF TimInv, OneBeginning
<1>5. KindsAgree'
  BY <1>2 DEF TimInv, KindsAgree
<1> QED BY <1>1, <1>3, <1>4, <1>5 DEF TimInv

(* It is not a user timer, or keeps its name.                              *)
LEMMA NamesStay ==
    ASSUME TimInv, NEW o \in Tim!Obj, NEW r \in TimObj, obj' = [obj EXCEPT ![o] = r],
           UNCHANGED user_timers,
           \/ obj[o].kind # "timer" /\ r.kind # "timer"
           \/ r.kind = obj[o].kind /\ r.id = obj[o].id /\ r.exited = obj[o].exited
    PROVE  NamesAgree'
<1>1. \A p \in Tim!Obj : obj'[p] = IF p = o THEN r ELSE obj[p]
  BY DEF TimInv, TimTypeOK
<1>2. \A i \in Id : user_timers[i] # Tim!None => user_timers[i] \in Tim!Obj
  BY DEF TimInv, TimTypeOK
<1> QED BY <1>1, <1>2 DEF TimInv, NamesAgree

LEMMA EventKeeps ==
    ASSUME TimInv, Tim!post_condition_event
    PROVE  TimInv'
<1> DEFINE o == CHOOSE o \in Tim!Free : TRUE
           r == [Tim!Dead EXCEPT !.kind = "event", !.at = "new"]
           e == Tim!H("event", o, 0)
<1>1. /\ Tim!Cardinality(Tim!Free) > Tim!Coming
      /\ obj' = [obj EXCEPT ![o] = r] /\ inbox' = Append(inbox, e)
      /\ UNCHANGED <<user_timers, timers>>
  BY DEF Tim!post_condition_event, Tim!timerVars
<1>2. TimTypeOK /\ Tim!Coming \in Nat /\ Cardinality(Tim!Free) \in Nat
      /\ Tim!Coming < Cardinality(Tim!Free) /\ Tim!Coming = Cardinality(Places(inbox, Makers))
  BY <1>1, RoomIs DEF TimInv
<1>3. o \in Tim!Free
  <2>1. Tim!Free # {}
    BY <1>2, FS_EmptySet
  <2> QED BY <2>1
<1> HIDE DEF o
<1>4. o \in Tim!Obj /\ obj[o] = Tim!Dead
  BY <1>2, <1>3, RoomIs
<1>5. r \in TimObj /\ r.kind = "event" /\ r.at = "new" /\ r.exited = FALSE
  BY DeadIs DEF TimObj
<1>6. /\ e \in TimItem
      /\ \A p : e \notin HandlersOf(p) /\ (e \in BeginningOf(p) <=> p = o)
      /\ e \notin Makers
      /\ \A p : e \notin {Tim!H("notify", p, 0)}
  <2>1. "event" \in TimKind /\ 0 \in 0..2
    BY DEF TimKind
  <2> QED BY <1>4, <2>1, TimItems
<1> HIDE DEF e, r
<1>7. /\ inbox' \in Seq(TimItem)
      /\ \A S : Never(inbox', S) <=> Never(inbox, S) /\ e \notin S
      /\ \A S : e \notin S => (Once(inbox', S) <=> Once(inbox, S))
      /\ \A S : e \in S => (Once(inbox', S) <=> Never(inbox, S))
  BY <1>1, <1>2, <1>6, AppendOccurs DEF TimTypeOK
<1>8. RoomLeft'
  <2>1. Cardinality(Places(inbox', Makers)) < Cardinality(Tim!Free)
    BY <1>1, <1>2, <1>6, PlacesOfAppend DEF TimTypeOK
  <2>2. \A p \in Tim!Free \ {o} : obj'[p] = Tim!Dead /\ Never(inbox', {Tim!H("notify", p, 0)})
    BY <1>1, <1>2, <1>6, <1>7, RoomIs DEF TimTypeOK
  <2> QED BY <1>3, <1>7, <2>1, <2>2, RoomTaken
<1>9. Never(inbox, HandlersOf(o)) /\ Never(inbox, BeginningOf(o))
  BY <1>4, DeadIs DEF TimInv, OneHandler, OneBeginning
<1>10. Never(inbox', HandlersOf(o)) /\ Once(inbox', BeginningOf(o))
  BY <1>6, <1>7, <1>9
<1>11. NamesAgree'
  BY <1>1, <1>4, <1>5, DeadIs, NamesStay
<1>12. timers' \in SUBSET Tim!Obj /\ user_timers' \in [Id -> Tim!Obj \cup {Tim!None}]
  BY <1>1, <1>2 DEF TimTypeOK
<1>13. \A p \in Tim!Obj \ {o} :
              /\ Never(inbox', HandlersOf(p)) <=> Never(inbox, HandlersOf(p))
              /\ Once(inbox', HandlersOf(p)) <=> Once(inbox, HandlersOf(p))
              /\ Never(inbox', BeginningOf(p)) <=> Never(inbox, BeginningOf(p))
              /\ Once(inbox', BeginningOf(p)) <=> Once(inbox, BeginningOf(p))
  BY <1>6, <1>7
<1> QED BY <1>1, <1>4, <1>5, <1>7, <1>8, <1>10, <1>11, <1>12, <1>13, OneChanged

(* stop() posts handlers that end no wait and begin none.                  *)
LEMMA StopKeepsTimers ==
    ASSUME TimInv, Tim!Stop
    PROVE  TimInv'
<1> DEFINE s == Tim!StopHandlers
<1>1. inbox' = inbox \o s /\ UNCHANGED <<obj, user_timers, timers>>
  BY DEF Tim!Stop, Tim!timerVars
<1>2. s \in Seq(TimItem)
  <2>1. \A k \in {"unreg", "stop_all", "stop_tasks", "notify_all"} : Tim!H(k, Tim!None, 0) \in TimItem
    BY DEF Tim!H, TimItem, TimKind
  <2> QED BY <2>1 DEF Tim!StopHandlers
<1>3. \A S : (\A k \in {"unreg", "stop_all", "stop_tasks", "notify_all"} : Tim!H(k, Tim!None, 0) \notin S)
             => Never(s, S)
  BY DEF Tim!StopHandlers, Never
<1>4. \A k \in {"unreg", "stop_all", "stop_tasks", "notify_all"} :
          /\ \A o : Tim!H(k, Tim!None, 0) \notin HandlersOf(o) /\ Tim!H(k, Tim!None, 0) \notin BeginningOf(o)
          /\ Tim!H(k, Tim!None, 0) \notin Makers
          /\ \A o : Tim!H(k, Tim!None, 0) \notin {Tim!H("notify", o, 0)}
  BY DEF Tim!H, HandlersOf, BeginningOf, Makers
<1> HIDE DEF s
<1>5. \A o : Never(s, HandlersOf(o)) /\ Never(s, BeginningOf(o)) /\ Never(s, {Tim!H("notify", o, 0)})
  BY <1>3, <1>4
<1>6. /\ inbox' \in Seq(TimItem)
      /\ \A S : Never(inbox', S) <=> Never(inbox, S) /\ Never(s, S)
      /\ \A S : Never(s, S) => (Once(inbox', S) <=> Once(inbox, S))
  <2>1. inbox \in Seq(TimItem)
    BY DEF TimInv, TimTypeOK
  <2>2. \A S : Never(s, S) => ~Once(s, S)
    BY OnceIsNotNever
  <2> QED BY <1>1, <1>2, <2>1, <2>2, ConcatOccurs
<1>7. Cardinality(Places(inbox', Makers)) <= Cardinality(Tim!Free)
  <2>1. Never(s, Makers)
    BY <1>3, <1>4
  <2>2. Places(inbox', Makers) = Places(inbox, Makers)
    BY <1>1, <1>2, <2>1, PlacesOfConcat DEF TimInv, TimTypeOK
  <2> QED BY <2>2 DEF TimInv, RoomLeft
<1>8. \A o \in Tim!Free : Never(inbox', {Tim!H("notify", o, 0)})
  BY <1>5, <1>6, RoomIs DEF TimInv
<1>9. \A o \in Tim!Obj : /\ Never(inbox', HandlersOf(o)) <=> Never(inbox, HandlersOf(o))
                         /\ Once(inbox', HandlersOf(o)) <=> Once(inbox, HandlersOf(o))
                         /\ Never(inbox', BeginningOf(o)) <=> Never(inbox, BeginningOf(o))
                         /\ Once(inbox', BeginningOf(o)) <=> Once(inbox, BeginningOf(o))
  BY <1>5, <1>6
<1>10. obj' \in [Tim!Obj -> TimObj]
  BY <1>1 DEF TimInv, TimTypeOK
<1> QED BY <1>1, <1>6, <1>7, <1>8, <1>9, <1>10, PostedKeeps

(* The time of a timer or a task has come.                                 *)
LEMMA ExpireKeepsTimers ==
    ASSUME TimInv, NEW o \in Tim!Obj, Tim!Expire(o)
    PROVE  TimInv'
<1> DEFINE r == [obj[o] EXCEPT !.at = "queued"]
           e == Tim!H("fired", o, 0)
<1>1. /\ obj[o].at = "armed" /\ obj[o].kind \in {"timer", "task"}
      /\ obj' = [obj EXCEPT ![o] = r] /\ inbox' = Append(inbox, e)
      /\ UNCHANGED <<user_timers, timers>>
  BY DEF Tim!Expire, Tim!timerVars, Tim!Fired
<1>2. TimTypeOK /\ obj[o] \in TimObj
  BY DEF TimInv, TimTypeOK
<1>3. r \in TimObj /\ r.kind = obj[o].kind /\ r.at = "queued" /\ r.exited = obj[o].exited
      /\ r.id = obj[o].id
  BY <1>2 DEF TimObj
<1>4. /\ e \in TimItem
      /\ \A p : e \notin BeginningOf(p) /\ (e \in HandlersOf(p) <=> p = o)
      /\ e \notin Makers
      /\ \A p : e \notin {Tim!H("notify", p, 0)}
  <2>1. "fired" \in TimKind /\ 0 \in 0..2
    BY DEF TimKind
  <2> QED BY <2>1, TimItems
<1> HIDE DEF e, r
<1>5. /\ inbox' \in Seq(TimItem)
      /\ \A S : Never(inbox', S) <=> Never(inbox, S) /\ e \notin S
      /\ \A S : e \notin S => (Once(inbox', S) <=> Once(inbox, S))
      /\ \A S : e \in S => (Once(inbox', S) <=> Never(inbox, S))
  BY <1>1, <1>2, <1>4, AppendOccurs DEF TimTypeOK
<1>6. o \notin Tim!Free
  BY <1>1, <1>2, DeadIs, RoomIs
<1>7. RoomLeft'
  <2>1. Cardinality(Places(inbox', Makers)) <= Cardinality(Places(inbox, Makers))
    <3>1. Cardinality(Places(inbox', Makers)) = Cardinality(Places(inbox, Makers))
      BY <1>1, <1>2, <1>4, PlacesOfAppend DEF TimTypeOK
    <3>2. Cardinality(Places(inbox, Makers)) \in Nat
      BY <1>2, PlacesAreFinite DEF TimTypeOK
    <3> QED BY <3>1, <3>2
  <2>2. \A p \in Tim!Free : obj'[p] = Tim!Dead /\ Never(inbox', {Tim!H("notify", p, 0)})
    BY <1>1, <1>2, <1>4, <1>5, <1>6, RoomIs DEF TimTypeOK
  <2> QED BY <1>5, <2>1, <2>2, RoomStays
<1>8. Never(inbox, HandlersOf(o)) /\ Never(inbox, BeginningOf(o))
  BY <1>1 DEF TimInv, OneHandler, OneBeginning
<1>9. Once(inbox', HandlersOf(o)) /\ Never(inbox', BeginningOf(o))
  BY <1>4, <1>5, <1>8
<1>10. NamesAgree'
  BY <1>1, <1>3, NamesStay
<1>11. r.kind \in {"timer", "task"} /\ (r.exited => r.kind = "timer")
  BY <1>1, <1>3 DEF TimInv, KindsAgree
<1>12. timers' \in SUBSET Tim!Obj /\ user_timers' \in [Id -> Tim!Obj \cup {Tim!None}]
  BY <1>1, <1>2 DEF TimTypeOK
<1>13. \A p \in Tim!Obj \ {o} :
              /\ Never(inbox', HandlersOf(p)) <=> Never(inbox, HandlersOf(p))
              /\ Once(inbox', HandlersOf(p)) <=> Once(inbox, HandlersOf(p))
              /\ Never(inbox', BeginningOf(p)) <=> Never(inbox, BeginningOf(p))
              /\ Once(inbox', BeginningOf(p)) <=> Once(inbox, BeginningOf(p))
  BY <1>4, <1>5
<1> QED BY <1>1, <1>3, <1>5, <1>7, <1>9, <1>10, <1>11, <1>12, <1>13, OneChanged

-----------------------------------------------------------------------------
(* The io_context's thread takes the first handler.                        *)
LEMMA FirstReady ==
    ASSUME TimInv, NEW k \in TimKind, NEW x \in Id \cup Tim!Obj \cup {Tim!None}, Tim!Runs(k, x)
    PROVE  /\ TimTypeOK /\ inbox # <<>> /\ Tail(inbox) \in Seq(TimItem)
           /\ Head(inbox) \in TimItem /\ Head(inbox).n \in 0..2
           /\ \A S : Never(inbox, S) <=> Head(inbox) \notin S /\ Never(Tail(inbox), S)
           /\ \A S : Head(inbox) \notin S => (Once(inbox, S) <=> Once(Tail(inbox), S))
           /\ \A S : Head(inbox) \in S => (Once(inbox, S) <=> Never(Tail(inbox), S))
           /\ \A o : Head(inbox) \in HandlersOf(o) <=> k \in {"fired", "aborted"} /\ x = o
           /\ \A o : Head(inbox) \in BeginningOf(o) <=> k = "event" /\ x = o
           /\ Cardinality(Places(inbox, Makers)) \in Nat
           /\ Cardinality(Places(Tail(inbox), Makers)) \in Nat
           /\ Cardinality(Places(Tail(inbox), Makers)) =
                IF k \in {"start", "task"} THEN Cardinality(Places(inbox, Makers)) - 1
                                           ELSE Cardinality(Places(inbox, Makers))
<1> DEFINE e == Head(inbox)
<1>1. TimTypeOK /\ inbox \in Seq(TimItem) /\ inbox # <<>> /\ e.h = k /\ e.x = x
  BY DEF TimInv, TimTypeOK, Tim!Runs
<1>2. /\ e \in TimItem /\ Tail(inbox) \in Seq(TimItem)
      /\ \A S : Never(inbox, S) <=> e \notin S /\ Never(Tail(inbox), S)
      /\ \A S : e \notin S => (Once(inbox, S) <=> Once(Tail(inbox), S))
      /\ \A S : e \in S => (Once(inbox, S) <=> Never(Tail(inbox), S))
  BY <1>1, TailOccurs
<1>3. Cardinality(Places(Tail(inbox), Makers)) =
        IF e \in Makers THEN Cardinality(Places(inbox, Makers)) - 1
                        ELSE Cardinality(Places(inbox, Makers))
  BY <1>1, PlacesOfTail
<1>4. Cardinality(Places(inbox, Makers)) \in Nat /\ Cardinality(Places(Tail(inbox), Makers)) \in Nat
  BY <1>1, <1>2, PlacesAreFinite
<1> HIDE DEF e
<1>5. e.n \in 0..2
  BY <1>2 DEF TimItem
<1>6. /\ \A o : e \in HandlersOf(o) <=> k \in {"fired", "aborted"} /\ x = o
      /\ \A o : e \in BeginningOf(o) <=> k = "event" /\ x = o
      /\ e \in Makers <=> k \in {"start", "task"}
  BY <1>1, <1>2 DEF HandlersOf, BeginningOf, Makers
<1> QED BY <1>1, <1>2, <1>3, <1>4, <1>5, <1>6 DEF e

(* A start or a task finds the room it was given when it was posted.       *)
LEMMA RoomToMake ==
    ASSUME TimInv, NEW k \in {"start", "task"}, NEW x \in Id \cup {Tim!None}, Tim!Runs(k, x)
    PROVE  /\ (CHOOSE o \in Tim!Free : TRUE) \in Tim!Free
           /\ Cardinality(Places(Tail(inbox), Makers)) < Cardinality(Tim!Free)
<1>1. k \in TimKind /\ x \in Id \cup Tim!Obj \cup {Tim!None}
  BY DEF TimKind
<1>2. /\ TimTypeOK /\ Cardinality(Places(inbox, Makers)) \in Nat
      /\ Cardinality(Places(Tail(inbox), Makers)) \in Nat
      /\ Cardinality(Places(Tail(inbox), Makers)) = Cardinality(Places(inbox, Makers)) - 1
  BY <1>1, FirstReady
<1>3. Cardinality(Tim!Free) \in Nat /\ IsFiniteSet(Tim!Free)
      /\ Cardinality(Places(inbox, Makers)) <= Cardinality(Tim!Free)
  BY <1>2, RoomIs DEF TimInv, RoomLeft
<1>4. Tim!Free # {}
  BY <1>2, <1>3, FS_EmptySet
<1> QED BY <1>2, <1>3, <1>4

LEMMA RunTaskKeeps ==
    ASSUME TimInv, Tim!RunTask
    PROVE  TimInv'
<1> DEFINE o == CHOOSE o \in Tim!Free : TRUE
           r == [Tim!Dead EXCEPT !.kind = "task", !.at = "armed", !.repeat = 1]
<1>1. /\ Tim!Runs("task", Tim!None)
      /\ obj' = [obj EXCEPT ![o] = r] /\ inbox' = Tail(inbox)
      /\ timers' = timers \cup {o} /\ UNCHANGED user_timers
  BY DEF Tim!RunTask
<1>2. /\ TimTypeOK /\ inbox' \in Seq(TimItem)
      /\ \A S : Never(inbox, S) => Never(inbox', S)
      /\ \A p : /\ Never(inbox', HandlersOf(p)) <=> Never(inbox, HandlersOf(p))
                /\ Once(inbox', HandlersOf(p)) <=> Once(inbox, HandlersOf(p))
                /\ Never(inbox', BeginningOf(p)) <=> Never(inbox, BeginningOf(p))
                /\ Once(inbox', BeginningOf(p)) <=> Once(inbox, BeginningOf(p))
  <2>1. "task" \in TimKind
    BY DEF TimKind
  <2> QED BY <1>1, <2>1, FirstReady
<1>3. o \in Tim!Free /\ Cardinality(Places(inbox', Makers)) < Cardinality(Tim!Free)
  BY <1>1, RoomToMake
<1> HIDE DEF o
<1>4. o \in Tim!Obj /\ obj[o] = Tim!Dead
  BY <1>2, <1>3, RoomIs
<1>5. r \in TimObj /\ r.kind = "task" /\ r.at = "armed" /\ r.exited = FALSE
  <2> DEFINE d == [Tim!Dead EXCEPT !.kind = "task", !.at = "armed"]
  <2>1. d \in TimObj /\ d.kind = "task" /\ d.at = "armed" /\ d.exited = FALSE
    BY DeadIs DEF TimObj
  <2>2. r = [d EXCEPT !.repeat = 1]
    OBVIOUS
  <2> HIDE DEF d, r
  <2> QED BY <2>1, <2>2 DEF TimObj
<1> HIDE DEF r
<1>6. RoomLeft'
  <2>1. \A p \in Tim!Free \ {o} : obj'[p] = Tim!Dead /\ Never(inbox', {Tim!H("notify", p, 0)})
    BY <1>1, <1>2, RoomIs DEF TimTypeOK
  <2> QED BY <1>2, <1>3, <2>1, RoomTaken
<1>7. Never(inbox', HandlersOf(o)) /\ Never(inbox', BeginningOf(o))
  BY <1>2, <1>4, DeadIs DEF TimInv, OneHandler, OneBeginning
<1>8. NamesAgree'
  BY <1>1, <1>4, <1>5, DeadIs, NamesStay
<1>9. timers' \in SUBSET Tim!Obj /\ user_timers' \in [Id -> Tim!Obj \cup {Tim!None}]
  BY <1>1, <1>2, <1>4 DEF TimTypeOK
<1> QED BY <1>1, <1>2, <1>4, <1>5, <1>6, <1>7, <1>8, <1>9, OneChanged

LEMMA RunEventKeeps ==
    ASSUME TimInv, NEW o \in Tim!Obj, Tim!RunEvent(o)
    PROVE  TimInv'
<1> DEFINE r == [obj[o] EXCEPT !.at = "armed"]
<1>1. /\ Tim!Runs("event", o)
      /\ obj' = [obj EXCEPT ![o] = r] /\ inbox' = Tail(inbox)
      /\ timers' = timers \cup {o} /\ UNCHANGED user_timers
  BY DEF Tim!RunEvent
<1>2. /\ TimTypeOK /\ inbox' \in Seq(TimItem) /\ ~Never(inbox, BeginningOf(o))
      /\ Once(inbox, BeginningOf(o)) => Never(inbox', BeginningOf(o))
      /\ \A S : Never(inbox, S) => Never(inbox', S)
      /\ \A p \in Tim!Obj \ {o} :
                /\ Never(inbox', HandlersOf(p)) <=> Never(inbox, HandlersOf(p))
                /\ Once(inbox', HandlersOf(p)) <=> Once(inbox, HandlersOf(p))
                /\ Never(inbox', BeginningOf(p)) <=> Never(inbox, BeginningOf(p))
                /\ Once(inbox', BeginningOf(p)) <=> Once(inbox, BeginningOf(p))
      /\ Cardinality(Places(inbox', Makers)) <= Cardinality(Places(inbox, Makers))
  <2>1. "event" \in TimKind
    BY DEF TimKind
  <2> QED BY <1>1, <2>1, FirstReady
<1>3. obj[o].at = "new" /\ obj[o] \in TimObj
  BY <1>2 DEF TimInv, OneBeginning, TimTypeOK
<1>4. Never(inbox', BeginningOf(o)) /\ Never(inbox', HandlersOf(o))
  BY <1>2, <1>3 DEF TimInv, OneBeginning, OneHandler
<1>5. obj[o].kind = "event" /\ ~obj[o].exited
  BY <1>3 DEF TimInv, KindsAgree
<1>6. r \in TimObj /\ r.kind = "event" /\ r.at = "armed" /\ r.exited = obj[o].exited
  BY <1>3, <1>5 DEF TimObj
<1> HIDE DEF r
<1>7. RoomLeft'
  <2>1. \A p \in Tim!Free : obj'[p] = Tim!Dead /\ Never(inbox', {Tim!H("notify", p, 0)})
    BY <1>1, <1>2, <1>3, DeadIs, RoomIs DEF TimTypeOK
  <2> QED BY <1>2, <2>1, RoomStays
<1>8. NamesAgree'
  BY <1>1, <1>5, <1>6, NamesStay
<1>9. timers' \in SUBSET Tim!Obj /\ user_timers' \in [Id -> Tim!Obj \cup {Tim!None}]
  BY <1>1, <1>2 DEF TimTypeOK
<1> QED BY <1>1, <1>2, <1>4, <1>5, <1>6, <1>7, <1>8, <1>9, OneChanged

LEMMA RunUnregKeeps ==
    ASSUME TimInv, Tim!RunUnreg
    PROVE  TimInv'
<1>1. /\ Tim!Runs("unreg", Tim!None) /\ inbox' = Tail(inbox)
      /\ UNCHANGED <<obj, user_timers, timers>>
  BY DEF Tim!RunUnreg
<1>2. /\ TimTypeOK /\ inbox' \in Seq(TimItem)
      /\ \A S : Never(inbox, S) => Never(inbox', S)
      /\ \A p : /\ Never(inbox', HandlersOf(p)) <=> Never(inbox, HandlersOf(p))
                /\ Once(inbox', HandlersOf(p)) <=> Once(inbox, HandlersOf(p))
                /\ Never(inbox', BeginningOf(p)) <=> Never(inbox, BeginningOf(p))
                /\ Once(inbox', BeginningOf(p)) <=> Once(inbox, BeginningOf(p))
      /\ Cardinality(Places(inbox', Makers)) = Cardinality(Places(inbox, Makers))
  <2>1. "unreg" \in TimKind
    BY DEF TimKind
  <2> QED BY <1>1, <2>1, FirstReady
<1>3. Cardinality(Places(inbox', Makers)) <= Cardinality(Tim!Free)
  BY <1>2 DEF TimInv, RoomLeft
<1>4. \A o \in Tim!Free : Never(inbox', {Tim!H("notify", o, 0)})
  BY <1>2, RoomIs
<1>5. obj' \in [Tim!Obj -> TimObj]
  BY <1>1, <1>2 DEF TimTypeOK
<1> QED BY <1>1, <1>2, <1>3, <1>4, <1>5, PostedKeeps

-----------------------------------------------------------------------------
(* The handler of a wait that has ended is the only one of it.             *)
LEMMA HandlerMeans ==
    ASSUME TimInv, NEW o \in Tim!Obj, Tim!HandlerOf(o), inbox' = Tail(inbox)
    PROVE  /\ TimTypeOK /\ obj[o] \in TimObj /\ obj[o].at = "queued" /\ inbox' \in Seq(TimItem)
           /\ Never(inbox', HandlersOf(o)) /\ Never(inbox', BeginningOf(o))
           /\ \A p \in Tim!Obj \ {o} :
                /\ Never(inbox', HandlersOf(p)) <=> Never(inbox, HandlersOf(p))
                /\ Once(inbox', HandlersOf(p)) <=> Once(inbox, HandlersOf(p))
                /\ Never(inbox', BeginningOf(p)) <=> Never(inbox, BeginningOf(p))
                /\ Once(inbox', BeginningOf(p)) <=> Once(inbox, BeginningOf(p))
           /\ Cardinality(Places(inbox', Makers)) <= Cardinality(Places(inbox, Makers))
           /\ o \notin Tim!Free
           /\ \A p \in Tim!Free : obj[p] = Tim!Dead /\ Never(inbox', {Tim!H("notify", p, 0)})
<1>1. PICK k \in {"fired", "aborted"} : Tim!Runs(k, o)
  BY DEF Tim!HandlerOf
<1>2. /\ TimTypeOK /\ inbox' \in Seq(TimItem) /\ ~Never(inbox, HandlersOf(o))
      /\ Once(inbox, HandlersOf(o)) => Never(inbox', HandlersOf(o))
      /\ \A S : Never(inbox, S) => Never(inbox', S)
      /\ \A p \in Tim!Obj \ {o} :
                /\ Never(inbox', HandlersOf(p)) <=> Never(inbox, HandlersOf(p))
                /\ Once(inbox', HandlersOf(p)) <=> Once(inbox, HandlersOf(p))
                /\ Never(inbox', BeginningOf(p)) <=> Never(inbox, BeginningOf(p))
                /\ Once(inbox', BeginningOf(p)) <=> Once(inbox, BeginningOf(p))
      /\ Cardinality(Places(inbox', Makers)) <= Cardinality(Places(inbox, Makers))
  <2>1. k \in TimKind
    BY DEF TimKind
  <2> QED BY <1>1, <2>1, FirstReady
<1>3. obj[o].at = "queued" /\ obj[o] \in TimObj
  BY <1>2 DEF TimInv, OneHandler, TimTypeOK
<1>4. Never(inbox', HandlersOf(o)) /\ Never(inbox', BeginningOf(o))
  BY <1>2, <1>3 DEF TimInv, OneBeginning, OneHandler
<1>5. o \notin Tim!Free /\ \A p \in Tim!Free : obj[p] = Tim!Dead /\ Never(inbox', {Tim!H("notify", p, 0)})
  BY <1>2, <1>3, DeadIs, RoomIs
<1> QED BY <1>2, <1>3, <1>4, <1>5

LEMMA TimerAgainKeeps ==
    ASSUME TimInv, NEW o \in Tim!Obj, Tim!TimerAgain(o)
    PROVE  TimInv'
<1> DEFINE r == [obj[o] EXCEPT !.at = "armed", !.repeat = Tim!Left(o)]
<1>1. /\ Tim!HandlerOf(o) /\ obj[o].kind = "timer" /\ ~obj[o].exited
      /\ inbox' = Tail(inbox) /\ UNCHANGED <<user_timers, timers>>
  BY DEF Tim!TimerAgain, Tim!Again, Tim!timerVars
<1>2. obj' = [obj EXCEPT ![o] = r]
  BY DEF Tim!TimerAgain
<1>3. TimTypeOK /\ obj[o] \in TimObj
  BY <1>1, HandlerMeans
<1>4. r \in TimObj /\ r.kind = "timer" /\ r.at = "armed" /\ r.exited = obj[o].exited /\ r.id = obj[o].id
  <2>1. Tim!Left(o) \in Int
    BY <1>3 DEF Tim!Left, Tim!Forever, TimObj
  <2> QED BY <1>1, <1>3, <2>1 DEF TimObj
<1> HIDE DEF r
<1>5. RoomLeft'
  <2>1. \A p \in Tim!Free : obj'[p] = Tim!Dead /\ Never(inbox', {Tim!H("notify", p, 0)})
    BY <1>1, <1>2, <1>3, HandlerMeans DEF TimTypeOK
  <2> QED BY <1>1, <2>1, HandlerMeans, RoomStays
<1>6. NamesAgree'
  BY <1>1, <1>2, <1>4, NamesStay
<1>7. timers' \in SUBSET Tim!Obj /\ user_timers' \in [Id -> Tim!Obj \cup {Tim!None}]
  BY <1>1, <1>3 DEF TimTypeOK
<1> QED BY <1>1, <1>2, <1>4, <1>5, <1>6, <1>7, HandlerMeans, OneChanged

(* A timer that goes on is forgotten by its name; one that was stopped has *)
(* none any more.                                                          *)
LEMMA WaitDoneKeeps ==
    ASSUME TimInv, NEW o \in Tim!Obj, Tim!WaitDone(o)
    PROVE  TimInv'
<1> DEFINE named == obj[o].kind = "timer" /\ ~obj[o].exited
<1>1. /\ Tim!HandlerOf(o) /\ inbox' = Tail(inbox) /\ timers' = timers \ {o}
      /\ user_timers' = IF named THEN [user_timers EXCEPT ![obj[o].id] = Tim!None] ELSE user_timers
  BY DEF Tim!WaitDone
<1>2. TimTypeOK /\ obj[o] \in TimObj
  BY <1>1, HandlerMeans
<1>3. named => obj[o].id \in Id /\ user_timers[obj[o].id] = o
  BY DEF TimInv, NamesAgree
<1>4. obj' = [obj EXCEPT ![o] = Tim!Dead]
  <2>1. obj' = [p \in Tim!Obj |-> IF p = o THEN Tim!Dead
                                  ELSE IF named /\ p = user_timers[obj[o].id]
                                       THEN [obj[p] EXCEPT !.exited = TRUE] ELSE obj[p]]
    BY DEF Tim!WaitDone
  <2>2. \A p \in Tim!Obj : obj'[p] = IF p = o THEN Tim!Dead ELSE obj[p]
    <3> HIDE DEF named
    <3> QED BY <1>3, <2>1
  <2>3. obj' \in [Tim!Obj -> TimObj]
    BY <1>2, <2>2, <2>1, DeadIs DEF TimTypeOK
  <2> QED BY <1>2, <2>2, <2>3 DEF TimTypeOK
<1>5. \A p \in Tim!Obj : obj'[p] = IF p = o THEN Tim!Dead ELSE obj[p]
  BY <1>2, <1>4 DEF TimTypeOK
<1>6. \A i \in Id : user_timers'[i] = IF user_timers[i] = o THEN Tim!None ELSE user_timers[i]
  <2>1. \A i \in Id : user_timers[i] = o => named /\ obj[o].id = i
    BY TimObjFinite DEF TimInv, NamesAgree
  <2> QED BY <1>1, <1>2, <1>3, <2>1 DEF TimTypeOK
<1>7. NamesAgree'
  <2>1. ASSUME NEW p \in Tim!Obj, obj'[p].kind = "timer"
        PROVE  obj'[p].id \in Id /\ (obj'[p].exited \/ user_timers'[obj'[p].id] = p)
    <3>1. p # o /\ obj'[p] = obj[p]
      BY <1>5, <2>1, DeadIs
    <3>2. obj[p].id \in Id /\ (obj[p].exited \/ user_timers[obj[p].id] = p)
      BY <2>1, <3>1 DEF TimInv, NamesAgree
    <3> QED BY <1>6, <3>1, <3>2
  <2>2. ASSUME NEW i \in Id, user_timers'[i] # Tim!None
        PROVE  LET p == user_timers'[i] IN obj'[p].kind = "timer" /\ obj'[p].id = i /\ ~obj'[p].exited
    <3>1. user_timers[i] # o /\ user_timers'[i] = user_timers[i] /\ user_timers[i] \in Tim!Obj
      BY <1>2, <1>6, <2>2 DEF TimTypeOK
    <3> QED BY <1>5, <2>2, <3>1 DEF TimInv, NamesAgree
  <2> QED BY <2>1, <2>2 DEF NamesAgree
<1>8. RoomLeft'
  <2>1. \A p \in Tim!Free : obj'[p] = Tim!Dead /\ Never(inbox', {Tim!H("notify", p, 0)})
    BY <1>1, <1>5, HandlerMeans, RoomIs
  <2> QED BY <1>1, <2>1, HandlerMeans, RoomStays
<1>9. timers' \in SUBSET Tim!Obj /\ user_timers' \in [Id -> Tim!Obj \cup {Tim!None}]
  <2>1. timers' \in SUBSET Tim!Obj
    BY <1>1, <1>2 DEF TimTypeOK
  <2> QED BY <1>1, <1>2, <2>1 DEF TimTypeOK
<1> QED BY <1>1, <1>4, <1>7, <1>8, <1>9, DeadIs, HandlerMeans, OneChanged

-----------------------------------------------------------------------------
(* Waits are cancelled: each that goes on ends, with a handler.            *)
LEMMA AbortedHandlersOccur ==
    ASSUME TimInv, NEW os \in SUBSET Tim!Obj
    PROVE  /\ Tim!AbortedHandlers(os) \in Seq(TimItem) /\ Tim!Armed(os) \in SUBSET os
           /\ \A o \in Tim!Armed(os) : Once(Tim!AbortedHandlers(os), HandlersOf(o))
           /\ \A o : o \notin Tim!Armed(os) => Never(Tim!AbortedHandlers(os), HandlersOf(o))
           /\ \A o : Never(Tim!AbortedHandlers(os), BeginningOf(o))
           /\ \A o : Never(Tim!AbortedHandlers(os), {Tim!H("notify", o, 0)})
           /\ Never(Tim!AbortedHandlers(os), Makers)
<1> DEFINE A == Tim!Armed(os)
           U == {Tim!Aborted(o) : o \in A}
<1>1. A \in SUBSET os
  BY DEF Tim!Armed
<1>2. \A o \in Tim!Obj :
         /\ Tim!Aborted(o) \in TimItem
         /\ \A p : Tim!Aborted(o) \in HandlersOf(p) <=> p = o
         /\ \A p : Tim!Aborted(o) \notin BeginningOf(p) /\ Tim!Aborted(o) \notin {Tim!H("notify", p, 0)}
         /\ Tim!Aborted(o) \notin Makers
  <2>1. "aborted" \in TimKind /\ 0 \in 0..2
    BY DEF TimKind
  <2> QED BY <2>1, TimItems DEF Tim!Aborted
<1>3. U \in SUBSET TimItem
  BY <1>1, <1>2
<1>4. IsFiniteSet(U)
  <2> DEFINE f == [o \in A |-> Tim!Aborted(o)]
  <2>1. f \in [A -> U] /\ \A t \in U : \E o \in A : f[o] = t
    OBVIOUS
  <2>2. IsFiniteSet(A)
    BY <1>1, TimObjFinite, FS_Subset
  <2> HIDE DEF f, U, A
  <2>3. f \in Surjection(A, U)
    BY <2>1, Fun_IsSurj
  <2> QED BY <2>2, <2>3, FS_Surjection
<1>5. Tim!AbortedHandlers(os) = Tim!SetToSeq(U)
  BY DEF Tim!AbortedHandlers
<1>6. \A o \in A : HandlersOf(o) \cap U = {Tim!Aborted(o)}
  BY <1>1, <1>2
<1>7. /\ \A o : o \notin A => HandlersOf(o) \cap U = {}
      /\ \A o : BeginningOf(o) \cap U = {} /\ {Tim!H("notify", o, 0)} \cap U = {}
      /\ Makers \cap U = {}
  BY <1>1, <1>2
<1> HIDE DEF U
<1>8. /\ Tim!SetToSeq(U) \in Seq(TimItem)
      /\ \A S : Never(Tim!SetToSeq(U), S) <=> S \cap U = {}
      /\ \A S : (\E e : S \cap U = {e}) => Once(Tim!SetToSeq(U), S)
  BY <1>3, <1>4, SetToSeqOccurs
<1>9. \A o \in A : Once(Tim!SetToSeq(U), HandlersOf(o))
  BY <1>6, <1>8
<1> HIDE DEF A
<1>10. /\ \A o : o \notin A => Never(Tim!SetToSeq(U), HandlersOf(o))
       /\ \A o : Never(Tim!SetToSeq(U), BeginningOf(o))
       /\ \A o : Never(Tim!SetToSeq(U), {Tim!H("notify", o, 0)})
       /\ Never(Tim!SetToSeq(U), Makers)
  BY <1>7, <1>8
<1> QED BY <1>1, <1>5, <1>8, <1>9, <1>10 DEF A

LEMMA CancelOccurs ==
    ASSUME TimInv, NEW os \in SUBSET Tim!Obj,
           NEW k \in TimKind \ {"fired", "aborted", "event"},
           NEW x \in Id \cup Tim!Obj \cup {Tim!None}, Tim!Runs(k, x),
           inbox' = Tail(inbox) \o Tim!AbortedHandlers(os)
    PROVE  /\ inbox' \in Seq(TimItem)
           /\ \A o \in Tim!Armed(os) : Once(inbox', HandlersOf(o))
           /\ \A o \in Tim!Obj \ Tim!Armed(os) :
                /\ Never(inbox', HandlersOf(o)) <=> Never(inbox, HandlersOf(o))
                /\ Once(inbox', HandlersOf(o)) <=> Once(inbox, HandlersOf(o))
           /\ \A o : /\ Never(inbox', BeginningOf(o)) <=> Never(inbox, BeginningOf(o))
                     /\ Once(inbox', BeginningOf(o)) <=> Once(inbox, BeginningOf(o))
           /\ \A o \in Tim!Free : Never(inbox', {Tim!H("notify", o, 0)})
           /\ Places(inbox', Makers) = Places(Tail(inbox), Makers)
<1> DEFINE p == Tail(inbox)
           r == Tim!AbortedHandlers(os)
<1>1. /\ p \in Seq(TimItem) /\ TimTypeOK
      /\ \A S : Never(inbox, S) => Never(p, S)
      /\ \A o : /\ Never(p, HandlersOf(o)) <=> Never(inbox, HandlersOf(o))
                /\ Once(p, HandlersOf(o)) <=> Once(inbox, HandlersOf(o))
                /\ Never(p, BeginningOf(o)) <=> Never(inbox, BeginningOf(o))
                /\ Once(p, BeginningOf(o)) <=> Once(inbox, BeginningOf(o))
  BY FirstReady
<1>2. /\ r \in Seq(TimItem) /\ Tim!Armed(os) \in SUBSET os
      /\ \A o \in Tim!Armed(os) : Once(r, HandlersOf(o))
      /\ \A o : o \notin Tim!Armed(os) => Never(r, HandlersOf(o))
      /\ \A o : Never(r, BeginningOf(o))
      /\ \A o : Never(r, {Tim!H("notify", o, 0)})
      /\ Never(r, Makers)
  BY AbortedHandlersOccur
<1>3. inbox' = p \o r
  OBVIOUS
<1> HIDE DEF p, r
<1>4. /\ inbox' \in Seq(TimItem)
      /\ \A S : Never(inbox', S) <=> Never(p, S) /\ Never(r, S)
      /\ \A S : Once(inbox', S) <=> (Once(p, S) /\ Never(r, S)) \/ (Never(p, S) /\ Once(r, S))
  <2>1. /\ p \o r \in Seq(TimItem)
        /\ \A S : Never(p \o r, S) <=> Never(p, S) /\ Never(r, S)
        /\ \A S : Once(p \o r, S) <=> (Once(p, S) /\ Never(r, S)) \/ (Never(p, S) /\ Once(r, S))
    BY <1>1, <1>2, ConcatOccurs
  <2> QED BY <1>3, <2>1, Zenon
<1>5. \A S : Never(r, S) => ~Once(r, S)
  BY OnceIsNotNever
<1>6. ASSUME NEW o \in Tim!Armed(os) PROVE Once(inbox', HandlersOf(o))
  <2>1. o \in Tim!Obj /\ obj[o].at = "armed"
    BY <1>6, <1>2 DEF Tim!Armed
  <2>2. Never(p, HandlersOf(o))
    BY <1>1, <2>1 DEF TimInv, OneHandler
  <2> QED BY <1>2, <1>4, <1>6, <2>2
<1>7. ASSUME NEW S, Never(r, S)
      PROVE  (Never(inbox', S) <=> Never(p, S)) /\ (Once(inbox', S) <=> Once(p, S))
  BY <1>4, <1>5, <1>7
<1>8. \A o \in Tim!Free : Never(inbox', {Tim!H("notify", o, 0)})
  <2>1. \A o \in Tim!Free : Never(inbox, {Tim!H("notify", o, 0)})
    BY <1>1, RoomIs
  <2> QED BY <1>1, <1>2, <1>4, <2>1
<1>9. Places(inbox', Makers) = Places(p, Makers)
  <2>1. Places(p \o r, Makers) = Places(p, Makers)
    BY <1>1, <1>2, PlacesOfConcat
  <2> QED BY <1>3, <2>1, Zenon
<1>10. \A o \in Tim!Obj \ Tim!Armed(os) :
                /\ Never(inbox', HandlersOf(o)) <=> Never(inbox, HandlersOf(o))
                /\ Once(inbox', HandlersOf(o)) <=> Once(inbox, HandlersOf(o))
  BY <1>1, <1>2, <1>7
<1>11. \A o : /\ Never(inbox', BeginningOf(o)) <=> Never(inbox, BeginningOf(o))
              /\ Once(inbox', BeginningOf(o)) <=> Once(inbox, BeginningOf(o))
  BY <1>1, <1>2, <1>7
<1> QED BY <1>4, <1>6, <1>8, <1>9, <1>10, <1>11 DEF p

(* The waits of os end; the timers of gone are marked, and named no more.  *)
Marked(os, gone, p) ==
    /\ obj'[p] \in TimObj /\ obj'[p].kind = obj[p].kind /\ obj'[p].id = obj[p].id
    /\ obj'[p].exited <=> obj[p].exited \/ p \in gone
    /\ obj'[p].at = IF p \in os /\ obj[p].at = "armed" THEN "queued" ELSE obj[p].at
    /\ obj[p] = Tim!Dead => obj'[p] = Tim!Dead

LEMMA EndedMarks ==
    ASSUME TimInv, NEW os \in SUBSET Tim!Obj, NEW gone \in SUBSET os, NEW p \in Tim!Obj,
           p \in gone => obj[p].kind = "timer",
           obj'[p] = IF p \in gone THEN [Tim!Ended(os)[p] EXCEPT !.exited = TRUE] ELSE Tim!Ended(os)[p]
    PROVE  Marked(os, gone, p)
<1> DEFINE e == Tim!Ended(os)[p]
<1>1. obj[p] \in TimObj
  BY DEF TimInv, TimTypeOK
<1>2. e = IF p \in os /\ obj[p].at = "armed" THEN [obj[p] EXCEPT !.at = "queued"] ELSE obj[p]
  BY DEF Tim!Ended, Tim!Armed
<1>3. /\ e \in TimObj /\ e.kind = obj[p].kind /\ e.id = obj[p].id /\ e.exited = obj[p].exited
      /\ e.at = IF p \in os /\ obj[p].at = "armed" THEN "queued" ELSE obj[p].at
  BY <1>1, <1>2 DEF TimObj
<1>4. obj[p] = Tim!Dead => e = Tim!Dead /\ p \notin gone
  BY <1>2, DeadIs
<1>5. obj'[p] = IF p \in gone THEN [e EXCEPT !.exited = TRUE] ELSE e
  OBVIOUS
<1> HIDE DEF e
<1> QED BY <1>3, <1>4, <1>5 DEF TimObj, Marked

LEMMA MarkedKeeps ==
    ASSUME TimInv, NEW os \in SUBSET Tim!Obj, NEW gone \in SUBSET os,
           NEW k \in TimKind \ {"fired", "aborted", "event", "start", "task"},
           NEW x \in Id \cup Tim!Obj \cup {Tim!None}, Tim!Runs(k, x),
           inbox' = Tail(inbox) \o Tim!AbortedHandlers(os),
           \A p \in gone : obj[p].kind = "timer",
           \A p \in Tim!Obj : Marked(os, gone, p), obj' \in [Tim!Obj -> TimObj],
           \A i \in Id : user_timers'[i] = IF user_timers[i] \in gone THEN Tim!None ELSE user_timers[i],
           user_timers' \in [Id -> Tim!Obj \cup {Tim!None}], timers' \in SUBSET Tim!Obj
    PROVE  TimInv'
<1>1. TimTypeOK
  BY DEF TimInv
<1>2. \A p \in Tim!Obj : p \in Tim!Armed(os) <=> p \in os /\ obj[p].at = "armed"
  BY DEF Tim!Armed
<1>3. /\ inbox' \in Seq(TimItem)
      /\ \A o \in Tim!Armed(os) : Once(inbox', HandlersOf(o))
      /\ \A o \in Tim!Obj \ Tim!Armed(os) :
                /\ Never(inbox', HandlersOf(o)) <=> Never(inbox, HandlersOf(o))
                /\ Once(inbox', HandlersOf(o)) <=> Once(inbox, HandlersOf(o))
      /\ \A o : /\ Never(inbox', BeginningOf(o)) <=> Never(inbox, BeginningOf(o))
                /\ Once(inbox', BeginningOf(o)) <=> Once(inbox, BeginningOf(o))
      /\ \A o \in Tim!Free : Never(inbox', {Tim!H("notify", o, 0)})
      /\ Places(inbox', Makers) = Places(Tail(inbox), Makers)
  BY CancelOccurs
<1>4. TimTypeOK'
  BY <1>3 DEF TimTypeOK
<1>5. OneHandler'
  <2> SUFFICES ASSUME NEW o \in Tim!Obj
               PROVE  IF obj'[o].at = "queued" THEN Once(inbox', HandlersOf(o))
                                               ELSE Never(inbox', HandlersOf(o))
    BY DEF OneHandler
  <2>1. CASE o \in Tim!Armed(os)
    <3>1. obj'[o].at = "queued"
      BY <1>2, <2>1 DEF Marked
    <3> QED BY <1>3, <2>1, <3>1
  <2>2. CASE o \notin Tim!Armed(os)
    <3>1. obj'[o].at = obj[o].at
      BY <1>2, <2>2 DEF Marked
    <3> QED BY <1>3, <2>2, <3>1 DEF TimInv, OneHandler
  <2> QED BY <2>1, <2>2
<1>6. OneBeginning'
  <2> SUFFICES ASSUME NEW o \in Tim!Obj
               PROVE  IF obj'[o].at = "new" THEN Once(inbox', BeginningOf(o))
                                            ELSE Never(inbox', BeginningOf(o))
    BY DEF OneBeginning
  <2>1. obj'[o].at = "new" <=> obj[o].at = "new"
    BY DEF Marked
  <2> QED BY <1>3, <2>1 DEF TimInv, OneBeginning
<1>7. KindsAgree'
  <2> SUFFICES ASSUME NEW o \in Tim!Obj
               PROVE  /\ obj'[o].at = "new" => obj'[o].kind = "event"
                      /\ obj'[o].exited => obj'[o].kind = "timer" /\ obj'[o].at # "armed"
                      /\ obj'[o].kind = "none" => obj'[o] = Tim!Dead
    BY DEF KindsAgree
  <2>1. Marked(os, gone, o) /\ (o \in gone => o \in os /\ obj[o].kind = "timer")
    OBVIOUS
  <2> QED BY <2>1 DEF TimInv, KindsAgree, Marked
<1>8. NamesAgree'
  <2>1. ASSUME NEW p \in Tim!Obj, obj'[p].kind = "timer"
        PROVE  obj'[p].id \in Id /\ (obj'[p].exited \/ user_timers'[obj'[p].id] = p)
    <3>1. obj[p].kind = "timer" /\ obj'[p].id = obj[p].id /\ (obj'[p].exited <=> obj[p].exited \/ p \in gone)
      BY <2>1 DEF Marked
    <3> QED BY <3>1 DEF TimInv, NamesAgree
  <2>2. ASSUME NEW i \in Id, user_timers'[i] # Tim!None
        PROVE  LET p == user_timers'[i] IN obj'[p].kind = "timer" /\ obj'[p].id = i /\ ~obj'[p].exited
    <3>1. user_timers[i] \notin gone /\ user_timers'[i] = user_timers[i] /\ user_timers[i] \in Tim!Obj
      BY <1>1, <2>2 DEF TimTypeOK
    <3>2. Marked(os, gone, user_timers[i])
      BY <3>1
    <3> QED BY <2>2, <3>1, <3>2 DEF TimInv, NamesAgree, Marked
  <2> QED BY <2>1, <2>2 DEF NamesAgree
<1>9. RoomLeft'
  <2>1. Cardinality(Places(inbox', Makers)) <= Cardinality(Places(inbox, Makers))
    BY <1>3, FirstReady
  <2>2. \A p \in Tim!Free : p \in Tim!Obj /\ obj[p] = Tim!Dead
    BY <1>1, RoomIs
  <2>3. \A p \in Tim!Free : obj'[p] = Tim!Dead /\ Never(inbox', {Tim!H("notify", p, 0)})
    BY <1>3, <2>2 DEF Marked
  <2> QED BY <1>3, <2>1, <2>3, RoomStays
<1> QED BY <1>4, <1>5, <1>6, <1>7, <1>8, <1>9 DEF TimInv

LEMMA CancelKeeps ==
    ASSUME TimInv, NEW os \in SUBSET Tim!Obj,
           NEW k \in {"stop_tasks", "notify", "notify_all", "cancel"},
           NEW x \in Id \cup Tim!Obj \cup {Tim!None}, Tim!Runs(k, x),
           inbox' = Tail(inbox) \o Tim!AbortedHandlers(os), obj' = Tim!Ended(os),
           UNCHANGED user_timers, timers' \in SUBSET Tim!Obj
    PROVE  TimInv'
<1>1. TimTypeOK
  BY DEF TimInv
<1>2. k \in TimKind \ {"fired", "aborted", "event", "start", "task"}
  BY DEF TimKind
<1>3. ASSUME NEW p \in Tim!Obj PROVE Marked(os, {}, p)
  <2>1. obj'[p] = Tim!Ended(os)[p]
    OBVIOUS
  <2>2. {} \in SUBSET os /\ p \notin {}
    OBVIOUS
  <2> QED BY <2>1, <2>2, EndedMarks
<1>4. obj' \in [Tim!Obj -> TimObj]
  <2>1. obj' = [p \in Tim!Obj |-> obj'[p]]
    BY DEF Tim!Ended
  <2>2. \A p \in Tim!Obj : obj'[p] \in TimObj
    BY <1>3 DEF Marked
  <2> QED BY <2>1, <2>2
<1>5. /\ \A i \in Id : user_timers'[i] = IF user_timers[i] \in {} THEN Tim!None ELSE user_timers[i]
      /\ user_timers' \in [Id -> Tim!Obj \cup {Tim!None}]
  BY <1>1 DEF TimTypeOK
<1>6. {} \in SUBSET os /\ \A p \in {} : obj[p].kind = "timer"
  OBVIOUS
<1> QED BY <1>2, <1>3, <1>4, <1>5, <1>6, MarkedKeeps

LEMMA RunCancelsKeep ==
    ASSUME TimInv, \/ Tim!RunStopTasks \/ Tim!RunNotifyAll \/ Tim!RunCancel
                   \/ \E o \in Tim!Obj : Tim!RunNotify(o)
    PROVE  TimInv'
<1>1. timers \in SUBSET Tim!Obj
  BY DEF TimInv, TimTypeOK
<1>2. ASSUME NEW os \in SUBSET Tim!Obj, Tim!Cancel(os),
             NEW k \in {"stop_tasks", "notify", "notify_all", "cancel"},
             NEW x \in Id \cup Tim!Obj \cup {Tim!None}, Tim!Runs(k, x)
      PROVE  TimInv'
  <2>1. /\ inbox' = Tail(inbox) \o Tim!AbortedHandlers(os) /\ obj' = Tim!Ended(os)
        /\ UNCHANGED user_timers /\ timers' \in SUBSET Tim!Obj
    BY <1>1, <1>2 DEF Tim!Cancel, Tim!timerVars
  <2> QED BY <1>2, <2>1, CancelKeeps
<1>3. ASSUME Tim!RunStopTasks PROVE TimInv'
  <2>1. /\ {o \in Tim!Obj : obj[o].kind = "task"} \in SUBSET Tim!Obj
        /\ Tim!Cancel({o \in Tim!Obj : obj[o].kind = "task"}) /\ Tim!Runs("stop_tasks", Tim!None)
    BY <1>3 DEF Tim!RunStopTasks
  <2> QED BY <1>2, <2>1
<1>4. ASSUME Tim!RunNotifyAll PROVE TimInv'
  <2>1. /\ {o \in Tim!Obj : obj[o].kind = "event"} \in SUBSET Tim!Obj
        /\ Tim!Cancel({o \in Tim!Obj : obj[o].kind = "event"}) /\ Tim!Runs("notify_all", Tim!None)
    BY <1>4 DEF Tim!RunNotifyAll
  <2> QED BY <1>2, <2>1
<1>5. ASSUME NEW o \in Tim!Obj, Tim!RunNotify(o) PROVE TimInv'
  <2>1. {o} \in SUBSET Tim!Obj /\ Tim!Cancel({o}) /\ Tim!Runs("notify", o)
    BY <1>5 DEF Tim!RunNotify
  <2> QED BY <1>2, <2>1
<1>6. ASSUME Tim!RunCancel PROVE TimInv'
  <2>1. /\ Tim!Runs("cancel", Tim!None)
        /\ inbox' = Tail(inbox) \o Tim!AbortedHandlers(timers) /\ obj' = Tim!Ended(timers)
        /\ UNCHANGED user_timers /\ timers' \in SUBSET Tim!Obj
    BY <1>6 DEF Tim!RunCancel
  <2> QED BY <1>1, <2>1, CancelKeeps
<1> QED BY <1>3, <1>4, <1>5, <1>6

(* The timers of the ids is are stopped: no other id has one of them.      *)
LEMMA StopTimersKeeps ==
    ASSUME TimInv, NEW is \in SUBSET Id, NEW k \in {"stop", "stop_all"},
           NEW x \in Id \cup Tim!Obj \cup {Tim!None}, Tim!Runs(k, x), Tim!StopTimers(is)
    PROVE  TimInv'
<1> DEFINE os == {user_timers[i] : i \in is} \ {Tim!None}
<1>1. TimTypeOK /\ k \in TimKind \ {"fired", "aborted", "event", "start", "task"}
  BY DEF TimInv, TimKind
<1>2. os \in SUBSET Tim!Obj
  BY <1>1 DEF TimTypeOK
<1>3. \A p \in os : \E i \in is : user_timers[i] = p /\ obj[p].kind = "timer" /\ obj[p].id = i
  BY DEF TimInv, NamesAgree
<1>4. \A i \in Id : user_timers[i] \in os <=> i \in is /\ user_timers[i] # Tim!None
  <2>1. ASSUME NEW i \in Id, user_timers[i] \in os PROVE i \in is
    <3>1. PICK j \in is : user_timers[j] = user_timers[i] /\ user_timers[i] # Tim!None
      BY <2>1
    <3>2. obj[user_timers[i]].id = i /\ obj[user_timers[j]].id = j
      BY <3>1 DEF TimInv, NamesAgree
    <3> QED BY <3>1, <3>2
  <2> QED BY <2>1
<1>5. /\ obj' = [p \in Tim!Obj |-> IF p \in os THEN [Tim!Ended(os)[p] EXCEPT !.exited = TRUE] ELSE obj[p]]
      /\ inbox' = Tail(inbox) \o Tim!AbortedHandlers(os)
      /\ user_timers' = [i \in Id |-> IF i \in is THEN Tim!None ELSE user_timers[i]]
      /\ timers' = timers
  BY DEF Tim!StopTimers
<1> HIDE DEF os
<1>6. ASSUME NEW p \in Tim!Obj PROVE Marked(os, os, p)
  <2>1. p \notin os => Tim!Ended(os)[p] = obj[p]
    BY DEF Tim!Ended, Tim!Armed
  <2>2. obj'[p] = IF p \in os THEN [Tim!Ended(os)[p] EXCEPT !.exited = TRUE] ELSE Tim!Ended(os)[p]
    BY <1>5, <2>1
  <2>3. os \in SUBSET os
    OBVIOUS
  <2> QED BY <1>2, <1>3, <2>2, <2>3, EndedMarks
<1>7. obj' \in [Tim!Obj -> TimObj]
  <2>1. obj' = [p \in Tim!Obj |-> obj'[p]]
    BY <1>5
  <2>2. \A p \in Tim!Obj : obj'[p] \in TimObj
    BY <1>6 DEF Marked
  <2> QED BY <2>1, <2>2
<1>8. /\ \A i \in Id : user_timers'[i] = IF user_timers[i] \in os THEN Tim!None ELSE user_timers[i]
      /\ user_timers' \in [Id -> Tim!Obj \cup {Tim!None}] /\ timers' \in SUBSET Tim!Obj
  <2>1. \A i \in Id : user_timers'[i] = IF i \in is THEN Tim!None ELSE user_timers[i]
    BY <1>5
  <2> QED BY <1>1, <1>4, <1>5, <2>1 DEF TimTypeOK
<1>9. os \in SUBSET os /\ \A p \in os : obj[p].kind = "timer"
  BY <1>3
<1> QED BY <1>1, <1>2, <1>5, <1>6, <1>7, <1>8, <1>9, MarkedKeeps

LEMMA RunStopsKeep ==
    ASSUME TimInv, Tim!RunStopAll \/ \E i \in Id : Tim!RunStop(i)
    PROVE  TimInv'
<1>1. ASSUME Tim!RunStopAll PROVE TimInv'
  <2>1. Tim!Runs("stop_all", Tim!None) /\ Tim!StopTimers(Id) /\ Id \in SUBSET Id
    BY <1>1 DEF Tim!RunStopAll
  <2> QED BY <2>1, StopTimersKeeps
<1>2. ASSUME NEW i \in Id, Tim!RunStop(i) PROVE TimInv'
  <2>1. Tim!Runs("stop", i) /\ Tim!StopTimers({i}) /\ {i} \in SUBSET Id
    BY <1>2 DEF Tim!RunStop
  <2> QED BY <2>1, StopTimersKeeps
<1> QED BY <1>1, <1>2

(* A timer is made, in the place of the one that has its id.               *)
LEMMA RunStartKeeps ==
    ASSUME TimInv, NEW i \in Id, Tim!RunStart(i)
    PROVE  TimInv'
<1> DEFINE old == {user_timers[i]} \ {Tim!None}
           o == CHOOSE o \in Tim!Free : TRUE
           d == [Tim!Dead EXCEPT !.kind = "timer", !.id = i, !.at = "armed"]
           r == [Tim!Dead EXCEPT !.kind = "timer", !.id = i, !.at = "armed", !.repeat = Head(inbox).n]
<1>1. /\ Tim!Runs("start", i)
      /\ obj' = [p \in Tim!Obj |->
                   IF p = o THEN r
                   ELSE IF p \in old THEN [Tim!Ended(old)[p] EXCEPT !.exited = TRUE] ELSE obj[p]]
      /\ inbox' = Tail(inbox) \o Tim!AbortedHandlers(old)
      /\ user_timers' = [user_timers EXCEPT ![i] = o]
      /\ timers' = timers \cup {o}
  BY DEF Tim!RunStart
<1>2. TimTypeOK /\ "start" \in TimKind \ {"fired", "aborted", "event"}
  BY DEF TimInv, TimKind
<1>3. o \in Tim!Free /\ Cardinality(Places(Tail(inbox), Makers)) < Cardinality(Tim!Free)
  BY <1>1, RoomToMake
<1>4. o \in Tim!Obj /\ obj[o] = Tim!Dead /\ o # Tim!None
  <2> HIDE DEF o
  <2> QED BY <1>2, <1>3, RoomIs, TimObjFinite
<1>5. /\ r \in TimObj /\ r.kind = "timer" /\ r.id = i /\ r.at = "armed" /\ r.exited = FALSE
  <2>1. Head(inbox).n \in Int
    BY <1>1, <1>2, FirstReady
  <2>2. d \in TimObj /\ d.kind = "timer" /\ d.id = i /\ d.at = "armed" /\ d.exited = FALSE
    BY DeadIs DEF TimObj
  <2>3. r = [d EXCEPT !.repeat = Head(inbox).n]
    OBVIOUS
  <2> HIDE DEF d, r
  <2> QED BY <2>1, <2>2, <2>3 DEF TimObj
<1>6. /\ old \in SUBSET Tim!Obj
      /\ \A p \in old : p = user_timers[i] /\ obj[p].kind = "timer" /\ obj[p].id = i
  BY <1>2 DEF TimTypeOK, TimInv, NamesAgree
<1>7. \A p : p = user_timers[i] /\ p # Tim!None => p \in old
  OBVIOUS
<1> HIDE DEF o, r, old
<1>8. \A p \in Tim!Obj : p \in Tim!Armed(old) <=> p \in old /\ obj[p].at = "armed"
  BY <1>6 DEF Tim!Armed
<1>9. /\ inbox' \in Seq(TimItem)
      /\ \A p \in Tim!Armed(old) : Once(inbox', HandlersOf(p))
      /\ \A p \in Tim!Obj \ Tim!Armed(old) :
                /\ Never(inbox', HandlersOf(p)) <=> Never(inbox, HandlersOf(p))
                /\ Once(inbox', HandlersOf(p)) <=> Once(inbox, HandlersOf(p))
      /\ \A p : /\ Never(inbox', BeginningOf(p)) <=> Never(inbox, BeginningOf(p))
                /\ Once(inbox', BeginningOf(p)) <=> Once(inbox, BeginningOf(p))
      /\ \A p \in Tim!Free : Never(inbox', {Tim!H("notify", p, 0)})
      /\ Places(inbox', Makers) = Places(Tail(inbox), Makers)
  BY <1>1, <1>2, <1>6, CancelOccurs
<1>10. o \notin old
  BY <1>4, <1>6, DeadIs
<1>11. obj'[o] = r
  BY <1>1, <1>4
<1>12. ASSUME NEW p \in Tim!Obj, p # o PROVE Marked(old, old, p)
  <2>1. p \notin old => Tim!Ended(old)[p] = obj[p]
    BY DEF Tim!Ended, Tim!Armed
  <2>2. obj'[p] = IF p \in old THEN [Tim!Ended(old)[p] EXCEPT !.exited = TRUE] ELSE Tim!Ended(old)[p]
    BY <1>1, <1>12, <2>1
  <2>3. old \in SUBSET old
    OBVIOUS
  <2> QED BY <1>6, <2>2, <2>3, EndedMarks
<1>13. TimTypeOK'
  <2>1. obj' \in [Tim!Obj -> TimObj]
    <3>1. obj' = [p \in Tim!Obj |-> obj'[p]]
      BY <1>1
    <3>2. \A p \in Tim!Obj : obj'[p] \in TimObj
      BY <1>5, <1>11, <1>12 DEF Marked
    <3> QED BY <3>1, <3>2
  <2>2. user_timers' \in [Id -> Tim!Obj \cup {Tim!None}] /\ timers' \in SUBSET Tim!Obj
    BY <1>1, <1>2, <1>4 DEF TimTypeOK
  <2> QED BY <1>9, <2>1, <2>2 DEF TimTypeOK
<1>14. OneHandler'
  <2> SUFFICES ASSUME NEW p \in Tim!Obj
               PROVE  IF obj'[p].at = "queued" THEN Once(inbox', HandlersOf(p))
                                               ELSE Never(inbox', HandlersOf(p))
    BY DEF OneHandler
  <2>1. CASE p = o
    <3>1. obj'[p].at = "armed" /\ p \notin Tim!Armed(old)
      BY <1>5, <1>8, <1>10, <1>11, <2>1
    <3>2. Never(inbox, HandlersOf(p))
      BY <1>4, <2>1, DeadIs DEF TimInv, OneHandler
    <3> QED BY <1>9, <3>1, <3>2
  <2>2. CASE p # o /\ p \in Tim!Armed(old)
    <3>1. obj'[p].at = "queued"
      BY <1>8, <1>12, <2>2 DEF Marked
    <3> QED BY <1>9, <2>2, <3>1
  <2>3. CASE p # o /\ p \notin Tim!Armed(old)
    <3>1. obj'[p].at = obj[p].at
      BY <1>8, <1>12, <2>3 DEF Marked
    <3> QED BY <1>9, <2>3, <3>1 DEF TimInv, OneHandler
  <2> QED BY <2>1, <2>2, <2>3
<1>15. OneBeginning'
  <2> SUFFICES ASSUME NEW p \in Tim!Obj
               PROVE  IF obj'[p].at = "new" THEN Once(inbox', BeginningOf(p))
                                            ELSE Never(inbox', BeginningOf(p))
    BY DEF OneBeginning
  <2>1. obj'[p].at = "new" <=> obj[p].at = "new"
    BY <1>4, <1>5, <1>11, <1>12, DeadIs DEF Marked
  <2> QED BY <1>9, <2>1 DEF TimInv, OneBeginning
<1>16. KindsAgree'
  <2> SUFFICES ASSUME NEW p \in Tim!Obj
               PROVE  /\ obj'[p].at = "new" => obj'[p].kind = "event"
                      /\ obj'[p].exited => obj'[p].kind = "timer" /\ obj'[p].at # "armed"
                      /\ obj'[p].kind = "none" => obj'[p] = Tim!Dead
    BY DEF KindsAgree
  <2>1. CASE p = o
    BY <1>5, <1>11, <2>1
  <2>2. CASE p # o
    <3>1. Marked(old, old, p) /\ (p \in old => obj[p].kind = "timer")
      BY <1>6, <1>12, <2>2
    <3> QED BY <3>1 DEF TimInv, KindsAgree, Marked
  <2> QED BY <2>1, <2>2
<1>17. NamesAgree'
  <2>1. /\ user_timers'[i] = o
        /\ \A j \in Id : j # i => user_timers'[j] = user_timers[j]
    BY <1>1, <1>2 DEF TimTypeOK
  <2>2. ASSUME NEW p \in Tim!Obj, obj'[p].kind = "timer"
        PROVE  obj'[p].id \in Id /\ (obj'[p].exited \/ user_timers'[obj'[p].id] = p)
    <3>1. CASE p = o
      BY <1>5, <1>11, <2>1, <3>1
    <3>2. CASE p # o
      <4>1. obj[p].kind = "timer" /\ obj'[p].id = obj[p].id /\ (obj'[p].exited <=> obj[p].exited \/ p \in old)
        BY <1>12, <2>2, <3>2 DEF Marked
      <4>2. obj[p].id \in Id /\ (obj[p].exited \/ user_timers[obj[p].id] = p)
        BY <4>1 DEF TimInv, NamesAgree
      <4>3. obj[p].id = i /\ user_timers[i] = p => p \in old
        BY <1>7, TimObjFinite
      <4> QED BY <2>1, <4>1, <4>2, <4>3
    <3> QED BY <3>1, <3>2
  <2>3. ASSUME NEW j \in Id, user_timers'[j] # Tim!None
        PROVE  LET p == user_timers'[j] IN obj'[p].kind = "timer" /\ obj'[p].id = j /\ ~obj'[p].exited
    <3>1. CASE j = i
      BY <1>5, <1>11, <2>1, <3>1
    <3>2. CASE j # i
      <4> DEFINE p == user_timers[j]
      <4>1. user_timers'[j] = p /\ p # Tim!None /\ p \in Tim!Obj
        BY <1>2, <2>1, <2>3, <3>2 DEF TimTypeOK
      <4>2. obj[p].kind = "timer" /\ obj[p].id = j /\ ~obj[p].exited
        BY <4>1 DEF TimInv, NamesAgree
      <4>3. p # o /\ p \notin old
        BY <1>4, <1>6, <3>2, <4>2, DeadIs
      <4> HIDE DEF p
      <4>4. Marked(old, old, p)
        BY <1>12, <4>1, <4>3
      <4>5. obj'[p].kind = "timer" /\ obj'[p].id = j /\ ~obj'[p].exited
        BY <4>2, <4>3, <4>4 DEF Marked
      <4> QED BY <4>1, <4>5
    <3> QED BY <3>1, <3>2
  <2> QED BY <2>2, <2>3 DEF NamesAgree
<1>18. RoomLeft'
  <2>1. \A p \in Tim!Free \ {o} : p \in Tim!Obj /\ obj[p] = Tim!Dead
    BY <1>2, RoomIs
  <2>2. \A p \in Tim!Free \ {o} : obj'[p] = Tim!Dead /\ Never(inbox', {Tim!H("notify", p, 0)})
    BY <1>9, <1>12, <2>1 DEF Marked
  <2>3. Cardinality(Places(inbox', Makers)) < Cardinality(Tim!Free)
    BY <1>3, <1>9
  <2> QED BY <1>3, <1>9, <2>2, <2>3, RoomTaken
<1> QED BY <1>13, <1>14, <1>15, <1>16, <1>17, <1>18 DEF TimInv

LEMMA TimNextInv == TimInv /\ [Tim!Next]_(Tim!vars) => TimInv'
<1> SUFFICES ASSUME TimInv, [Tim!Next]_(Tim!vars) PROVE TimInv'
  OBVIOUS
<1>1. CASE UNCHANGED <<inbox, obj, user_timers, timers>>
  <2>1. Tim!Free' = Tim!Free
    BY <1>1 DEF Tim!Free
  <2> QED BY <1>1, <2>1 DEF TimInv, TimTypeOK, OneHandler, OneBeginning, KindsAgree, NamesAgree, RoomLeft
<1>2. CASE Tim!StopReturns \/ UNCHANGED Tim!vars
  BY <1>1, <1>2 DEF Tim!StopReturns, Tim!vars, Tim!timerVars
<1>3. CASE \E i \in Id : Tim!stop_timer(i) \/ \E n \in {1, Tim!Forever} : Tim!start_timer(i, n)
  BY <1>3, PostsKeep
<1>4. CASE Tim!post_delayed \/ Tim!CancelAll
  BY <1>4, PostsKeep
<1>5. CASE Tim!post_condition_event
  BY <1>5, EventKeeps
<1>6. CASE \E o \in Tim!Obj : Tim!notify(o)
  BY <1>6, NotifyKeepsTimers
<1>7. CASE Tim!Stop
  BY <1>7, StopKeepsTimers
<1>8. CASE Tim!IoNext
  BY <1>8, RunStartKeeps, RunStopsKeep, RunEventKeeps, RunCancelsKeep, TimerAgainKeeps, WaitDoneKeeps,
     RunTaskKeeps, RunUnregKeeps DEF Tim!IoNext
<1>9. CASE \E o \in Tim!Obj : Tim!Expire(o)
  BY <1>9, ExpireKeepsTimers
<1> QED BY <1>2, <1>3, <1>4, <1>5, <1>6, <1>7, <1>8, <1>9 DEF Tim!Next

LEMMA TimTells == TimInv => Tim!CanBeStopped /\ Tim!StoppedIsNotSet
  BY DEF TimInv, NamesAgree, KindsAgree, Tim!CanBeStopped, Tim!StoppedIsNotSet

-----------------------------------------------------------------------------
(* However start(), stop() and send() on the callers' threads meet the io  *)
(* thread in handler_memory::allocate, no block is lent to two handlers,   *)
(* and the flag of a block says whether a handler has it.                  *)
THEOREM BlocksAreNotShared == Mem!Spec => [](Mem!NeverShared /\ Mem!FlagAgrees)
  BY MemoryInitInv, MemoryNextInv, PTL DEF Mem!Spec, MemoryInv

(* What each part keeps, whichever part moves.                             *)
PartsInv == MemoryInv /\ LogInv /\ PoolInv /\ TlsInv /\ TimInv

LEMMA PartsMove ==
    [ServicesNext]_allVars =>
        /\ [Mem!Next]_(Mem!vars) /\ [Log!Next]_(Log!vars) /\ [Pool!Next]_(Pool!vars)
        /\ [Ssl!Next]_(Ssl!vars) /\ [Tim!Next]_(Tim!vars)
<1> SUFFICES ASSUME [ServicesNext]_allVars
             PROVE  /\ [Mem!Next]_(Mem!vars) /\ [Log!Next]_(Log!vars) /\ [Pool!Next]_(Pool!vars)
                    /\ [Ssl!Next]_(Ssl!vars) /\ [Tim!Next]_(Tim!vars)
  OBVIOUS
<1>1. Mem!Next \/ UNCHANGED memVars
  BY DEF ServicesNext, allVars
<1>2. Log!Next \/ UNCHANGED logVars
  BY DEF ServicesNext, allVars
<1>3. Pool!Next \/ UNCHANGED taskVars
  BY DEF ServicesNext, allVars
<1>4. Ssl!Next \/ UNCHANGED sslVars
  BY DEF ServicesNext, allVars
<1>5. Tim!Next \/ UNCHANGED timVars
  BY DEF ServicesNext, allVars
<1>6. /\ UNCHANGED memVars => UNCHANGED Mem!vars
      /\ UNCHANGED logVars => UNCHANGED Log!vars
      /\ UNCHANGED taskVars => UNCHANGED Pool!vars
      /\ UNCHANGED sslVars => UNCHANGED Ssl!vars
      /\ UNCHANGED timVars => UNCHANGED Tim!vars
  BY DEF memVars, logVars, taskVars, sslVars, timVars, Mem!vars, Log!vars, Pool!vars,
         Ssl!vars, Tim!vars, Tim!timerVars
<1> QED BY <1>1, <1>2, <1>3, <1>4, <1>5, <1>6

LEMMA PartsInitInv == ServicesInit => PartsInv
  BY MemoryInitInv, LogInitInv, PoolInitInv, TlsInitInv, TimInitInv DEF ServicesInit, PartsInv

LEMMA PartsNextInv == PartsInv /\ [ServicesNext]_allVars => PartsInv'
  BY PartsMove, MemoryNextInv, LogNextInv, PoolNextInv, TlsNextInv, TimNextInv DEF PartsInv

(* In asio2::timer a timer that goes on is the one its id names, and one   *)
(* that stop_timer or start_timer has put an end to is not set again by    *)
(* the handler of a wait that was over before; asio2::thread_pool runs no  *)
(* task twice and leaves none behind in its destructor; handler_memory     *)
(* lends no block twice: for any number of ids, timers, calls, workers,    *)
(* tasks, threads and handlers.                                            *)
THEOREM PartsSound == ServicesSpec => []PartsAreSound
<1>1. PartsInv => PartsAreSound
  BY PoolTells, TimTells DEF PartsInv, PartsAreSound, MemoryInv
<1> QED BY <1>1, PartsInitInv, PartsNextInv, PTL DEF ServicesSpec

(* The logger writes no line whose level is below the one that is set when *)
(* it writes, though set_level comes between the caller's look and the     *)
(* write; an SSL_clear, however late its shutdown ended, finds the stream  *)
(* it was asked for; and no handshake that a timer or a stop has overtaken *)
(* is reported as a connection.                                            *)
THEOREM StepsSound == ServicesSpec => StepsAreSound
<1>1. PartsInv /\ [ServicesNext]_allVars => LevelStep /\ ClearStep /\ UpStep
  BY PartsMove, LogNextInv, TlsSteps DEF PartsInv
<1>2. PartsInv /\ [ServicesNext]_allVars => [file' # file => file'[Len(file')] >= level]_(Log!vars)
  BY <1>1 DEF LevelStep
<1>3. PartsInv /\ [ServicesNext]_allVars => [holders # {} /\ holders' = {} => clear_s = stream]_(Ssl!vars)
  BY <1>1 DEF ClearStep
<1>4. PartsInv /\ [ServicesNext]_allVars => [phase # "up" /\ phase' = "up" => t_sock']_(Ssl!vars)
  BY <1>1 DEF UpStep
<1> QED BY <1>2, <1>3, <1>4, PartsInitInv, PartsNextInv, PTL
        DEF ServicesSpec, StepsAreSound, Log!LevelKept, Ssl!ClearsTheLiving, Ssl!UpIsOpen
=============================================================================
