---------------------------- MODULE HandlerMemory ----------------------------
(***************************************************************************)
(* handler_memory of base/detail/allocator.hpp: one block of storage, lent *)
(* to one handler at a time, the heap for all others.  The block of        *)
(* rallocator() has a plain flag, for the io thread; that of wallocator()  *)
(* an atomic one, since start(), stop() and send() allocate from it on the *)
(* caller's thread and the io thread gives back what they took.            *)
(***************************************************************************)
EXTENDS Naturals, FiniteSets

CONSTANTS
    Caller,         \* threads that only the atomic flag is for
    Io,             \* the io thread
    Handler,        \* the handlers that need memory
    Large           \* ... of them, those larger than the storage

Block == {"r", "w"}                 \* of rallocator(), of wallocator()
Thread == Caller \cup {Io}

VARIABLES
    in_use,         \* of each block
    memory,         \* of each handler: "none", "r", "w" or "heap"
    frame           \* of each thread, in allocate(): [handler, block]

vars == <<in_use, memory, frame>>

Idle == [handler |-> "none", block |-> "none"]

Init ==
    /\ in_use = [b \in Block |-> FALSE]
    /\ memory = [h \in Handler |-> "none"]
    /\ frame = [t \in Thread |-> Idle]

Free(h) ==
    memory[h] = "none" /\ \A t \in Thread : frame[t].handler # h

Lend(h, b) == memory' = [memory EXCEPT ![h] = b]

(***************************************************************************)
(* allocate(): the plain flag is read and then written; the atomic one is  *)
(* taken with test_and_set(), after the size was found to fit.             *)
(***************************************************************************)
Allocate_NotAtomic(t, b, h) ==       (* Mutant: the atomic flag is read and then written. *)
    /\ frame[t] = Idle
    /\ Free(h)
    /\ b = "r" => t = Io
    /\ \/ /\ h \in Large \/ in_use[b]
          /\ Lend(h, "heap")
          /\ UNCHANGED <<in_use, frame>>
       \/ /\ ~ (h \in Large \/ in_use[b])
          /\ frame' = [frame EXCEPT ![t] = [handler |-> h, block |-> b]]
          /\ UNCHANGED <<in_use, memory>>

Allocate(t, b, h) ==
    /\ frame[t] = Idle
    /\ Free(h)
    /\ b = "r" => t = Io
    /\ \/ /\ h \in Large \/ in_use[b]                     \* ::operator new
          /\ Lend(h, "heap")
          /\ UNCHANGED <<in_use, frame>>
       \/ /\ b = "r" /\ h \notin Large /\ ~ in_use[b]
          /\ frame' = [frame EXCEPT ![t] = [handler |-> h, block |-> b]]
          /\ UNCHANGED <<in_use, memory>>
       \/ /\ b = "w" /\ h \notin Large /\ ~ in_use[b]
          /\ in_use' = [in_use EXCEPT ![b] = TRUE]
          /\ Lend(h, b)
          /\ UNCHANGED frame

SetFlag(t) ==
    /\ frame[t] # Idle
    /\ in_use' = [in_use EXCEPT ![frame[t].block] = TRUE]
    /\ Lend(frame[t].handler, frame[t].block)
    /\ frame' = [frame EXCEPT ![t] = Idle]

(***************************************************************************)
(* deallocate(), by the io thread, as it takes the handler out of its      *)
(* operation to call it.                                                   *)
(***************************************************************************)
Deallocate_Always(h) ==              (* Mutant: what came from the heap clears the flag too. *)
    /\ frame[Io] = Idle
    /\ memory[h] # "none"
    /\ in_use' = [in_use EXCEPT !["w"] = FALSE]
    /\ Lend(h, "none")
    /\ UNCHANGED frame

Deallocate(h) ==
    /\ frame[Io] = Idle
    /\ memory[h] # "none"
    /\ in_use' = [b \in Block |-> in_use[b] /\ memory[h] # b]
    /\ Lend(h, "none")
    /\ UNCHANGED frame

Next ==
    \/ \E t \in Thread, b \in Block, h \in Handler : Allocate(t, b, h)
    \/ \E t \in Thread : SetFlag(t)
    \/ \E h \in Handler : Deallocate(h)

Spec == Init /\ [][Next]_vars

-----------------------------------------------------------------------------
(* A block is never lent to two handlers, whichever threads allocate and   *)
(* free at the same time, although the flag of one of them is not atomic.  *)
NeverShared ==
    \A g, h \in Handler : memory[g] = memory[h] /\ memory[g] \in Block => g = h

(* A block that no handler has, and that no thread is about to take, can   *)
(* be lent again: the flag is not left set.                                *)
FlagAgrees ==
    \A b \in Block : in_use[b] <=> \E h \in Handler : memory[h] = b
=============================================================================
