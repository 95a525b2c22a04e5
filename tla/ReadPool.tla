------------------------------ MODULE ReadPool ------------------------------
(***************************************************************************)
(* The catalog's connections as threads share them: a pool of lazily       *)
(* opened read-only connections, each behind its own mutex, and the write  *)
(* connection a reader falls back to (forge-store meta.rs, ReadPool and    *)
(* read_conn).                                                             *)
(***************************************************************************)
EXTENDS Naturals

CONSTANTS Threads,   \* the threads that read the catalog
          Width,     \* slots of the pool
          Free       \* a mutex nobody holds

VARIABLES reader,    \* thread -> where it is in acquire
          open,      \* slot -> it holds an open connection
          slotLock,  \* slot -> the thread that holds its mutex
          cursor,    \* the rotating start of the next scan
          wlock      \* the mutex of the write connection

pvars == <<reader, open, slotLock, cursor, wlock>>

Slots == 0..(Width - 1)

Out == [ph |-> "out", start |-> 0, off |-> 0]

SlotOf(t) == (reader[t].start + reader[t].off) % Width

In(t, ph) == reader[t].ph = ph

ToPhase(t, ph) == reader' = [reader EXCEPT ![t].ph = ph]

\* The next slot of a pass, or the phase after the pass.
Advance(t, next) ==
    reader' = [reader EXCEPT ![t] =
                  IF reader[t].off + 1 < Width
                  THEN [reader[t] EXCEPT !.off = @ + 1]
                  ELSE [reader[t] EXCEPT !.ph = next, !.off = 0]]

Lock(t) == slotLock' = [slotLock EXCEPT ![SlotOf(t)] = t]

Unlock(t) == slotLock' = [slotLock EXCEPT ![SlotOf(t)] = Free]

SlotFree(t) == slotLock[SlotOf(t)] = Free

-----------------------------------------------------------------------------
\* acquire takes the next start of the rotation.
Acquire(t) ==
    /\ In(t, "out")
    /\ reader' = [reader EXCEPT ![t] = [ph |-> "scan", start |-> cursor, off |-> 0]]
    /\ cursor' = (cursor + 1) % Width
    /\ UNCHANGED <<open, slotLock, wlock>>

\* First pass: try_lock every slot in turn; a slot that is taken is passed.
Scan(t) ==
    /\ In(t, "scan")
    /\ IF SlotFree(t)
       THEN Lock(t) /\ ToPhase(t, "peek")
       ELSE Advance(t, "again") /\ UNCHANGED slotLock
    /\ UNCHANGED <<open, cursor, wlock>>

\* ... and keep the slot only when its connection is already open.
Peek(t) ==
    /\ In(t, "peek")
    /\ IF open[SlotOf(t)]
       THEN ToPhase(t, "in") /\ UNCHANGED slotLock
       ELSE /\ Unlock(t)
            /\ reader' = [reader EXCEPT ![t] =
                  IF reader[t].off + 1 < Width
                  THEN [reader[t] EXCEPT !.ph = "scan", !.off = @ + 1]
                  ELSE [reader[t] EXCEPT !.ph = "again", !.off = 0]]
    /\ UNCHANGED <<open, cursor, wlock>>

\* Second pass: the first slot that can be locked, open or not.
Again(t) ==
    /\ In(t, "again")
    /\ IF SlotFree(t)
       THEN Lock(t) /\ ToPhase(t, "fill")
       ELSE Advance(t, "block") /\ UNCHANGED slotLock
    /\ UNCHANGED <<open, cursor, wlock>>

\* Every slot was taken: wait for the first of the rotation.
Block(t) ==
    /\ In(t, "block")
    /\ SlotFree(t)
    /\ Lock(t)
    /\ ToPhase(t, "fill")
    /\ UNCHANGED <<open, cursor, wlock>>

\* populate: open the connection of an empty slot.  When that fails the
\* guard is dropped and the reader turns to the write connection.
Fill(t) ==
    /\ In(t, "fill")
    /\ \/ /\ open' = [open EXCEPT ![SlotOf(t)] = TRUE]
          /\ ToPhase(t, "in")
          /\ UNCHANGED slotLock
       \/ /\ ~open[SlotOf(t)]
          /\ Unlock(t)
          /\ ToPhase(t, "writer")
          /\ UNCHANGED open
    /\ UNCHANGED <<cursor, wlock>>

\* read_conn falls back to the write connection, behind its mutex.
FallBack(t) ==
    /\ In(t, "writer")
    /\ wlock = Free
    /\ wlock' = t
    /\ ToPhase(t, "onwriter")
    /\ UNCHANGED <<open, slotLock, cursor>>

\* The CatalogRead is dropped.
Release(t) ==
    /\ \/ In(t, "in") /\ Unlock(t) /\ UNCHANGED wlock
       \/ In(t, "onwriter") /\ wlock' = Free /\ UNCHANGED slotLock
    /\ reader' = [reader EXCEPT ![t] = Out]
    /\ UNCHANGED <<open, cursor>>

\* A catalog write holds the write connection for its transaction.
LockWriter(t) ==
    /\ wlock = Free
    /\ wlock' = t
    /\ UNCHANGED <<reader, open, slotLock, cursor>>

UnlockWriter(t) ==
    /\ wlock = t
    /\ wlock' = Free
    /\ UNCHANGED <<reader, open, slotLock, cursor>>

\* A store that has just been opened.
PoolInit ==
    /\ reader = [t \in Threads |-> Out]
    /\ open = [s \in Slots |-> FALSE]
    /\ slotLock = [s \in Slots |-> Free]
    /\ cursor = 0
    /\ wlock = Free

-----------------------------------------------------------------------------
=============================================================================
