----------------------------- MODULE IndexLocks -----------------------------
(***************************************************************************)
(* The locks of the sector index (storage/paths/index_locks.go): readers   *)
(* and writers of the file types of a sector.                              *)
(*                                                                         *)
(* A client finds or creates the lock object of its sector and counts      *)
(* itself in (under indexLocks.lk), then tries to lock it (under the       *)
(* object's own mutex) and, unless it only tries, waits on the object's    *)
(* condition.  The lock is held until the client's context is done, when a *)
(* goroutine unlocks, counts the client out and drops an unused object.    *)
(*                                                                         *)
(* Abstractions.  A set of file types is a set, not a bit mask.  The two   *)
(* mutexes make each step below atomic; a waiter takes the channel it      *)
(* waits for while it still holds the object's mutex, so that taking it is *)
(* one step with the failed attempt.  StorageGetLocks only reads.          *)
(***************************************************************************)
EXTENDS Integers, FiniteSets

CONSTANTS
    Clients,
    Sectors,
    FileTypes,
    Requests,     \* the requests the clients make
    Objects,      \* the sectorLock objects that can be allocated
    None,
    MaxRefs       \* bound: references counted in an object

ASSUME ConstantsAssumption ==
    /\ IsFiniteSet(Clients)
    /\ Requests \subseteq [sector : Sectors, read : SUBSET FileTypes,
                          write : SUBSET FileTypes, try : BOOLEAN]
    /\ \A q \in Requests : q.read \cup q.write # {}
    /\ None \notin Requests /\ None \notin Objects
    /\ MaxRefs \in Nat

VARIABLES
    locks,     \* indexLocks.locks: the object of each sector
    r, w,      \* of each object: readers of each file type, written types
    refs,      \* of each object
    pc,        \* what each client is doing
    req,       \* its request
    slk,       \* the object it works on
    done       \* the clients whose context is done

vars == <<locks, r, w, refs, pc, req, slk, done>>

Using == {c \in Clients : pc[c] # "idle"}

Holders == {c \in Clients : pc[c] = "held"}

Mapped == {o \in Objects : \E s \in Sectors : locks[s] = o}

(* The clients that work on object o, and those that read type t under it. *)
Users(o) == {c \in Using : slk[c] = o}

Readers(o, t) == {c \in Holders : slk[c] = o /\ t \in req[c].read}

TypeOK ==
    /\ locks \in [Sectors -> Objects \cup {None}]
    /\ r \in [Objects -> [FileTypes -> Nat]]
    /\ w \in [Objects -> SUBSET FileTypes]
    /\ refs \in [Objects -> Nat]
    /\ pc \in [Clients -> {"idle", "locking", "waiting", "woken", "held"}]
    /\ req \in [Clients -> Requests \cup {None}]
    /\ slk \in [Clients -> Objects \cup {None}]
    /\ done \subseteq Clients
    /\ \A c \in Using : req[c] # None /\ slk[c] # None

Init ==
    /\ locks = [s \in Sectors |-> None]
    /\ r = [o \in Objects |-> [t \in FileTypes |-> 0]]
    /\ w = [o \in Objects |-> {}]
    /\ refs = [o \in Objects |-> 0]
    /\ pc = [c \in Clients |-> "idle"]
    /\ req = [c \in Clients |-> None]
    /\ slk = [c \in Clients |-> None]
    /\ done = {}

-----------------------------------------------------------------------------
(* lockWith up to the call of lockFn.                                      *)

(* Objects nothing points to: what the allocator may return. *)
Unreachable ==
    {o \in Objects : /\ \A s \in Sectors : locks[s] # o
                     /\ \A c \in Using : slk[c] # o}

(* Mutant of addRef: a new object starts uncounted. *)
addRefOnlyOld(o, q) ==
    refs' = [refs EXCEPT ![o] = IF locks[q.sector] = None THEN 0 ELSE @ + 1]

addRef(o, q) ==
    refs' = [refs EXCEPT ![o] = IF locks[q.sector] = None THEN 1 ELSE @ + 1]

(* The object of the request's sector, new if there is none yet. *)
lockWith(c, q) ==
    /\ pc[c] = "idle"
    /\ \E o \in IF locks[q.sector] = None THEN Unreachable ELSE {locks[q.sector]} :
          /\ refs[o] < MaxRefs \/ locks[q.sector] = None         \* bound
          /\ addRef(o, q)
          /\ locks' = [locks EXCEPT ![q.sector] = o]
          /\ slk' = [slk EXCEPT ![c] = o]
          /\ IF locks[q.sector] = None
             THEN /\ r' = [r EXCEPT ![o] = [t \in FileTypes |-> 0]]
                  /\ w' = [w EXCEPT ![o] = {}]
             ELSE UNCHANGED <<r, w>>
    /\ pc' = [pc EXCEPT ![c] = "locking"]
    /\ req' = [req EXCEPT ![c] = q]
    /\ UNCHANGED done

-----------------------------------------------------------------------------
(* lockFn: sectorLock.lock or tryLockSafe.                                 *)

(* Mutant of canLock: readers do not keep a writer out. *)
canLockIgnoresReaders(o, q) == w[o] \cap (q.read \cup q.write) = {}

canLock(o, q) ==
    /\ \A t \in q.write : r[o][t] = 0
    /\ w[o] \cap (q.read \cup q.write) = {}

lock(c) ==
    /\ pc[c] \in {"locking", "woken"}
    /\ canLock(slk[c], req[c])
    /\ r' = [r EXCEPT ![slk[c]] =
                 [t \in FileTypes |-> IF t \in req[c].read THEN @[t] + 1 ELSE @[t]]]
    /\ w' = [w EXCEPT ![slk[c]] = @ \cup req[c].write]
    /\ pc' = [pc EXCEPT ![c] = "held"]
    /\ UNCHANGED <<locks, refs, req, slk, done>>

(* The client's call ends without a lock; its reference stays. *)
returns(c) ==
    /\ pc' = [pc EXCEPT ![c] = "idle"]
    /\ req' = [req EXCEPT ![c] = None]
    /\ slk' = [slk EXCEPT ![c] = None]
    /\ done' = done \ {c}

(* The attempt fails: a try returns, a lock waits. *)
lockFails(c) ==
    /\ pc[c] \in {"locking", "woken"}
    /\ ~canLock(slk[c], req[c])
    /\ IF req[c].try THEN returns(c)
       ELSE /\ pc' = [pc EXCEPT ![c] = "waiting"]
            /\ UNCHANGED <<req, slk, done>>
    /\ UNCHANGED <<locks, r, w, refs>>

(* The client's context is cancelled or times out. *)
contextDone(c) ==
    /\ pc[c] # "idle" /\ c \notin done
    /\ done' = done \cup {c}
    /\ UNCHANGED <<locks, r, w, refs, pc, req, slk>>

(* ctxCond.Wait returns the error of the context. *)
waitCancelled(c) ==
    /\ pc[c] \in {"waiting", "woken"}
    /\ c \in done
    /\ returns(c)
    /\ UNCHANGED <<locks, r, w, refs>>

-----------------------------------------------------------------------------
(* The goroutine that waits for the context of a lock that is held.        *)

(* Mutant of Broadcast: no waiter is woken. *)
BroadcastNone(o, p) == p

Broadcast(o, p) ==
    [c \in Clients |-> IF p[c] = "waiting" /\ slk[c] = o THEN "woken" ELSE p[c]]

(* Mutant of dropUnused: the object is dropped while others count on it. *)
dropAlways(c) ==
    locks' = [locks EXCEPT ![req[c].sector] = None]

dropUnused(c) ==
    locks' = [locks EXCEPT ![req[c].sector] =
                  IF refs[slk[c]] = 1 THEN None ELSE @]

unlock(c) ==
    /\ r' = [r EXCEPT ![slk[c]] =
                 [t \in FileTypes |-> IF t \in req[c].read THEN @[t] - 1 ELSE @[t]]]
    /\ w' = [w EXCEPT ![slk[c]] = @ \ req[c].write]
    /\ pc' = Broadcast(slk[c], [pc EXCEPT ![c] = "idle"])

release(c) ==
    /\ pc[c] = "held" /\ c \in done
    /\ unlock(c)
    /\ refs' = [refs EXCEPT ![slk[c]] = @ - 1]
    /\ dropUnused(c)
    /\ req' = [req EXCEPT ![c] = None]
    /\ slk' = [slk EXCEPT ![c] = None]
    /\ done' = done \ {c}

Next ==
    \E c \in Clients :
        \/ \E q \in Requests : lockWith(c, q)
        \/ lock(c)
        \/ lockFails(c)
        \/ contextDone(c)
        \/ waitCancelled(c)
        \/ release(c)

Spec == Init /\ [][Next]_vars
-----------------------------------------------------------------------------
(* Properties.                                                             *)

(* Everybody who works on a sector works on the object in the map: counting *)
(* references never drops an object that is in use, which would give the   *)
(* next client a second, unlocked one.                                     *)
OneObject == \A c \in Using : locks[req[c].sector] = slk[c]

(* The object counts at least the clients that work on it.  (It may count  *)
(* more: an attempt that fails is not taken back.)                         *)
RefsCounted == \A o \in Mapped : refs[o] >= Cardinality(Users(o))

(* A client only ever waits for something: when its request could be       *)
(* granted it has been woken, whatever was released meanwhile.             *)
NoLostWakeup == \A c \in Clients : pc[c] = "waiting" => ~canLock(slk[c], req[c])

(* Reader counts and written types are those of the clients that hold.     *)
CountsMatch ==
    \A o \in Mapped, t \in FileTypes :
        /\ r[o][t] = Cardinality(Readers(o, t))
        /\ t \in w[o] <=> \E c \in Holders : slk[c] = o /\ t \in req[c].write

(* Two sectors never share an object. *)
OwnObject ==
    \A s, u \in Sectors : locks[s] # None /\ locks[s] = locks[u] => s = u

Conflict(p, q) ==
    /\ p.sector = q.sector
    /\ \/ p.write \cap (q.read \cup q.write) # {}
       \/ q.write \cap (p.read \cup p.write) # {}

(* No two clients hold conflicting locks: for every sector, a file type is *)
(* held by one writer or by any number of readers.                         *)
Exclusion == \A c, d \in Holders : c # d => ~Conflict(req[c], req[d])

held == [c \in Clients |-> IF pc[c] = "held" THEN req[c] ELSE None]

(* The index implements the abstract lock: a request is granted only when  *)
(* it conflicts with none that is held, and a lock ends only by its        *)
(* client's release.                                                       *)
Abstract == INSTANCE SectorLocks WITH NoRequest <- None

ImplementsLocks == Abstract!Spec
=============================================================================
