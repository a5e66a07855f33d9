-------------------------- MODULE IndexLocksProofs --------------------------
(***************************************************************************)
(* Theorems about IndexLocks, for any clients, sectors, file types and     *)
(* requests.  The invariants of the model are inductive only together: the *)
(* counts keep an object in the map while it is used, one object for all   *)
(* clients of a sector makes the counts meaningful, and exclusion lets a   *)
(* writer take back exactly what it added.                                 *)
(***************************************************************************)
EXTENDS IndexLocks, FiniteSetTheorems, TLAPS

(* The conjunction that is inductive. *)
Inv ==
    /\ TypeOK
    /\ OneObject
    /\ OwnObject
    /\ RefsCounted
    /\ CountsMatch
    /\ Exclusion
    /\ NoLostWakeup

-----------------------------------------------------------------------------
(* Counting.                                                               *)

(* What a request is made of. *)
LEMMA RequestType ==
    ASSUME NEW q \in Requests
    PROVE  /\ q # None /\ q.sector \in Sectors
           /\ q.read \subseteq FileTypes /\ q.write \subseteq FileTypes
BY Zenon, ConstantsAssumption DEF ConstantsAssumption

(* The users of an object are finitely many. *)
LEMMA UsersFinite ==
    ASSUME NEW o
    PROVE  IsFiniteSet(Users(o)) /\ Cardinality(Users(o)) \in Nat
BY Zenon, ConstantsAssumption, FS_Subset, FS_CardinalityType
   DEF ConstantsAssumption, Users, Using

(* So are its readers. *)
LEMMA ReadersFinite ==
    ASSUME NEW o, NEW t
    PROVE  IsFiniteSet(Readers(o, t)) /\ Cardinality(Readers(o, t)) \in Nat
BY Zenon, ConstantsAssumption, FS_Subset, FS_CardinalityType
   DEF ConstantsAssumption, Readers, Holders

(* A non-empty finite set has at least one element, and one with a single  *)
(* element at most holds no other.                                         *)
LEMMA CountOne ==
    ASSUME NEW S, IsFiniteSet(S), NEW x \in S
    PROVE  /\ Cardinality(S) \in Nat
           /\ Cardinality(S) >= 1
           /\ Cardinality(S) <= 1 => S = {x}
           /\ Cardinality(S \ {x}) = Cardinality(S) - 1
<1>1. /\ Cardinality(S) \in Nat
      /\ IsFiniteSet(S \ {x})
      /\ Cardinality(S \ {x}) = Cardinality(S) - 1
      /\ Cardinality(S \ {x}) \in Nat
    BY Zenon, FS_CardinalityType, FS_RemoveElement
<1>2. Cardinality(S) <= 1 => S \ {x} = {}
    BY <1>1, FS_EmptySet
<1> QED
    BY <1>1, <1>2

-----------------------------------------------------------------------------
(* The invariant.                                                          *)

(* Initially nothing is locked and no object is in the map. *)
LEMMA InvInit == Init => Inv
<1> SUFFICES ASSUME Init PROVE Inv
    BY Zenon
<1>1. Using = {} /\ Holders = {} /\ Mapped = {}
    BY Zenon, ConstantsAssumption DEF ConstantsAssumption, Init, Using, Holders, Mapped
<1> QED
    BY Zenon, <1>1 DEF Init, Inv, TypeOK, OneObject, OwnObject, RefsCounted,
                CountsMatch, Exclusion, NoLostWakeup

(* A step that changes no lock and lets at most one client go keeps all    *)
(* but the waiting condition.                                              *)
LEMMA LeaveInv ==
    ASSUME Inv, NEW c \in Clients, pc[c] # "held", returns(c),
           UNCHANGED <<locks, r, w, refs>>
    PROVE  Inv'
<1> USE DEF Inv
<1>1. Using' = Using \ {c} /\ Holders' = Holders /\ c \notin Holders
    BY Zenon DEF returns, Using, Holders, TypeOK
<1>2. \A d \in Clients : d # c => pc'[d] = pc[d] /\ req'[d] = req[d] /\ slk'[d] = slk[d]
    BY Zenon DEF returns, TypeOK
<1>3. TypeOK'
    BY <1>1, <1>2 DEF returns, TypeOK
<1>4. OneObject' /\ OwnObject' /\ Mapped' = Mapped
    BY Zenon, <1>1, <1>2 DEF OneObject, OwnObject, Mapped, Using
<1>5. RefsCounted'
    <2> SUFFICES ASSUME NEW o \in Mapped PROVE refs[o] >= Cardinality(Users(o)')
        BY Zenon, <1>4 DEF RefsCounted
    <2>1. Users(o)' \subseteq Users(o)
        BY Zenon, <1>1, <1>2 DEF Users, Using
    <2>2. Cardinality(Users(o)') <= Cardinality(Users(o)) /\ Cardinality(Users(o)') \in Nat
        BY Zenon, <2>1, UsersFinite, FS_Subset, FS_CardinalityType
    <2>3. refs[o] \in Nat /\ refs[o] >= Cardinality(Users(o))
        BY Zenon DEF RefsCounted, TypeOK, Mapped
    <2>4. Cardinality(Users(o)) \in Nat
        BY Zenon, UsersFinite
    <2> QED
        BY <2>2, <2>3, <2>4
<1>6. \A o, t : Readers(o, t)' = Readers(o, t)
    BY Zenon, <1>1, <1>2 DEF Readers, Holders
<1>7. CountsMatch'
    BY <1>1, <1>2, <1>4, <1>6 DEF CountsMatch, Holders
<1>8. Exclusion'
    BY <1>1, <1>2 DEF Exclusion, Holders, Conflict
<1>9. NoLostWakeup'
    BY Zenon, <1>2 DEF NoLostWakeup, canLock, returns, TypeOK
<1> QED
    BY Zenon, <1>3, <1>4, <1>5, <1>7, <1>8, <1>9

(* lockWith: the object is the one in the map or a fresh one. *)
LEMMA LockWithInv ==
    ASSUME Inv, NEW c \in Clients, NEW q \in Requests, lockWith(c, q)
    PROVE  Inv'
<1> USE DEF Inv
<1> DEFINE s == q.sector
<1>0. s \in Sectors /\ q # None /\ None \notin Objects
    BY Zenon, RequestType, ConstantsAssumption DEF ConstantsAssumption
<1>1. PICK o \in Objects :
          /\ locks[s] = None => o \in Unreachable
          /\ locks[s] # None => o = locks[s]
          /\ refs' = [refs EXCEPT ![o] = IF locks[s] = None THEN 1 ELSE @ + 1]
          /\ locks' = [locks EXCEPT ![s] = o]
          /\ slk' = [slk EXCEPT ![c] = o]
          /\ IF locks[s] = None
             THEN /\ r' = [r EXCEPT ![o] = [t \in FileTypes |-> 0]]
                  /\ w' = [w EXCEPT ![o] = {}]
             ELSE UNCHANGED <<r, w>>
    BY <1>0 DEF lockWith, addRef, Unreachable, TypeOK
<1>2. /\ pc[c] = "idle"
      /\ pc' = [pc EXCEPT ![c] = "locking"]
      /\ req' = [req EXCEPT ![c] = q]
      /\ done' = done
    BY Zenon DEF lockWith
<1>3. Using' = Using \cup {c} /\ c \notin Using /\ Holders' = Holders /\ c \notin Holders
    BY Zenon, <1>2 DEF Using, Holders, TypeOK
<1>4. \A d \in Clients : d # c => pc'[d] = pc[d] /\ req'[d] = req[d] /\ slk'[d] = slk[d]
    BY Zenon, <1>1, <1>2 DEF TypeOK
<1>5. TypeOK'
    <2>1. /\ locks' \in [Sectors -> Objects \cup {None}]
          /\ slk' \in [Clients -> Objects \cup {None}]
          /\ pc' \in [Clients -> {"idle", "locking", "waiting", "woken", "held"}]
          /\ req' \in [Clients -> Requests \cup {None}]
          /\ done' \subseteq Clients
        BY Zenon, <1>0, <1>1, <1>2 DEF TypeOK
    <2>2. refs' \in [Objects -> Nat]
        BY <1>1 DEF TypeOK
    <2>5. r' \in [Objects -> [FileTypes -> Nat]]
        <3>1. [t \in FileTypes |-> 0] \in [FileTypes -> Nat]
            BY Zenon
        <3> QED
            BY Zenon, <1>1, <3>1 DEF TypeOK
    <2>3. w' \in [Objects -> SUBSET FileTypes]
        BY Zenon, <1>1 DEF TypeOK
    <2>4. \A d \in Using' : req'[d] # None /\ slk'[d] # None
        <3>1. req'[c] = q /\ slk'[c] = o /\ o # None
            BY Zenon, <1>0, <1>1, <1>2 DEF TypeOK
        <3> QED
            BY Zenon, <1>0, <1>3, <1>4, <3>1 DEF TypeOK, Using
    <2> QED
        BY Zenon, <2>1, <2>2, <2>3, <2>4, <2>5 DEF TypeOK
<1>6. \A u \in Sectors : u # s => locks'[u] = locks[u]
    BY Zenon, <1>1 DEF TypeOK
<1>7. locks'[s] = o /\ (locks[s] # None => locks' = locks)
    BY Zenon, <1>0, <1>1 DEF TypeOK
<1>8. \A d \in Using : req[d].sector = s => locks[s] # None
    BY DEF OneObject, TypeOK
<1>9. OneObject'
    <2> SUFFICES ASSUME NEW d \in Using' PROVE locks'[req'[d].sector] = slk'[d]
        BY Zenon DEF OneObject
    <2>1. CASE d = c
        BY Zenon, <1>1, <1>2, <1>7, <2>1 DEF TypeOK
    <2>2. CASE d # c
        <3>1. d \in Using /\ req'[d] = req[d] /\ slk'[d] = slk[d]
            BY Zenon, <1>3, <1>4, <2>2 DEF Using
        <3>2. req[d].sector \in Sectors /\ locks[req[d].sector] = slk[d]
            BY Zenon, <3>1, RequestType DEF OneObject, TypeOK, Using
        <3> QED
            BY Zenon, <1>6, <1>7, <1>8, <3>1, <3>2
    <2> QED
        BY Zenon, <2>1, <2>2
<1>10. OwnObject'
    BY <1>1, <1>6, <1>7 DEF OwnObject, Unreachable, TypeOK
<1>11. Mapped' = Mapped \cup {o}
    <2>1. o \in Mapped' /\ (locks[s] # None => o \in Mapped)
        BY Zenon, <1>0, <1>1, <1>7 DEF Mapped
    <2>2. ASSUME NEW p \in Objects, p # o PROVE p \in Mapped' <=> p \in Mapped
        BY Zenon, <1>0, <1>1, <1>6, <1>7, <2>2 DEF Mapped
    <2> QED
        BY Zenon, <2>1, <2>2 DEF Mapped
<1>12. \A p \in Mapped' : p # o =>
           p \in Mapped /\ refs'[p] = refs[p] /\ r'[p] = r[p] /\ w'[p] = w[p]
    BY <1>1, <1>11 DEF TypeOK, Mapped
<1>13. locks[s] = None => Users(o) = {} /\ \A t : Readers(o, t) = {}
    BY Zenon, <1>1 DEF Unreachable, Users, Readers, Using, Holders
<1>14. RefsCounted'
    <2> SUFFICES ASSUME NEW p \in Mapped' PROVE refs'[p] >= Cardinality(Users(p)')
        BY Zenon DEF RefsCounted
    <2>1. CASE p # o
        <3>1. Users(p)' = Users(p)
            BY Zenon, <1>1, <1>3, <1>4, <2>1 DEF Users, Using, TypeOK
        <3> QED
            BY Zenon, <1>12, <2>1, <3>1 DEF RefsCounted
    <2>2. CASE p = o
        <3>1. Users(o)' = Users(o) \cup {c} /\ c \notin Users(o)
            BY Zenon, <1>1, <1>3, <1>4 DEF Users, Using, TypeOK
        <3>2. /\ Cardinality(Users(o)') = Cardinality(Users(o)) + 1
              /\ Cardinality(Users(o)) \in Nat
            BY Zenon, <3>1, UsersFinite, FS_AddElement
        <3>3. CASE locks[s] = None
            <4>1. Cardinality(Users(o)) = 0
                BY Zenon, <1>13, <3>3, FS_EmptySet
            <4>2. refs'[o] = 1
                BY Zenon, <1>1, <3>3 DEF TypeOK
            <4> QED
                BY <2>2, <3>2, <4>1, <4>2
        <3>4. CASE locks[s] # None
            <4>1. o \in Mapped /\ refs'[o] = refs[o] + 1 /\ refs[o] \in Nat
                BY Zenon, <1>0, <1>1, <3>4 DEF Mapped, TypeOK
            <4>2. refs[o] >= Cardinality(Users(o))
                BY Zenon, <4>1 DEF RefsCounted
            <4> QED
                BY <2>2, <3>2, <4>1, <4>2
        <3> QED
            BY Zenon, <3>3, <3>4
    <2> QED
        BY Zenon, <2>1, <2>2
<1>15. \A p, t : Readers(p, t)' = Readers(p, t)
    BY Zenon, <1>3, <1>4 DEF Readers, Holders
<1>16. CountsMatch'
    <2> SUFFICES ASSUME NEW p \in Mapped', NEW t \in FileTypes
                 PROVE  /\ r'[p][t] = Cardinality(Readers(p, t))
                        /\ t \in w'[p] <=> \E d \in Holders : slk[d] = p /\ t \in req[d].write
        BY <1>3, <1>4, <1>15 DEF CountsMatch, Holders
    <2>1. CASE p # o \/ locks[s] # None
        BY <1>0, <1>1, <1>12, <2>1 DEF CountsMatch, Mapped
    <2>2. CASE p = o /\ locks[s] = None
        <3>1. r'[o][t] = 0 /\ w'[o] = {}
            BY <1>1, <2>2 DEF TypeOK
        <3>2. ~ \E d \in Holders : slk[d] = o
            BY Zenon, <1>1, <2>2 DEF Unreachable, Holders, Using
        <3> QED
            BY Zenon, <1>13, <2>2, <3>1, <3>2, FS_EmptySet
    <2> QED
        BY Zenon, <2>1, <2>2
<1>17. Exclusion'
    BY <1>3, <1>4 DEF Exclusion, Holders, Conflict
<1>18. NoLostWakeup'
    <2> SUFFICES ASSUME NEW d \in Clients, pc'[d] = "waiting"
                 PROVE  ~canLock(slk[d], req[d])'
        BY Zenon DEF NoLostWakeup, canLock
    <2>1. d # c /\ pc[d] = "waiting" /\ d \in Using
        BY Zenon, <1>2, <1>4 DEF TypeOK, Using
    <2>2. locks[s] = None => slk[d] # o
        BY Zenon, <1>1, <2>1 DEF Unreachable
    <2>3. slk[d] \in Objects
        BY Zenon, <2>1 DEF TypeOK
    <2>4. r'[slk[d]] = r[slk[d]]
        BY Zenon, <1>1, <2>2, <2>3 DEF TypeOK
    <2>5. w'[slk[d]] = w[slk[d]]
        BY Zenon, <1>1, <2>2, <2>3 DEF TypeOK
    <2> QED
        BY <1>4, <2>1, <2>4, <2>5 DEF NoLostWakeup, canLock
<1> QED
    BY Zenon, <1>5, <1>9, <1>10, <1>14, <1>16, <1>17, <1>18

(* Clients of one sector hold the same object, and clients of one object   *)
(* ask for the same sector.                                                *)
LEMMA SameSector ==
    ASSUME Inv, NEW c \in Using, NEW d \in Using
    PROVE  req[c].sector = req[d].sector <=> slk[c] = slk[d]
<1>1. /\ req[c].sector \in Sectors /\ req[d].sector \in Sectors
      /\ slk[c] # None /\ slk[d] # None
    BY Zenon, RequestType DEF Inv, TypeOK, Using
<1> QED
    BY Zenon, <1>1 DEF Inv, OneObject, OwnObject

(* lock succeeds: the counts grow by the client's request. *)
LEMMA LockInv ==
    ASSUME Inv, NEW c \in Clients, lock(c)
    PROVE  Inv'
<1> USE DEF Inv
<1> DEFINE o == slk[c]
           q == req[c]
<1>0. /\ pc[c] \in {"locking", "woken"} /\ canLock(o, q)
      /\ r' = [r EXCEPT ![o] =
                  [t \in FileTypes |-> IF t \in q.read THEN @[t] + 1 ELSE @[t]]]
      /\ w' = [w EXCEPT ![o] = @ \cup q.write]
      /\ pc' = [pc EXCEPT ![c] = "held"]
      /\ UNCHANGED <<locks, refs, req, slk, done>>
    BY Zenon DEF lock
<1>1. c \in Using /\ c \notin Holders /\ Using' = Using /\ Holders' = Holders \cup {c}
    BY Zenon, <1>0 DEF Using, Holders, TypeOK
<1>2. /\ q \in Requests /\ q # None /\ o \in Objects
      /\ q.sector \in Sectors /\ q.read \subseteq FileTypes /\ q.write \subseteq FileTypes
    BY Zenon, <1>1, RequestType DEF TypeOK, Using
<1> HIDE DEF q, o
<1>3. /\ \A p \in Objects : p # o => r'[p] = r[p] /\ w'[p] = w[p]
      /\ w'[o] = w[o] \cup q.write
      /\ \A t \in FileTypes :
             r'[o][t] = IF t \in q.read THEN r[o][t] + 1 ELSE r[o][t]
    BY Zenon, <1>0, <1>2 DEF TypeOK
<1>4. TypeOK'
    <2>1. [t \in FileTypes |-> IF t \in q.read THEN r[o][t] + 1 ELSE r[o][t]]
              \in [FileTypes -> Nat]
        BY <1>2 DEF TypeOK
    <2>2. r' \in [Objects -> [FileTypes -> Nat]]
        BY Zenon, <1>0, <2>1 DEF TypeOK
    <2>3. w' \in [Objects -> SUBSET FileTypes]
        BY Zenon, <1>0, <1>2 DEF TypeOK
    <2>4. pc' \in [Clients -> {"idle", "locking", "waiting", "woken", "held"}]
        BY Zenon, <1>0 DEF TypeOK
    <2> QED
        BY Zenon, <1>0, <1>1, <2>2, <2>3, <2>4 DEF TypeOK
<1>5. OneObject' /\ OwnObject' /\ Mapped' = Mapped /\ o \in Mapped
    <2>1. locks[q.sector] = o
        BY Zenon, <1>1 DEF OneObject, q, o
    <2> QED
        BY Zenon, <1>0, <1>1, <1>2, <2>1 DEF OneObject, OwnObject, Mapped
<1>6. RefsCounted'
    <2>1. \A p : Users(p)' = Users(p)
        BY Zenon, <1>0, <1>1 DEF Users
    <2> QED
        BY Zenon, <1>0, <1>5, <2>1 DEF RefsCounted
<1>7. CountsMatch'
    <2> SUFFICES ASSUME NEW p \in Mapped, NEW t \in FileTypes
                 PROVE  /\ r'[p][t] = Cardinality(Readers(p, t)')
                        /\ t \in w'[p] <=> \E d \in Holders' : slk[d] = p /\ t \in req[d].write
        BY <1>0, <1>5 DEF CountsMatch
    <2>0. p \in Objects
        BY Zenon DEF Mapped
    <2>1. t \in w'[p] <=> \E d \in Holders' : slk[d] = p /\ t \in req[d].write
        <3>1. CASE p # o
            BY Zenon, <1>1, <1>3, <2>0, <3>1 DEF CountsMatch, o
        <3>2. CASE p = o
            BY Zenon, <1>1, <1>3, <3>2 DEF CountsMatch, o, q
        <3> QED
            BY Zenon, <3>1, <3>2
    <2>2. CASE p = o /\ t \in q.read
        <3>1. Readers(p, t)' = Readers(p, t) \cup {c} /\ c \notin Readers(p, t)
            BY Zenon, <1>0, <1>1, <2>2 DEF Readers, Holders, o, q
        <3>2. Cardinality(Readers(p, t)') = Cardinality(Readers(p, t)) + 1
            BY Zenon, <3>1, ReadersFinite, FS_AddElement
        <3> QED
            BY <1>3, <2>1, <2>2, <3>2 DEF CountsMatch
    <2>3. CASE ~(p = o /\ t \in q.read)
        <3>1. Readers(p, t)' = Readers(p, t)
            BY Zenon, <1>0, <1>1, <2>3 DEF Readers, Holders, o, q
        <3>2. r'[p][t] = r[p][t]
            BY Zenon, <1>3, <2>0, <2>3
        <3> QED
            BY Zenon, <2>1, <3>1, <3>2 DEF CountsMatch
    <2> QED
        BY Zenon, <2>2, <2>3
<1>8. ASSUME NEW d \in Holders PROVE ~Conflict(q, req[d]) /\ ~Conflict(req[d], q)
    <2> SUFFICES ASSUME q.sector = req[d].sector
                 PROVE  /\ q.write \cap (req[d].read \cup req[d].write) = {}
                        /\ req[d].write \cap (q.read \cup q.write) = {}
        BY Zenon DEF Conflict
    <2>1. d \in Using /\ slk[d] = o
        BY Zenon, <1>1, SameSector DEF Using, Holders, q, o
    <2>2. req[d].read \subseteq FileTypes /\ req[d].write \subseteq FileTypes
        BY Zenon, <2>1, RequestType DEF TypeOK, Using
    <2>3. ASSUME NEW t \in FileTypes, t \in req[d].read PROVE t \notin q.write
        <3>1. d \in Readers(o, t)
            BY Zenon, <2>1, <2>3 DEF Readers
        <3>2. Cardinality(Readers(o, t)) >= 1
            BY Zenon, <3>1, ReadersFinite, CountOne
        <3>3. r[o][t] # 0
            BY <1>5, <3>2 DEF CountsMatch
        <3> QED
            BY Zenon, <1>0, <3>3 DEF canLock
    <2>4. ASSUME NEW t \in FileTypes, t \in req[d].write PROVE t \in w[o]
        BY Zenon, <1>5, <2>1, <2>4 DEF CountsMatch
    <2> QED
        BY Zenon, <1>0, <1>2, <2>2, <2>3, <2>4 DEF canLock
<1>9. Exclusion'
    <2> SUFFICES ASSUME NEW d \in Holders', NEW e \in Holders', d # e
                 PROVE  ~Conflict(req[d], req[e])
        BY Zenon, <1>0 DEF Exclusion, Conflict
    <2> QED
        BY Zenon, <1>1, <1>8 DEF Exclusion, q
<1>10. NoLostWakeup'
    <2> SUFFICES ASSUME NEW d \in Clients, pc'[d] = "waiting"
                 PROVE  ~canLock(slk[d], req[d])'
        BY Zenon DEF NoLostWakeup, canLock
    <2>1. pc[d] = "waiting" /\ ~canLock(slk[d], req[d])
        BY Zenon, <1>0 DEF NoLostWakeup, TypeOK
    <2>2. slk[d] \in Objects /\ req[d].write \subseteq FileTypes
        BY Zenon, <2>1, RequestType DEF TypeOK, Using
    <2>3. w[slk[d]] \subseteq w'[slk[d]]
        BY Zenon, <1>3, <2>2
    <2>4. \A t \in FileTypes : r[slk[d]][t] # 0 => r'[slk[d]][t] # 0
        BY <1>3, <2>2 DEF TypeOK
    <2> QED
        BY Zenon, <1>0, <2>1, <2>2, <2>3, <2>4 DEF canLock
<1> QED
    BY Zenon, <1>4, <1>5, <1>6, <1>7, <1>9, <1>10

(* A step that only moves a client from one state without a lock to        *)
(* another, and lets it wait only when it cannot lock.                     *)
LEMMA MoveInv ==
    ASSUME Inv, UNCHANGED <<locks, r, w, refs, req, slk>>, TypeOK',
           Using' = Using, Holders' = Holders,
           \A d \in Clients : pc'[d] = "waiting" => ~canLock(slk[d], req[d])
    PROVE  Inv'
<1> USE DEF Inv
<1>1. OneObject' /\ OwnObject' /\ Mapped' = Mapped
    BY Zenon DEF OneObject, OwnObject, Mapped
<1>2. \A o, t : Users(o)' = Users(o) /\ Readers(o, t)' = Readers(o, t)
    BY Zenon DEF Users, Readers
<1>3. RefsCounted' /\ CountsMatch'
    BY <1>1, <1>2 DEF RefsCounted, CountsMatch
<1>4. Exclusion' /\ NoLostWakeup'
    BY Zenon DEF Exclusion, Conflict, NoLostWakeup, canLock
<1> QED
    BY Zenon, <1>1, <1>3, <1>4

(* release: exactly the client's part of the counts is taken back, and the *)
(* object leaves the map only if nobody else uses it.                      *)
LEMMA ReleaseInv ==
    ASSUME Inv, NEW c \in Clients, release(c)
    PROVE  Inv'
<1> USE DEF Inv
<1>a. PICK o, q, s : o = slk[c] /\ q = req[c] /\ s = q.sector
    BY Zenon
<1>0. /\ pc[c] = "held"
      /\ r' = [r EXCEPT ![o] =
                  [t \in FileTypes |-> IF t \in q.read THEN @[t] - 1 ELSE @[t]]]
      /\ w' = [w EXCEPT ![o] = @ \ q.write]
      /\ pc' = Broadcast(o, [pc EXCEPT ![c] = "idle"])
      /\ refs' = [refs EXCEPT ![o] = @ - 1]
      /\ locks' = [locks EXCEPT ![s] = IF refs[o] = 1 THEN None ELSE @]
      /\ req' = [req EXCEPT ![c] = None]
      /\ slk' = [slk EXCEPT ![c] = None]
      /\ done' = done \ {c}
    BY Zenon, <1>a DEF release, unlock, dropUnused
<1>1. c \in Using /\ c \in Holders
    BY Zenon, <1>0 DEF Using, Holders
<1>2. /\ q \in Requests /\ o \in Objects /\ s \in Sectors /\ None \notin Objects
      /\ q.read \subseteq FileTypes /\ q.write \subseteq FileTypes
      /\ locks[s] = o /\ o \in Mapped
    BY Zenon, <1>a, <1>1, RequestType, ConstantsAssumption
       DEF TypeOK, Using, OneObject, Mapped, ConstantsAssumption
<1>3. \A d \in Clients : d # c =>
          /\ req'[d] = req[d] /\ slk'[d] = slk[d]
          /\ pc'[d] = IF pc[d] = "waiting" /\ slk[d] = o THEN "woken" ELSE pc[d]
    BY Zenon, <1>0 DEF Broadcast, TypeOK
<1>4. pc'[c] = "idle"
    BY Zenon, <1>0 DEF Broadcast, TypeOK
<1>5. Using' = Using \ {c} /\ Holders' = Holders \ {c}
    BY <1>3, <1>4 DEF Using, Holders, TypeOK
<1>6. /\ \A p \in Objects : p # o => r'[p] = r[p] /\ w'[p] = w[p] /\ refs'[p] = refs[p]
      /\ w'[o] = w[o] \ q.write
      /\ refs'[o] = refs[o] - 1
      /\ \A t \in FileTypes :
             r'[o][t] = IF t \in q.read THEN r[o][t] - 1 ELSE r[o][t]
    BY Zenon, <1>0, <1>2 DEF TypeOK
<1>7. /\ c \in Users(o) /\ Cardinality(Users(o)) \in Nat /\ Cardinality(Users(o)) >= 1
      /\ refs[o] \in Nat /\ refs[o] >= Cardinality(Users(o))
      /\ Users(o)' = Users(o) \ {c}
      /\ Cardinality(Users(o)') = Cardinality(Users(o)) - 1
      /\ refs[o] = 1 => Users(o) = {c}
    <2>1. c \in Users(o)
        BY Zenon, <1>a, <1>1 DEF Users
    <2>2. refs[o] \in Nat /\ refs[o] >= Cardinality(Users(o))
        BY Zenon, <1>2 DEF RefsCounted, TypeOK
    <2>3. Users(o)' = Users(o) \ {c}
        BY Zenon, <1>3, <1>5 DEF Users, Using
    <2>4. /\ Cardinality(Users(o)) \in Nat /\ Cardinality(Users(o)) >= 1
          /\ Cardinality(Users(o)) <= 1 => Users(o) = {c}
          /\ Cardinality(Users(o) \ {c}) = Cardinality(Users(o)) - 1
        BY Zenon, <2>1, UsersFinite, CountOne
    <2> QED
        BY Zenon, <2>1, <2>2, <2>3, <2>4
<1>8. ASSUME NEW t \in FileTypes, t \in q.read
      PROVE  /\ r[o][t] \in Nat /\ r[o][t] >= 1
             /\ r'[o][t] = Cardinality(Readers(o, t)')
    <2>1. c \in Readers(o, t) /\ Readers(o, t)' = Readers(o, t) \ {c}
        BY Zenon, <1>a, <1>1, <1>3, <1>5, <1>8 DEF Readers, Holders
    <2>2. r[o][t] = Cardinality(Readers(o, t))
        BY Zenon, <1>2 DEF CountsMatch
    <2>3. /\ Cardinality(Readers(o, t)) \in Nat /\ Cardinality(Readers(o, t)) >= 1
          /\ Cardinality(Readers(o, t) \ {c}) = Cardinality(Readers(o, t)) - 1
        BY Zenon, <2>1, ReadersFinite, CountOne
    <2> QED
        BY Zenon, <1>6, <1>8, <2>1, <2>2, <2>3
<1>9. TypeOK'
    <2>1. [t \in FileTypes |-> IF t \in q.read THEN r[o][t] - 1 ELSE r[o][t]]
              \in [FileTypes -> Nat]
        BY <1>2, <1>8 DEF TypeOK
    <2>2. r' \in [Objects -> [FileTypes -> Nat]]
        BY Zenon, <1>0, <2>1 DEF TypeOK
    <2>3. w' \in [Objects -> SUBSET FileTypes]
        BY Zenon, <1>0 DEF TypeOK
    <2>4. refs' \in [Objects -> Nat]
        BY <1>0, <1>6, <1>7 DEF TypeOK
    <2>5. /\ locks' \in [Sectors -> Objects \cup {None}]
          /\ req' \in [Clients -> Requests \cup {None}]
          /\ slk' \in [Clients -> Objects \cup {None}]
          /\ done' \subseteq Clients
        BY Zenon, <1>0 DEF TypeOK
    <2>6. pc' \in [Clients -> {"idle", "locking", "waiting", "woken", "held"}]
        BY Zenon, <1>0 DEF TypeOK, Broadcast
    <2>7. \A d \in Using' : req'[d] # None /\ slk'[d] # None
        BY Zenon, <1>3, <1>5 DEF TypeOK, Using
    <2> QED
        BY Zenon, <2>2, <2>3, <2>4, <2>5, <2>6, <2>7 DEF TypeOK
<1>10. /\ \A u \in Sectors : u # s => locks'[u] = locks[u]
       /\ locks'[s] = IF refs[o] = 1 THEN None ELSE o
    BY Zenon, <1>0, <1>2 DEF TypeOK
<1>11. OneObject'
    <2> SUFFICES ASSUME NEW d \in Using' PROVE locks'[req'[d].sector] = slk'[d]
        BY Zenon DEF OneObject
    <2>1. d \in Using /\ d # c /\ req'[d] = req[d] /\ slk'[d] = slk[d]
        BY Zenon, <1>3, <1>5 DEF Using
    <2>2. req[d].sector \in Sectors /\ locks[req[d].sector] = slk[d]
        BY Zenon, <2>1, RequestType DEF OneObject, TypeOK, Using
    <2>3. req[d].sector = s => slk[d] = o /\ d \in Users(o)
        BY Zenon, <1>2, <2>1, <2>2 DEF Users
    <2> QED
        BY Zenon, <1>2, <1>7, <1>10, <2>1, <2>2, <2>3
<1>12. OwnObject'
    BY <1>2, <1>10 DEF OwnObject
<1>13. Mapped' \subseteq Mapped
    BY Zenon, <1>2, <1>10 DEF Mapped
<1>14. RefsCounted'
    <2> SUFFICES ASSUME NEW p \in Mapped' PROVE refs'[p] >= Cardinality(Users(p)')
        BY Zenon DEF RefsCounted
    <2>1. CASE p = o
        <3>1. refs'[o] >= Cardinality(Users(o)')
            BY <1>6, <1>7
        <3> QED
            BY Zenon, <2>1, <3>1
    <2>2. CASE p # o
        <3>1. Users(p)' = Users(p)
            BY Zenon, <1>a, <1>3, <1>5, <2>2 DEF Users, Using
        <3> QED
            BY Zenon, <1>6, <1>13, <2>2, <3>1 DEF RefsCounted, Mapped
    <2> QED
        BY Zenon, <2>1, <2>2
<1>15. CountsMatch'
    <2> SUFFICES ASSUME NEW p \in Mapped', NEW t \in FileTypes
                 PROVE  /\ r'[p][t] = Cardinality(Readers(p, t)')
                        /\ t \in w'[p] <=>
                               \E d \in Holders' : slk'[d] = p /\ t \in req'[d].write
        BY Zenon DEF CountsMatch
    <2>0. p \in Mapped /\ p \in Objects
        BY Zenon, <1>13 DEF Mapped
    <2>1. (\E d \in Holders' : slk'[d] = p /\ t \in req'[d].write)
              <=> \E d \in Holders \ {c} : slk[d] = p /\ t \in req[d].write
        BY Zenon, <1>3, <1>5 DEF Holders
    <2>2. CASE p = o
        <3>1. ASSUME NEW d \in Holders \ {c}, slk[d] = o, t \in req[d].write
              PROVE  t \notin q.write
            <4>1. req[d].sector = s
                BY Zenon, <1>a, <1>1, <3>1, SameSector DEF Using, Holders
            <4>2. ~Conflict(req[d], q)
                BY Zenon, <1>a, <1>1, <3>1 DEF Exclusion
            <4> QED
                BY Zenon, <1>a, <3>1, <4>1, <4>2 DEF Conflict
        <3>2. t \in w[o] <=> \E d \in Holders : slk[d] = o /\ t \in req[d].write
            BY Zenon, <1>2 DEF CountsMatch
        <3>3. t \in w'[o] <=> \E d \in Holders \ {c} : slk[d] = o /\ t \in req[d].write
            BY Zenon, <1>a, <1>6, <3>1, <3>2
        <3>4. t \notin q.read => r'[o][t] = Cardinality(Readers(o, t)')
            <4>1. t \notin q.read => Readers(o, t)' = Readers(o, t)
                BY Zenon, <1>a, <1>3, <1>5 DEF Readers, Holders
            <4> QED
                BY <1>2, <1>6, <4>1 DEF CountsMatch
        <3> QED
            BY Zenon, <1>8, <2>1, <2>2, <3>3, <3>4
    <2>3. CASE p # o
        <3>1. Readers(p, t)' = Readers(p, t)
            BY Zenon, <1>a, <1>3, <1>5, <2>3 DEF Readers, Holders
        <3>2. \A d \in Holders : slk[d] = p => d # c
            BY Zenon, <1>a, <2>3
        <3> QED
            BY <1>6, <2>0, <2>1, <2>3, <3>1, <3>2 DEF CountsMatch
    <2> QED
        BY Zenon, <2>2, <2>3
<1>16. Exclusion'
    BY <1>3, <1>5 DEF Exclusion, Holders, Conflict
<1>17. NoLostWakeup'
    <2> SUFFICES ASSUME NEW d \in Clients, pc'[d] = "waiting"
                 PROVE  ~canLock(slk[d], req[d])'
        BY DEF NoLostWakeup, canLock
    <2>1. d # c /\ pc[d] = "waiting" /\ slk[d] # o
        BY Zenon, <1>3, <1>4
    <2>2. slk[d] \in Objects
        BY Zenon, <2>1 DEF TypeOK, Using
    <2> QED
        BY <1>3, <1>6, <2>1, <2>2 DEF NoLostWakeup, canLock
<1> QED
    BY Zenon, <1>9, <1>11, <1>12, <1>14, <1>15, <1>16, <1>17

(* Every step keeps the invariant. *)
LEMMA InvStep == Inv /\ [Next]_vars => Inv'
<1> SUFFICES ASSUME Inv, [Next]_vars PROVE Inv'
    BY Zenon
<1>1. ASSUME NEW c \in Clients, lockFails(c) PROVE Inv'
    <2>1. CASE req[c].try
        BY Zenon, <1>1, <2>1, LeaveInv DEF lockFails
    <2>2. CASE ~req[c].try
        <3>1. /\ pc' = [pc EXCEPT ![c] = "waiting"]
              /\ UNCHANGED <<locks, r, w, refs, req, slk, done>>
              /\ pc[c] \in {"locking", "woken"} /\ ~canLock(slk[c], req[c])
            BY Zenon, <1>1, <2>2 DEF lockFails
        <3>2. Using' = Using /\ Holders' = Holders
            BY Zenon, <3>1 DEF Using, Holders, Inv, TypeOK
        <3>3. TypeOK'
            BY Zenon, <3>1, <3>2 DEF Inv, TypeOK
        <3>4. \A d \in Clients : pc'[d] = "waiting" => ~canLock(slk[d], req[d])
            BY Zenon, <3>1 DEF Inv, NoLostWakeup, TypeOK
        <3> QED
            BY Zenon, <3>1, <3>2, <3>3, <3>4, MoveInv
    <2> QED
        BY Zenon, <2>1, <2>2
<1>2. ASSUME NEW c \in Clients, contextDone(c) PROVE Inv'
    <2>1. UNCHANGED <<locks, r, w, refs, pc, req, slk>> /\ done' \subseteq Clients
        BY Zenon, <1>2 DEF contextDone, Inv, TypeOK
    <2>2. Using' = Using /\ Holders' = Holders
        BY Zenon, <2>1 DEF Using, Holders
    <2>3. TypeOK'
        BY Zenon, <2>1, <2>2 DEF Inv, TypeOK
    <2> QED
        BY Zenon, <2>1, <2>2, <2>3, MoveInv DEF Inv, NoLostWakeup
<1>3. ASSUME NEW c \in Clients, waitCancelled(c) PROVE Inv'
    BY Zenon, <1>3, LeaveInv DEF waitCancelled
<1>4. CASE UNCHANGED vars
    <2>1. UNCHANGED <<locks, r, w, refs, pc, req, slk, done>>
        BY Zenon, <1>4 DEF vars
    <2>2. Using' = Using /\ Holders' = Holders
        BY Zenon, <2>1 DEF Using, Holders
    <2>3. TypeOK'
        BY Zenon, <2>1, <2>2 DEF Inv, TypeOK
    <2> QED
        BY Zenon, <2>1, <2>2, <2>3, MoveInv DEF Inv, NoLostWakeup
<1> QED
    BY Zenon, <1>1, <1>2, <1>3, <1>4, LockWithInv, LockInv, ReleaseInv DEF Next

(* All the invariants of the sector locks hold in every reachable state. *)
THEOREM Invariance == Spec => []Inv
BY InvInit, InvStep, PTL DEF Spec

(* The object fields keep their types, the read counts stay natural        *)
(* numbers however lock and unlock interleave.                             *)
THEOREM TypeCorrect == Spec => []TypeOK
BY Invariance, PTL DEF Inv

(* All clients that use a sector use the object the map has for it, so     *)
(* dropping an unreferenced object never splits the lock in two.           *)
THEOREM SingleObject == Spec => []OneObject
BY Invariance, PTL DEF Inv

(* The locks granted for a sector never conflict. *)
THEOREM LocksExclude == Spec => []Exclusion
BY Invariance, PTL DEF Inv

(* The read counts and write bits of an object in the map say exactly what *)
(* its holders hold.                                                       *)
THEOREM CountsAreExact == Spec => []CountsMatch
BY Invariance, PTL DEF Inv

(* An object in the map counts at least the clients that work on it, so it *)
(* is not dropped while one of them does.                                  *)
THEOREM ReferencesAreCounted == Spec => []RefsCounted
BY Invariance, PTL DEF Inv

(* A client that waits and has not been woken could not lock. *)
THEOREM WakeupsAreKept == Spec => []NoLostWakeup
BY Invariance, PTL DEF Inv

(* A step that moves no client into or out of "held" is not seen by the    *)
(* abstract lock.                                                          *)
LEMMA Unseen ==
    ASSUME Holders' = Holders, \A d \in Holders : req'[d] = req[d]
    PROVE  held' = held
<1>1. \A d \in Clients : pc'[d] = "held" <=> pc[d] = "held"
    BY Zenon DEF Holders
<1> QED
    BY Zenon, <1>1 DEF held, Holders

(* Every step of the index is a grant, a release or nothing at all to the  *)
(* abstract lock.                                                          *)
LEMMA StepRefines == Inv /\ Inv' /\ [Next]_vars => [Abstract!Next]_held
<1> SUFFICES ASSUME Inv, Inv', [Next]_vars PROVE Abstract!Next \/ held' = held
    BY Zenon
<1> USE DEF Inv
<1>0. \A q \in Requests : q # None
    BY Zenon, ConstantsAssumption DEF ConstantsAssumption
<1>1. ASSUME NEW c \in Clients, lock(c) PROVE Abstract!Next
    <2>1. /\ pc' = [pc EXCEPT ![c] = "held"] /\ UNCHANGED req
          /\ pc[c] \in {"locking", "woken"}
        BY Zenon, <1>1 DEF lock
    <2>2. req[c] \in Requests
        BY Zenon, <2>1 DEF TypeOK, Using
    <2>3. held[c] = None
        BY Zenon, <2>1 DEF held
    <2>4. ASSUME NEW d \in Clients, held[d] # None PROVE ~Conflict(req[c], held[d])
        <3>1. d # c /\ d \in Holders /\ held[d] = req[d]
            BY Zenon, <2>1, <2>4 DEF held, Holders
        <3>2. c \in Holders' /\ d \in Holders'
            BY Zenon, <2>1, <3>1 DEF Holders, TypeOK
        <3> QED
            BY Zenon, <2>1, <3>1, <3>2 DEF Exclusion, Conflict
    <2>5. held' = [held EXCEPT ![c] = req[c]]
        BY Zenon, <2>1 DEF held, TypeOK
    <2> QED
        BY Zenon, <2>2, <2>3, <2>4, <2>5 DEF Abstract!Next, Abstract!Acquire
<1>2. ASSUME NEW c \in Clients, release(c) PROVE Abstract!Next
    <2>1. /\ pc[c] = "held"
          /\ pc' = Broadcast(slk[c], [pc EXCEPT ![c] = "idle"])
          /\ req' = [req EXCEPT ![c] = None]
        BY Zenon, <1>2 DEF release, unlock
    <2>2. held[c] # None
        BY Zenon, <1>0, <2>1 DEF held, TypeOK, Using
    <2>3. held' = [held EXCEPT ![c] = None]
        BY Zenon, <2>1 DEF held, TypeOK, Broadcast
    <2> QED
        BY Zenon, <2>2, <2>3 DEF Abstract!Next, Abstract!Release
<1>3. ASSUME NEW c \in Clients, returns(c), pc[c] # "held" PROVE held' = held
    BY Zenon, <1>3, Unseen DEF returns, Holders, TypeOK
<1>4. ASSUME NEW c \in Clients, NEW q \in Requests, lockWith(c, q) PROVE held' = held
    BY Zenon, <1>4, Unseen DEF lockWith, Holders, TypeOK
<1>5. ASSUME NEW c \in Clients, lockFails(c) PROVE held' = held
    BY Zenon, <1>3, <1>5, Unseen DEF lockFails, Holders, TypeOK
<1>6. ASSUME NEW c \in Clients, contextDone(c) PROVE held' = held
    BY Zenon, <1>6, Unseen DEF contextDone, Holders
<1>7. ASSUME NEW c \in Clients, waitCancelled(c) PROVE held' = held
    BY Zenon, <1>3, <1>7 DEF waitCancelled
<1>8. CASE UNCHANGED vars
    BY Zenon, <1>8, Unseen DEF vars, Holders
<1> QED
    BY Zenon, <1>1, <1>2, <1>4, <1>5, <1>6, <1>7, <1>8 DEF Next

(* The sector index implements the abstract lock: a lock is granted only   *)
(* when it conflicts with none that is held, and it ends only by release.  *)
THEOREM Refinement == Spec => ImplementsLocks
<1>1. Init => Abstract!Init
    BY DEF Init, Abstract!Init, held
<1> QED
    BY <1>1, StepRefines, Invariance, PTL DEF Spec, ImplementsLocks, Abstract!Spec
=============================================================================
