---------------------- MODULE OrchestrationLockProofs ----------------------
(***************************************************************************)
(* Proofs about OrchestrationLock for any number of processes, threads,    *)
(* owners, domains and contexts.  The inductive invariant adds to the      *)
(* checked ones how descriptors and entries of the held table correspond.  *)
(***************************************************************************)
EXTENDS OrchestrationLock, FiniteSetTheorems, TLAPS

(* Phases in which a context that opened a descriptor has it locked. *)
HasLock(c) == phase[c] \in {"locked", "in", "releasing", "stranded"}

(* The kernel's lock belongs to a context that asked for it ... *)
FlockIsHeld ==
    \A l \in Locks : flock[l] # NoContext =>
        /\ ctx[flock[l]].lock = l
        /\ ~ctx[flock[l]].reentrant
        /\ HasLock(flock[l])

(* ... and each context past its poll loop has it. *)
HolderHasFlock ==
    \A c \in Contexts :
        HasLock(c) /\ ~ctx[c].reentrant => flock[ctx[c].lock] = c

(* A reentrant context is counted, and nested in one with the descriptor. *)
ReentrantIsIn == \A c \in Contexts : ctx[c].reentrant => phase[c] = "in"

Backing(c, d) ==
    /\ OwnerOf[d] = OwnerOf[c]
    /\ phase[d] = "in"
    /\ ~ctx[d].reentrant
    /\ ctx[d].lock = ctx[c].lock

ReentrantIsNested ==
    \A c \in Contexts : ctx[c].reentrant /\ OwnerOf[c] \notin ended =>
        \E d \in ctx[c].outer : Backing(c, d)

(* A finished task is past every wait. *)
EndedIsPast ==
    \A c \in Contexts : OwnerOf[c] \in ended =>
        phase[c] \in {"closed", "in", "releasing", "stranded"}

Inv ==
    /\ TypeOK
    /\ FlockIsHeld
    /\ HolderHasFlock
    /\ ReentrantIsIn
    /\ ReentrantIsNested
    /\ EndedIsPast
    /\ DepthIsNesting
    /\ CanonicalOrder

-----------------------------------------------------------------------------
(* Counting the recorded contexts.                                         *)

(* The contexts an owner recorded on a lock are finitely many, and a zero  *)
(* depth means there is none: what _HELD_LOCKS's missing entry means.      *)
LEMMA RecordedFinite ==
    ASSUME NEW o, NEW l
    PROVE  /\ IsFiniteSet(RecordedOn(o, l))
           /\ Cardinality(RecordedOn(o, l)) \in Nat
           /\ Cardinality(RecordedOn(o, l)) = 0 <=> RecordedOn(o, l) = {}
<1>1. RecordedOn(o, l) \in SUBSET Contexts
  BY DEF RecordedOn
<1>2. IsFiniteSet(RecordedOn(o, l))
  BY <1>1, FS_Subset, ConstantsAssumption
<1>. QED  BY <1>2, FS_CardinalityType, FS_EmptySet

(* The depth goes up by one exactly when one more context is recorded. *)
LEMMA DepthUp ==
    ASSUME TypeOK, DepthIsNesting,
           NEW c \in Contexts, NEW l \in Locks, phase[c] # "in",
           phase' = [phase EXCEPT ![c] = "in"],
           \A d \in Contexts : d # c => ctx'[d] = ctx[d],
           ctx'[c].lock = l,
           held' = [held EXCEPT ![l][OwnerOf[c]] = @ + 1]
    PROVE  DepthIsNesting'
<1> SUFFICES ASSUME NEW o \in Owners, NEW k \in Locks
             PROVE  held'[k][o] = Cardinality(RecordedOn(o, k)')
  BY DEF DepthIsNesting
<1>1. held[k][o] = Cardinality(RecordedOn(o, k))
  BY DEF DepthIsNesting
<1>2. CASE o = OwnerOf[c] /\ k = l
  <2>1. RecordedOn(o, k)' = RecordedOn(o, k) \cup {c}
    BY <1>2 DEF RecordedOn, TypeOK
  <2>2. c \notin RecordedOn(o, k)
    BY DEF RecordedOn
  <2>3. Cardinality(RecordedOn(o, k)') = Cardinality(RecordedOn(o, k)) + 1
    BY <2>1, <2>2, RecordedFinite, FS_AddElement
  <2>4. held'[k][o] = held[k][o] + 1
    BY <1>2 DEF TypeOK
  <2>. QED  BY <1>1, <2>3, <2>4
<1>3. CASE ~(o = OwnerOf[c] /\ k = l)
  <2>1. RecordedOn(o, k)' = RecordedOn(o, k)
    BY <1>3 DEF RecordedOn, TypeOK
  <2>2. held'[k][o] = held[k][o]
    BY <1>3 DEF TypeOK
  <2>. QED  BY <1>1, <2>1, <2>2
<1>. QED  BY <1>2, <1>3

(* The depth goes down by one exactly when a recorded context leaves. *)
LEMMA DepthDown ==
    ASSUME TypeOK, DepthIsNesting, NEW c \in Contexts, phase[c] = "in",
           Unrecord(c)
    PROVE  DepthIsNesting' /\ held' \in [Locks -> [Owners -> Nat]]
<1> DEFINE l == ctx[c].lock
<1>0. /\ l \in Locks
      /\ OwnerOf[c] \in Owners
      /\ held' = [held EXCEPT ![l][OwnerOf[c]] = @ - 1]
  BY ConstantsAssumption DEF TypeOK, Context, Unrecord
<1>1. /\ phase'[c] # "in"
      /\ \A d \in Contexts : d # c => phase'[d] = phase[d] /\ ctx'[d] = ctx[d]
  BY DEF Unrecord, Close, TypeOK
<1>2. ASSUME NEW o \in Owners, NEW k \in Locks
      PROVE  held'[k][o] = Cardinality(RecordedOn(o, k)') /\ held'[k][o] \in Nat
  <2>1. held[k][o] = Cardinality(RecordedOn(o, k))
    BY DEF DepthIsNesting
  <2>2. CASE o = OwnerOf[c] /\ k = l
    <3>1. RecordedOn(o, k)' = RecordedOn(o, k) \ {c}
      BY <1>1, <2>2 DEF RecordedOn, TypeOK
    <3>2. c \in RecordedOn(o, k)
      BY <2>2 DEF RecordedOn
    <3>3. Cardinality(RecordedOn(o, k)') = Cardinality(RecordedOn(o, k)) - 1
      BY <3>1, <3>2, RecordedFinite, FS_RemoveElement
    <3>4. Cardinality(RecordedOn(o, k)) # 0
      BY <3>2, RecordedFinite
    <3>5. held'[k][o] = held[k][o] - 1
      BY <1>0, <2>2 DEF TypeOK
    <3>. QED  BY <2>1, <3>3, <3>4, <3>5, RecordedFinite
  <2>3. CASE ~(o = OwnerOf[c] /\ k = l)
    <3>1. RecordedOn(o, k)' = RecordedOn(o, k)
      BY <1>1, <2>3 DEF RecordedOn, TypeOK
    <3>2. held'[k][o] = held[k][o]
      BY <1>0, <2>3 DEF TypeOK
    <3>. QED  BY <2>1, <3>1, <3>2 DEF TypeOK
  <2>. QED  BY <2>2, <2>3
<1>3. held' \in [Locks -> [Owners -> Nat]]
  BY <1>0, <1>2 DEF TypeOK
<1>. QED  BY <1>2, <1>3 DEF DepthIsNesting

(* Steps that record and unrecord nothing keep the depths. *)
LEMMA DepthKept ==
    ASSUME DepthIsNesting, held' = held,
           \A c \in Contexts :
              \/ phase'[c] = phase[c] /\ ctx'[c] = ctx[c]
              \/ phase[c] # "in" /\ phase'[c] # "in"
    PROVE  DepthIsNesting'
<1>1. \A o \in Owners, l \in Locks : RecordedOn(o, l)' = RecordedOn(o, l)
  BY DEF RecordedOn
<1>. QED  BY <1>1 DEF DepthIsNesting

-----------------------------------------------------------------------------
(* Type correctness.                                                       *)

(* Every step of the lock code keeps the variables in their types. *)
LEMMA TypeStep == TypeOK /\ DepthIsNesting /\ [Next]_vars => TypeOK'
<1> SUFFICES ASSUME TypeOK, DepthIsNesting, [Next]_vars
             PROVE  TypeOK'
  OBVIOUS
<1> USE ConstantsAssumption
<1>0. Unused \in Context
  BY DEF Unused, Context, Locks
<1>1. ASSUME NEW c \in Contexts, NEW l \in Locks, NEW async \in BOOLEAN,
             NewContext(c, l, async, TRUE) \/ NewContext(c, l, async, FALSE)
      PROVE  ctx' \in [Contexts -> Context]
  <2>1. OpenOf(OwnerOf[c]) \subseteq Contexts
    BY DEF OpenOf
  <2>2. PICK r \in BOOLEAN : ctx' = [ctx EXCEPT ![c] =
           [lock |-> l, async |-> async, reentrant |-> r,
            outer |-> OpenOf(OwnerOf[c])]]
    BY <1>1 DEF NewContext
  <2>3. [lock |-> l, async |-> async, reentrant |-> r,
         outer |-> OpenOf(OwnerOf[c])] \in Context
    BY <2>1 DEF Context
  <2>. QED  BY <2>2, <2>3 DEF TypeOK
<1>2. ASSUME NEW S, Close(S)
      PROVE  /\ phase' \in [Contexts -> Phases]
             /\ ctx' \in [Contexts -> Context]
             /\ expired' \subseteq Contexts
  BY <1>0, <1>2 DEF Close, TypeOK, Phases
<1>3. ASSUME NEW c \in Contexts, phase[c] = "in", Unrecord(c)
      PROVE  TypeOK'
  <2>1. held' \in [Locks -> [Owners -> Nat]]
    BY <1>3, DepthDown
  <2>. QED  BY <1>2, <1>3, <2>1 DEF Unrecord, TypeOK, Phases
<1>4. ASSUME NEW c \in Contexts, NEW l \in Locks, NEW async \in BOOLEAN,
             Reenter(c, l, async)
      PROVE  TypeOK'
  <2>1. ctx' \in [Contexts -> Context]
    BY <1>1, <1>4 DEF Reenter
  <2>2. held' \in [Locks -> [Owners -> Nat]]
    BY <1>4 DEF Reenter, TypeOK
  <2>. QED  BY <1>4, <2>1, <2>2 DEF Reenter, TypeOK, Phases
<1>5. ASSUME NEW c \in Contexts, NEW l \in Locks, NEW async \in BOOLEAN,
             StartWait(c, l, async)
      PROVE  TypeOK'
  <2>1. ctx' \in [Contexts -> Context]
    BY <1>1, <1>5 DEF StartWait
  <2>. QED  BY <1>5, <2>1 DEF StartWait, TypeOK, Phases
<1>6. ASSUME NEW c \in Contexts, DeadlinePasses(c)
      PROVE  TypeOK'
  BY <1>6 DEF DeadlinePasses, TypeOK
<1>7. ASSUME NEW c \in Contexts, TryLock(c)
      PROVE  TypeOK'
  BY <1>7 DEF TryLock, TypeOK, Phases
<1>8. ASSUME NEW c \in Contexts, TimeOut(c) \/ Cancel(c)
      PROVE  TypeOK'
  BY <1>2, <1>8 DEF TimeOut, Cancel, TypeOK
<1>9. ASSUME NEW c \in Contexts, RecordAcquisition(c)
      PROVE  TypeOK'
  <2>1. ctx[c].lock \in Locks
    BY DEF TypeOK, Context
  <2>2. held' \in [Locks -> [Owners -> Nat]]
    BY <1>9, <2>1 DEF RecordAcquisition, TypeOK
  <2>. QED  BY <1>9, <2>2 DEF RecordAcquisition, TypeOK, Phases
<1>10. ASSUME NEW c \in Contexts, RecordRaises(c)
       PROVE  TypeOK'
  BY <1>2, <1>10 DEF RecordRaises, TypeOK, Phases
<1>11. ASSUME NEW c \in Contexts, Exit(c) \/ OwnerTaskDone(c)
       PROVE  TypeOK'
  BY <1>3, <1>11 DEF Exit, OwnerTaskDone
<1>12. ASSUME NEW c \in Contexts, ReleaseFd(c)
       PROVE  TypeOK'
  BY <1>2, <1>12 DEF ReleaseFd, TypeOK
<1>13. ASSUME NEW o \in Owners, TaskDone(o) \/ Collect(o)
       PROVE  TypeOK'
  BY <1>13 DEF TaskDone, Collect, TypeOK
<1>14. ASSUME NEW p \in Processes, ProcessDies(p)
       PROVE  TypeOK'
  BY <1>2, <1>14 DEF ProcessDies, TypeOK
<1>15. CASE UNCHANGED vars
  BY <1>15 DEF vars, TypeOK
<1>. QED
  BY <1>4, <1>5, <1>6, <1>7, <1>8, <1>9, <1>10, <1>11, <1>12, <1>13, <1>14,
     <1>15 DEF Next

-----------------------------------------------------------------------------
(* Preservation of the invariant, one lemma per action.                    *)

(* The part of the invariant that relates contexts, descriptors and tasks. *)
Links ==
    /\ FlockIsHeld
    /\ HolderHasFlock
    /\ ReentrantIsIn
    /\ ReentrantIsNested
    /\ EndedIsPast
    /\ CanonicalOrder

(* The order can only be broken by opening a context or reviving a task. *)
LEMMA OrderKept ==
    ASSUME CanonicalOrder,
           \A c \in Contexts : Open(c)' /\ OwnerOf[c] \notin ended' =>
              Open(c) /\ OwnerOf[c] \notin ended /\ ctx'[c].lock = ctx[c].lock
    PROVE  CanonicalOrder'
BY DEF CanonicalOrder, OpenOf

(* What closing one context does to the arrays. *)
LEMMA CloseOne ==
    ASSUME TypeOK, NEW c \in Contexts, Close({c})
    PROVE  /\ phase' = [phase EXCEPT ![c] = "closed"]
           /\ ctx' = [ctx EXCEPT ![c] = Unused]
BY DEF Close, TypeOK

(* A positive depth of a live owner is backed by a context that has the    *)
(* descriptor.                                                             *)
LEMMA DepthIsBacked ==
    ASSUME TypeOK, Links, DepthIsNesting,
           NEW o \in Owners, NEW l \in Locks, o \notin ended, held[l][o] > 0
    PROVE  \E d \in RecordedOn(o, l) : ~ctx[d].reentrant /\ flock[l] = d
<1>1. Cardinality(RecordedOn(o, l)) # 0
  BY DEF DepthIsNesting
<1>2. PICK c \in RecordedOn(o, l) : TRUE
  BY <1>1, RecordedFinite
<1>3. CASE ~ctx[c].reentrant
  BY <1>2, <1>3 DEF RecordedOn, Links, HolderHasFlock, HasLock
<1>4. CASE ctx[c].reentrant
  <2>1. PICK d \in ctx[c].outer : Backing(c, d)
    BY <1>2, <1>4 DEF RecordedOn, Links, ReentrantIsNested
  <2>2. d \in Contexts
    BY <1>2 DEF RecordedOn, TypeOK, Context
  <2>3. d \in RecordedOn(o, l)
    BY <1>2, <2>1, <2>2 DEF RecordedOn, Backing
  <2>. QED
    BY <2>1, <2>3 DEF RecordedOn, Backing, Links, HolderHasFlock, HasLock
<1>. QED  BY <1>3, <1>4

(* The reentrant path finds the outer context that has the descriptor. *)
LEMMA ReenterStep ==
    ASSUME Inv, NEW c \in Contexts, NEW l \in Locks, NEW async \in BOOLEAN,
           Reenter(c, l, async)
    PROVE  Links' /\ DepthIsNesting'
<1> DEFINE o == OwnerOf[c]
<1>0. /\ TypeOK /\ Links /\ DepthIsNesting
      /\ o \in Owners /\ o \notin ended
      /\ \A d \in OpenOf(o) : phase[d] = "in"
  BY ConstantsAssumption DEF Inv, Links, Reenter, InBody
<1>1. /\ phase[c] = "closed"
      /\ phase' = [phase EXCEPT ![c] = "in"]
      /\ ctx' = [ctx EXCEPT ![c] = [lock |-> l, async |-> async,
                   reentrant |-> TRUE, outer |-> OpenOf(o)]]
      /\ flock' = flock /\ ended' = ended
      /\ held' = [held EXCEPT ![l][o] = @ + 1]
  BY DEF Reenter, NewContext
<1>2. /\ \A d \in Contexts : d # c => phase'[d] = phase[d] /\ ctx'[d] = ctx[d]
      /\ phase'[c] = "in" /\ ctx'[c].lock = l /\ ctx'[c].reentrant
      /\ ctx'[c].outer = OpenOf(o)
  BY <1>0, <1>1 DEF TypeOK
<1>3. PICK b \in RecordedOn(o, l) : ~ctx[b].reentrant /\ flock[l] = b
  BY <1>0, DepthIsBacked DEF Reenter, Reentrant
<1>4. b \in Contexts /\ b \in OpenOf(o) /\ b # c
  BY <1>1, <1>3 DEF RecordedOn, OpenOf, Open
<1>5. FlockIsHeld' /\ HolderHasFlock'
  BY <1>0, <1>1, <1>2 DEF Links, FlockIsHeld, HolderHasFlock, HasLock, TypeOK
<1>6. ReentrantIsIn' /\ EndedIsPast'
  BY <1>0, <1>1, <1>2 DEF Links, ReentrantIsIn, EndedIsPast
<1>7. ReentrantIsNested'
  <2> SUFFICES ASSUME NEW d \in Contexts, ctx'[d].reentrant,
                      OwnerOf[d] \notin ended'
               PROVE  \E e \in ctx'[d].outer : Backing(d, e)'
    BY DEF ReentrantIsNested
  <2>1. CASE d = c
    BY <1>2, <1>3, <1>4, <2>1 DEF Backing, RecordedOn
  <2>2. CASE d # c
    <3>1. PICK e \in ctx[d].outer : Backing(d, e)
      BY <1>0, <1>1, <1>2, <2>2 DEF Links, ReentrantIsNested
    <3>2. e \in Contexts /\ e # c
      BY <1>1, <3>1 DEF Inv, TypeOK, Context, Backing
    <3>. QED  BY <1>2, <2>2, <3>1, <3>2 DEF Backing
  <2>. QED  BY <2>1, <2>2
<1>8. CanonicalOrder'
  <2>1. \A d \in OpenOf(o) : (ctx[d].lock = Global) <=> (l = Global)
    BY <1>0, <1>3, <1>4 DEF Links, CanonicalOrder, RecordedOn
  <2>. QED
    BY <1>0, <1>1, <1>2, <2>1 DEF Links, CanonicalOrder, OpenOf, Open
<1>9. DepthIsNesting'
  BY <1>0, <1>1, <1>2, DepthUp
<1>. QED  BY <1>5, <1>6, <1>7, <1>8, <1>9 DEF Links

(* The order check lets an owner wait only for a lock of the scope it      *)
(* already holds.                                                          *)
LEMMA StartWaitStep ==
    ASSUME Inv, NEW c \in Contexts, NEW l \in Locks, NEW async \in BOOLEAN,
           StartWait(c, l, async)
    PROVE  Links' /\ DepthIsNesting'
<1> DEFINE o == OwnerOf[c]
<1>0. /\ TypeOK /\ Links /\ DepthIsNesting
      /\ o \in Owners /\ o \notin ended
      /\ \A d \in OpenOf(o) : phase[d] = "in"
  BY ConstantsAssumption DEF Inv, Links, StartWait, InBody
<1>1. /\ phase[c] = "closed"
      /\ phase' = [phase EXCEPT ![c] = "waiting"]
      /\ ctx' = [ctx EXCEPT ![c] = [lock |-> l, async |-> async,
                   reentrant |-> FALSE, outer |-> OpenOf(o)]]
      /\ flock' = flock /\ ended' = ended /\ held' = held
  BY DEF StartWait, NewContext
<1>2. /\ \A d \in Contexts : d # c => phase'[d] = phase[d] /\ ctx'[d] = ctx[d]
      /\ phase'[c] = "waiting" /\ ctx'[c].lock = l /\ ~ctx'[c].reentrant
  BY <1>0, <1>1 DEF TypeOK
<1>5. FlockIsHeld' /\ HolderHasFlock'
  BY <1>0, <1>1, <1>2 DEF Links, FlockIsHeld, HolderHasFlock, HasLock, TypeOK
<1>6. ReentrantIsIn' /\ EndedIsPast'
  BY <1>0, <1>1, <1>2 DEF Links, ReentrantIsIn, EndedIsPast
<1>7. ReentrantIsNested'
  <2> SUFFICES ASSUME NEW d \in Contexts, ctx'[d].reentrant,
                      OwnerOf[d] \notin ended'
               PROVE  \E e \in ctx'[d].outer : Backing(d, e)'
    BY DEF ReentrantIsNested
  <2>1. d # c /\ ctx[d].reentrant
    BY <1>2
  <2>2. PICK e \in ctx[d].outer : Backing(d, e)
    BY <1>0, <1>1, <2>1 DEF Links, ReentrantIsNested
  <2>3. e \in Contexts /\ e # c
    BY <1>1, <2>2 DEF Inv, TypeOK, Context, Backing
  <2>. QED  BY <1>2, <2>1, <2>2, <2>3 DEF Backing
<1>8. CanonicalOrder'
  <2>1. \A d \in OpenOf(o) : (ctx[d].lock = Global) <=> (l = Global)
    <3> SUFFICES ASSUME NEW d \in OpenOf(o)
                 PROVE  (ctx[d].lock = Global) <=> (l = Global)
      OBVIOUS
    <3>1. d \in RecordedOn(o, ctx[d].lock) /\ ctx[d].lock \in Locks
      BY <1>0 DEF OpenOf, RecordedOn, TypeOK, Context
    <3>2. held[ctx[d].lock][o] > 0
      BY <1>0, <3>1, RecordedFinite DEF DepthIsNesting
    <3>. QED
      BY <3>1, <3>2 DEF StartWait, OrderViolation, Locks
  <2>. QED
    BY <1>0, <1>1, <1>2, <2>1 DEF Links, CanonicalOrder, OpenOf, Open
<1>9. DepthIsNesting'
  BY <1>0, <1>1, <1>2, DepthKept
<1>. QED  BY <1>5, <1>6, <1>7, <1>8, <1>9 DEF Links

(* The steps of a wait record nothing and touch one context that no other  *)
(* one is backed by: it is not in its body before the step.                *)
LEMMA NestedKept ==
    ASSUME TypeOK, ReentrantIsNested,
           \A c \in Contexts : ctx'[c].reentrant /\ OwnerOf[c] \notin ended' =>
              ctx'[c] = ctx[c] /\ OwnerOf[c] \notin ended,
           \A c, d \in Contexts :
              /\ ctx'[c].reentrant /\ OwnerOf[c] \notin ended'
              /\ d \in ctx[c].outer /\ Backing(c, d)
              => phase'[d] = "in" /\ ctx'[d] = ctx[d]
    PROVE  ReentrantIsNested'
<1> SUFFICES ASSUME NEW c \in Contexts, ctx'[c].reentrant,
                    OwnerOf[c] \notin ended'
             PROVE  \E d \in ctx'[c].outer : Backing(c, d)'
  BY DEF ReentrantIsNested
<1>1. PICK d \in ctx[c].outer : Backing(c, d)
  BY DEF ReentrantIsNested
<1>2. d \in Contexts
  BY DEF TypeOK, Context
<1>. QED  BY <1>1, <1>2 DEF Backing

(* flock succeeds in the poll loop. *)
LEMMA TryLockStep ==
    ASSUME Inv, NEW c \in Contexts, TryLock(c)
    PROVE  Links' /\ DepthIsNesting'
<1>0. TypeOK /\ Links /\ DepthIsNesting
  BY DEF Inv, Links
<1>1. /\ phase[c] = "waiting" /\ flock[ctx[c].lock] = NoContext
      /\ phase' = [phase EXCEPT ![c] = "locked"]
      /\ flock' = [flock EXCEPT ![ctx[c].lock] = c]
      /\ ctx' = ctx /\ held' = held /\ ended' = ended
  BY DEF TryLock
<1>2. ~ctx[c].reentrant /\ ctx[c].lock \in Locks /\ OwnerOf[c] \notin ended
  BY <1>0, <1>1 DEF Links, ReentrantIsIn, EndedIsPast, TypeOK, Context
<1>3. FlockIsHeld' /\ HolderHasFlock'
  BY <1>0, <1>1, <1>2, ConstantsAssumption
  DEF Links, FlockIsHeld, HolderHasFlock, HasLock, TypeOK
<1>4. ReentrantIsIn' /\ EndedIsPast'
  BY <1>0, <1>1, <1>2 DEF Links, ReentrantIsIn, EndedIsPast, TypeOK
<1>5. ReentrantIsNested'
  BY <1>0, <1>1, NestedKept DEF Links, Backing, TypeOK
<1>6. CanonicalOrder'
  BY <1>0, <1>1, OrderKept DEF Links, Open, TypeOK
<1>7. DepthIsNesting'
  BY <1>0, <1>1, DepthKept DEF TypeOK
<1>. QED  BY <1>3, <1>4, <1>5, <1>6, <1>7 DEF Links

(* A wait ends without the lock: timeout or cancellation. *)
LEMMA GiveUpStep ==
    ASSUME Inv, NEW c \in Contexts, TimeOut(c) \/ Cancel(c)
    PROVE  Links' /\ DepthIsNesting'
<1>0. TypeOK /\ Links /\ DepthIsNesting
  BY DEF Inv, Links
<1>1. /\ phase[c] = "waiting"
      /\ phase' = [phase EXCEPT ![c] = "closed"]
      /\ ctx' = [ctx EXCEPT ![c] = Unused]
      /\ flock' = flock /\ held' = held /\ ended' = ended
  BY <1>0, CloseOne DEF TimeOut, Cancel
<1>2. ~ctx'[c].reentrant
  BY <1>0, <1>1 DEF Unused, TypeOK
<1>3. FlockIsHeld' /\ HolderHasFlock'
  BY <1>0, <1>1 DEF Links, FlockIsHeld, HolderHasFlock, HasLock, TypeOK
<1>4. ReentrantIsIn' /\ EndedIsPast'
  BY <1>0, <1>1, <1>2 DEF Links, ReentrantIsIn, EndedIsPast, TypeOK
<1>5. ReentrantIsNested'
  BY <1>0, <1>1, <1>2, NestedKept DEF Links, Backing, TypeOK
<1>6. CanonicalOrder'
  BY <1>0, <1>1, OrderKept DEF Links, Open, TypeOK
<1>7. DepthIsNesting'
  BY <1>0, <1>1, DepthKept DEF TypeOK
<1>. QED  BY <1>3, <1>4, <1>5, <1>6, <1>7 DEF Links

(* The acquisition is recorded and the body starts. *)
LEMMA RecordStep ==
    ASSUME Inv, NEW c \in Contexts, RecordAcquisition(c)
    PROVE  Links' /\ DepthIsNesting'
<1>0. TypeOK /\ Links /\ DepthIsNesting
  BY DEF Inv, Links
<1>1. /\ phase[c] = "locked"
      /\ phase' = [phase EXCEPT ![c] = "in"]
      /\ held' = [held EXCEPT ![ctx[c].lock][OwnerOf[c]] = @ + 1]
      /\ ctx' = ctx /\ flock' = flock /\ ended' = ended
  BY DEF RecordAcquisition
<1>2. ~ctx[c].reentrant /\ ctx[c].lock \in Locks
  BY <1>0, <1>1 DEF Links, ReentrantIsIn, TypeOK, Context
<1>3. FlockIsHeld' /\ HolderHasFlock'
  BY <1>0, <1>1 DEF Links, FlockIsHeld, HolderHasFlock, HasLock, TypeOK
<1>4. ReentrantIsIn' /\ EndedIsPast'
  BY <1>0, <1>1, <1>2 DEF Links, ReentrantIsIn, EndedIsPast, TypeOK
<1>5. ReentrantIsNested'
  BY <1>0, <1>1, NestedKept DEF Links, Backing, TypeOK
<1>6. CanonicalOrder'
  BY <1>0, <1>1, OrderKept DEF Links, Open, TypeOK
<1>7. DepthIsNesting'
  BY <1>0, <1>1, <1>2, DepthUp
<1>. QED  BY <1>3, <1>4, <1>5, <1>6, <1>7 DEF Links

(* A context that has a descriptor lets it go and is closed. *)
LEMMA UnlockStep ==
    ASSUME Inv, NEW c \in Contexts, phase[c] \in {"locked", "releasing"},
           flock' = [flock EXCEPT ![ctx[c].lock] = NoContext],
           Close({c}), held' = held, ended' = ended
    PROVE  Links' /\ DepthIsNesting'
<1>0. TypeOK /\ Links /\ DepthIsNesting
  BY DEF Inv, Links
<1>1. /\ phase' = [phase EXCEPT ![c] = "closed"]
      /\ ctx' = [ctx EXCEPT ![c] = Unused]
  BY <1>0, CloseOne
<1>2. ~ctx'[c].reentrant /\ ~ctx[c].reentrant /\ ctx[c].lock \in Locks
  BY <1>0, <1>1 DEF Unused, Links, ReentrantIsIn, TypeOK, Context
<1>3. FlockIsHeld' /\ HolderHasFlock'
  <2>1. flock[ctx[c].lock] = c
    BY <1>0, <1>2 DEF Links, HolderHasFlock, HasLock
  <2>2. \A d \in Contexts : d # c /\ HasLock(d) /\ ~ctx[d].reentrant
            => ctx[d].lock # ctx[c].lock
    BY <1>0, <2>1 DEF Links, HolderHasFlock
  <2>3. FlockIsHeld'
    BY <1>0, <1>1, <1>2, <2>1 DEF Links, FlockIsHeld, HasLock, TypeOK
  <2>4. HolderHasFlock'
    BY <1>0, <1>1, <1>2, <2>2 DEF Links, HolderHasFlock, HasLock, TypeOK, Context
  <2>. QED  BY <2>3, <2>4
<1>4. ReentrantIsIn' /\ EndedIsPast'
  BY <1>0, <1>1, <1>2 DEF Links, ReentrantIsIn, EndedIsPast, TypeOK
<1>5. ReentrantIsNested'
  BY <1>0, <1>1, <1>2, NestedKept DEF Links, Backing, TypeOK
<1>6. CanonicalOrder'
  BY <1>0, <1>1, OrderKept DEF Links, Open, TypeOK
<1>7. DepthIsNesting'
  BY <1>0, <1>1, DepthKept DEF TypeOK
<1>. QED  BY <1>3, <1>4, <1>5, <1>6, <1>7 DEF Links

(* Recording fails: the asynchronous context unlocks, the synchronous one  *)
(* keeps its descriptor and is stranded.                                   *)
LEMMA RecordRaisesStep ==
    ASSUME Inv, NEW c \in Contexts, RecordRaises(c)
    PROVE  Links' /\ DepthIsNesting'
<1>0. TypeOK /\ Links /\ DepthIsNesting
  BY DEF Inv, Links
<1>a. CASE ctx[c].async
  BY <1>a, UnlockStep DEF RecordRaises
<1>b. CASE ~ctx[c].async
  <2>1. /\ phase[c] = "locked"
        /\ phase' = [phase EXCEPT ![c] = "stranded"]
        /\ ctx' = ctx /\ flock' = flock /\ held' = held /\ ended' = ended
    BY <1>b DEF RecordRaises
  <2>2. ~ctx[c].reentrant
    BY <1>0, <2>1 DEF Links, ReentrantIsIn
  <2>3. FlockIsHeld' /\ HolderHasFlock'
    BY <1>0, <2>1 DEF Links, FlockIsHeld, HolderHasFlock, HasLock, TypeOK
  <2>4. ReentrantIsIn' /\ EndedIsPast'
    BY <1>0, <2>1, <2>2 DEF Links, ReentrantIsIn, EndedIsPast, TypeOK
  <2>5. ReentrantIsNested'
    BY <1>0, <2>1, NestedKept DEF Links, Backing, TypeOK
  <2>6. CanonicalOrder'
    BY <1>0, <2>1, OrderKept DEF Links, Open, TypeOK
  <2>7. DepthIsNesting'
    BY <1>0, <2>1, DepthKept DEF TypeOK
  <2>. QED  BY <2>3, <2>4, <2>5, <2>6, <2>7 DEF Links
<1>. QED  BY <1>a, <1>b

(* A block ends, or the done callback of a finished task ends it: no live  *)
(* reentrant context is left without the one that backs it.                *)
LEMMA UnrecordStep ==
    ASSUME Inv, NEW c \in Contexts, phase[c] = "in", Unrecord(c),
           \/ OwnerOf[c] \in ended
           \/ \A d \in OpenOf(OwnerOf[c]) : c \notin ctx[d].outer
    PROVE  Links' /\ DepthIsNesting'
<1>0. TypeOK /\ Links /\ DepthIsNesting
  BY DEF Inv, Links
<1>1. /\ flock' = flock /\ ended' = ended
      /\ \A d \in Contexts : d # c => phase'[d] = phase[d] /\ ctx'[d] = ctx[d]
      /\ phase'[c] \in {"closed", "releasing"}
      /\ ctx[c].reentrant => phase'[c] = "closed"
      /\ ~ctx[c].reentrant => phase'[c] = "releasing" /\ ctx'[c] = ctx[c]
      /\ ~ctx'[c].reentrant
  BY <1>0, CloseOne DEF Unrecord, Unused, TypeOK
<1>3. FlockIsHeld' /\ HolderHasFlock'
  BY <1>0, <1>1 DEF Links, FlockIsHeld, HolderHasFlock, HasLock, TypeOK
<1>4. ReentrantIsIn' /\ EndedIsPast'
  BY <1>0, <1>1 DEF Links, ReentrantIsIn, EndedIsPast, TypeOK
<1>5. ReentrantIsNested'
  <2>1. ASSUME NEW d \in Contexts, NEW e \in Contexts,
               ctx'[d].reentrant, OwnerOf[d] \notin ended',
               e \in ctx[d].outer, Backing(d, e)
        PROVE  e # c
    <3>1. d # c /\ ctx[d].reentrant /\ phase[d] = "in"
      BY <1>0, <1>1, <2>1 DEF Links, ReentrantIsIn
    <3>2. CASE OwnerOf[c] \in ended
      BY <1>1, <2>1, <3>2 DEF Backing
    <3>3. CASE \A b \in OpenOf(OwnerOf[c]) : c \notin ctx[b].outer
      BY <2>1, <3>1, <3>3 DEF Backing, OpenOf, Open
    <3>. QED  BY <3>2, <3>3
  <2>. QED  BY <1>0, <1>1, <2>1, NestedKept DEF Links, Backing
<1>6. CanonicalOrder'
  <2>1. \A d \in Contexts : Open(d)' => Open(d) /\ ctx'[d].lock = ctx[d].lock
    BY <1>1 DEF Open
  <2>. QED  BY <1>0, <1>1, <2>1, OrderKept DEF Links
<1>7. DepthIsNesting'
  BY <1>0, DepthDown
<1>. QED  BY <1>3, <1>4, <1>5, <1>6, <1>7 DEF Links

(* A task finishes inside its blocks, or the last of its callbacks ran. *)
LEMMA TaskStep ==
    ASSUME Inv, NEW o \in Owners, TaskDone(o) \/ Collect(o)
    PROVE  Links' /\ DepthIsNesting'
<1>0. TypeOK /\ Links /\ DepthIsNesting
  BY DEF Inv, Links
<1>1. phase' = phase /\ ctx' = ctx /\ flock' = flock /\ held' = held
  BY DEF TaskDone, Collect
<1>2. \A c \in Contexts : OwnerOf[c] \notin ended' /\ OwnerOf[c] \in ended
          => ~Open(c)
  BY <1>0 DEF TaskDone, Collect, OpenOf
<1>3. FlockIsHeld' /\ HolderHasFlock' /\ ReentrantIsIn'
  BY <1>0, <1>1 DEF Links, FlockIsHeld, HolderHasFlock, ReentrantIsIn, HasLock
<1>4. EndedIsPast'
  BY <1>0, <1>1 DEF Links, EndedIsPast, TaskDone, Collect, InBody, OpenOf, Open,
     TypeOK, Phases
<1>5. ReentrantIsNested'
  <2>1. \A c \in Contexts : ctx'[c].reentrant /\ OwnerOf[c] \notin ended' =>
            OwnerOf[c] \notin ended
    BY <1>0, <1>1, <1>2 DEF Links, ReentrantIsIn, Open
  <2>. QED  BY <1>0, <1>1, <2>1, NestedKept DEF Links, Backing
<1>6. CanonicalOrder'
  BY <1>0, <1>1, <1>2, OrderKept DEF Links, Open
<1>7. DepthIsNesting'
  BY <1>0, <1>1, DepthKept
<1>. QED  BY <1>3, <1>4, <1>5, <1>6, <1>7 DEF Links

(* A process dies: its descriptors, its table and its contexts go at once. *)
LEMMA ProcessDiesStep ==
    ASSUME Inv, NEW p \in Processes, ProcessDies(p)
    PROVE  Links' /\ DepthIsNesting'
<1> DEFINE D == ContextsOf(p)
<1>0. TypeOK /\ Links /\ DepthIsNesting
  BY DEF Inv, Links
<1>1. /\ \A c \in Contexts : c \in D => phase'[c] = "closed" /\ ctx'[c] = Unused
      /\ \A c \in Contexts : c \notin D => phase'[c] = phase[c] /\ ctx'[c] = ctx[c]
      /\ flock' = [l \in Locks |->
                     IF flock[l] \in D THEN NoContext ELSE flock[l]]
      /\ held' = [l \in Locks |-> [o \in Owners |->
                    IF o \in OwnersOf(p) THEN 0 ELSE held[l][o]]]
      /\ ended' = ended \ OwnersOf(p)
  BY DEF ProcessDies, Close
<1>2. \A c \in Contexts : c \in D <=> OwnerOf[c] \in OwnersOf(p)
  BY DEF ContextsOf
<1>3. FlockIsHeld' /\ HolderHasFlock'
  <2>1. FlockIsHeld'
    BY <1>0, <1>1 DEF Links, FlockIsHeld, HasLock, TypeOK
  <2>2. HolderHasFlock'
    <3> SUFFICES ASSUME NEW c \in Contexts, HasLock(c)', ~ctx'[c].reentrant
                 PROVE  flock'[ctx'[c].lock] = c
      BY DEF HolderHasFlock
    <3>1. c \notin D
      BY <1>1 DEF HasLock
    <3>2. flock[ctx[c].lock] = c /\ ctx'[c] = ctx[c]
      BY <1>0, <1>1, <3>1 DEF Links, HolderHasFlock, HasLock
    <3>3. ctx[c].lock \in Locks
      BY <1>0 DEF TypeOK, Context
    <3>. QED  BY <1>1, <3>1, <3>2, <3>3
  <2>. QED  BY <2>1, <2>2
<1>4. ReentrantIsIn' /\ EndedIsPast'
  BY <1>0, <1>1 DEF Links, ReentrantIsIn, EndedIsPast, Unused
<1>5. ReentrantIsNested'
  <2>1. \A c \in Contexts : ctx'[c].reentrant /\ OwnerOf[c] \notin ended'
            => c \notin D /\ ctx'[c] = ctx[c] /\ OwnerOf[c] \notin ended
    BY <1>1, <1>2 DEF Unused
  <2>2. \A c, d \in Contexts : c \notin D /\ Backing(c, d) => d \notin D
    BY <1>2 DEF Backing
  <2>3. \A c, d \in Contexts :
            /\ ctx'[c].reentrant /\ OwnerOf[c] \notin ended'
            /\ d \in ctx[c].outer /\ Backing(c, d)
            => phase'[d] = "in" /\ ctx'[d] = ctx[d]
    BY <1>1, <2>1, <2>2 DEF Backing
  <2>. QED  BY <1>0, <2>1, <2>3, NestedKept DEF Links
<1>6. CanonicalOrder'
  BY <1>0, <1>1, <1>2, OrderKept DEF Links, Open
<1>7. DepthIsNesting'
  <2> SUFFICES ASSUME NEW o \in Owners, NEW l \in Locks
               PROVE  held'[l][o] = Cardinality(RecordedOn(o, l)')
    BY DEF DepthIsNesting
  <2>1. CASE o \in OwnersOf(p)
    <3>1. RecordedOn(o, l)' = {}
      BY <1>1, <1>2, <2>1 DEF RecordedOn
    <3>. QED  BY <1>1, <2>1, <3>1, FS_EmptySet
  <2>2. CASE o \notin OwnersOf(p)
    <3>1. RecordedOn(o, l)' = RecordedOn(o, l)
      BY <1>1, <1>2, <2>2 DEF RecordedOn
    <3>. QED  BY <1>0, <1>1, <2>2, <3>1 DEF DepthIsNesting
  <2>. QED  BY <2>1, <2>2
<1>. QED  BY <1>3, <1>4, <1>5, <1>6, <1>7 DEF Links

-----------------------------------------------------------------------------
(* The invariant and what follows from it.                                 *)

(* Nothing is open, locked or recorded at the start. *)
LEMMA InvInit == Init => Inv
<1> SUFFICES ASSUME Init PROVE Inv
  OBVIOUS
<1> USE ConstantsAssumption DEF Init
<1>1. TypeOK
  BY DEF TypeOK, Phases, Context, Unused, Locks
<1>2. FlockIsHeld /\ HolderHasFlock /\ ReentrantIsIn /\ ReentrantIsNested
  BY DEF FlockIsHeld, HolderHasFlock, ReentrantIsIn, ReentrantIsNested, HasLock,
         Unused
<1>3. EndedIsPast /\ CanonicalOrder
  BY DEF EndedIsPast, CanonicalOrder, OpenOf, Open
<1>4. DepthIsNesting
  <2>1. \A o \in Owners, l \in Locks : RecordedOn(o, l) = {}
    BY DEF RecordedOn
  <2>. QED  BY <2>1, FS_EmptySet DEF DepthIsNesting
<1>. QED  BY <1>1, <1>2, <1>3, <1>4 DEF Inv

(* Every step keeps the invariant. *)
LEMMA InvStep == Inv /\ [Next]_vars => Inv'
<1> SUFFICES ASSUME Inv, [Next]_vars PROVE Inv'
  OBVIOUS
<1>0. TypeOK /\ Links /\ DepthIsNesting
  BY DEF Inv, Links
<1>1. TypeOK'
  BY <1>0, TypeStep
<1>2. ASSUME phase' = phase, ctx' = ctx, flock' = flock, held' = held,
             ended' = ended
      PROVE  Links' /\ DepthIsNesting'
  <2>1. FlockIsHeld' /\ HolderHasFlock' /\ ReentrantIsIn' /\ EndedIsPast'
    BY <1>0, <1>2
    DEF Links, FlockIsHeld, HolderHasFlock, ReentrantIsIn, EndedIsPast, HasLock
  <2>2. ReentrantIsNested'
    BY <1>0, <1>2, NestedKept DEF Links, Backing
  <2>3. CanonicalOrder'
    BY <1>0, <1>2, OrderKept DEF Links, Open
  <2>. QED  BY <1>0, <1>2, <2>1, <2>2, <2>3, DepthKept DEF Links
<1>3. ASSUME NEW c \in Contexts, DeadlinePasses(c)
      PROVE  Links' /\ DepthIsNesting'
  BY <1>2, <1>3 DEF DeadlinePasses
<1>4. ASSUME NEW c \in Contexts, ReleaseFd(c)
      PROVE  Links' /\ DepthIsNesting'
  BY <1>4, UnlockStep DEF ReleaseFd
<1>5. ASSUME NEW c \in Contexts, Exit(c) \/ OwnerTaskDone(c)
      PROVE  Links' /\ DepthIsNesting'
  BY <1>5, UnrecordStep DEF Exit, OwnerTaskDone
<1>6. ASSUME UNCHANGED vars
      PROVE  Links' /\ DepthIsNesting'
  <2>1. phase' = phase /\ ctx' = ctx /\ flock' = flock /\ held' = held
        /\ ended' = ended
    BY <1>6 DEF vars
  <2>. QED  BY <1>2, <2>1
<1>7. ASSUME NEW c \in Contexts, NEW l \in Locks, NEW async \in BOOLEAN,
             Reenter(c, l, async) \/ StartWait(c, l, async)
      PROVE  Links' /\ DepthIsNesting'
  BY <1>7, ReenterStep, StartWaitStep
<1>8. ASSUME NEW c \in Contexts, TryLock(c) \/ TimeOut(c) \/ Cancel(c)
      PROVE  Links' /\ DepthIsNesting'
  BY <1>8, TryLockStep, GiveUpStep
<1>9. ASSUME NEW c \in Contexts, RecordAcquisition(c) \/ RecordRaises(c)
      PROVE  Links' /\ DepthIsNesting'
  BY <1>9, RecordStep, RecordRaisesStep
<1>10. ASSUME NEW o \in Owners, TaskDone(o) \/ Collect(o)
       PROVE  Links' /\ DepthIsNesting'
  BY <1>10, TaskStep
<1>11. ASSUME NEW p \in Processes, ProcessDies(p)
       PROVE  Links' /\ DepthIsNesting'
  BY <1>11, ProcessDiesStep
<1>12. Links' /\ DepthIsNesting'
  BY <1>3, <1>4, <1>5, <1>6, <1>7, <1>8, <1>9, <1>10, <1>11 DEF Next
<1>. QED  BY <1>1, <1>12 DEF Inv, Links

(* The inductive invariant holds in every reachable state. *)
THEOREM InvHolds == Spec => []Inv
<1>. QED  BY InvInit, InvStep, PTL DEF Spec

(* The variables of the lock code keep their types: depths never go below  *)
(* zero, descriptors belong to contexts.                                   *)
THEOREM TypeCorrect == Spec => []TypeOK
<1>1. Inv => TypeOK
  BY DEF Inv
<1>. QED  BY <1>1, InvHolds, PTL

(* An entry of _HELD_LOCKS of a live owner is backed by its own flock. *)
THEOREM RecordedLocked == Spec => []RecordedIsLocked
<1>1. Inv => RecordedIsLocked
  BY DepthIsBacked DEF Inv, Links, RecordedIsLocked
<1>. QED  BY <1>1, InvHolds, PTL

(* Two owners inside one lock would both own its descriptor. *)
LEMMA InvExcludes == Inv => MutualExclusion
<1> SUFFICES ASSUME Inv, NEW l \in Locks, NEW o \in Inside(l), NEW p \in Inside(l)
             PROVE  o = p
  BY DEF MutualExclusion
<1>1. /\ o \in Owners /\ o \notin ended /\ held[l][o] > 0
      /\ p \in Owners /\ p \notin ended /\ held[l][p] > 0
  BY RecordedFinite DEF Inside, Inv, DepthIsNesting
<1>2. flock[l] \in RecordedOn(o, l) /\ flock[l] \in RecordedOn(p, l)
  BY <1>1, DepthIsBacked DEF Inv, Links
<1>. QED  BY <1>2 DEF RecordedOn

(* Two owners are never inside bodies guarded by the same lock, for any    *)
(* number of processes, threads and tasks and any depth of nesting.        *)
THEOREM Exclusive == Spec => []MutualExclusion
<1>. QED  BY InvExcludes, InvHolds, PTL

(* No live owner mixes the global workflow lock with a target lock, so the *)
(* global lock is on no cycle of waiting owners.                           *)
THEOREM OrderHolds == Spec => []CanonicalOrder
<1>1. Inv => CanonicalOrder
  BY DEF Inv
<1>. QED  BY <1>1, InvHolds, PTL

(* The recorded depth counts the blocks entered and not left. *)
THEOREM DepthHolds == Spec => []DepthIsNesting
<1>1. Inv => DepthIsNesting
  BY DEF Inv
<1>. QED  BY <1>1, InvHolds, PTL

(* Only the synchronous path leaves a context stranded. *)
StrandedIsSync == \A c \in Contexts : phase[c] = "stranded" => ~ctx[c].async

LEMMA StrandedInit == Init => StrandedIsSync
BY DEF Init, StrandedIsSync

LEMMA StrandedStep == TypeOK /\ StrandedIsSync /\ [Next]_vars => StrandedIsSync'
<1> SUFFICES ASSUME TypeOK, StrandedIsSync, [Next]_vars,
                    NEW c \in Contexts, phase'[c] = "stranded"
             PROVE  ~ctx'[c].async
  BY DEF StrandedIsSync
<1>1. CASE phase[c] = "stranded"
  <2>1. ~ctx[c].async
    BY <1>1 DEF StrandedIsSync
  <2>2. ctx'[c] = ctx[c]
    <3>1. ASSUME NEW S, Close(S) PROVE ctx'[c] = ctx[c]
      BY <3>1 DEF Close
    <3>2. ASSUME NEW d \in Contexts, NEW l \in Locks, NEW async \in BOOLEAN,
                 Reenter(d, l, async) \/ StartWait(d, l, async)
          PROVE  ctx'[c] = ctx[c]
      BY <1>1, <3>2 DEF Reenter, StartWait, NewContext, TypeOK
    <3>3. QED
      BY <3>1, <3>2 DEF Next, vars, DeadlinePasses, TryLock, TimeOut, Cancel,
            RecordAcquisition, RecordRaises, Exit, Unrecord, ReleaseFd, OwnerTaskDone,
            TaskDone, Collect, ProcessDies
  <2>3. QED
    BY <2>1, <2>2
<1>2. CASE phase[c] # "stranded"
  <2>1. RecordRaises(c) /\ ~ctx[c].async
    <3>1. ASSUME NEW S, Close(S) PROVE FALSE
      BY <1>2, <3>1 DEF Close
    <3>2. ASSUME NEW d \in Contexts, NEW l \in Locks, NEW async \in BOOLEAN,
                 Reenter(d, l, async) \/ StartWait(d, l, async)
          PROVE  FALSE
      BY <1>2, <3>2 DEF Reenter, StartWait, TypeOK
    <3>3. PICK d \in Contexts : RecordRaises(d)
      BY <1>2, <3>1, <3>2 DEF Next, vars, DeadlinePasses, TryLock, TimeOut, Cancel,
            RecordAcquisition, Exit, Unrecord, ReleaseFd, OwnerTaskDone,
            TaskDone, Collect, ProcessDies, TypeOK
    <3>4. QED
      BY <1>2, <3>1, <3>3 DEF RecordRaises, TypeOK
  <2>2. QED
    BY <1>2, <2>1 DEF RecordRaises
<1>3. QED
  BY <1>1, <1>2

(* "cancellation cannot strand an acquired fd": a lock file the kernel     *)
(* holds belongs to an open context, which will release it, or to one      *)
(* whose synchronous __enter__ failed.                                     *)
THEOREM NoAsyncStranded == Spec => []NothingStrandedByAsync
<1>1. Inv /\ StrandedIsSync => NothingStrandedByAsync
  <2> SUFFICES ASSUME Inv, StrandedIsSync, NEW l \in Locks, flock[l] # NoContext
               PROVE  \/ Open(flock[l])
                      \/ phase[flock[l]] = "stranded" /\ ~ctx[flock[l]].async
    BY DEF NothingStrandedByAsync
  <2>1. flock[l] \in Contexts /\ HasLock(flock[l])
    BY DEF Inv, TypeOK, FlockIsHeld
  <2>2. QED
    BY <2>1 DEF HasLock, Open, StrandedIsSync
<1>2. Inv => TypeOK
  BY DEF Inv
<1>3. QED
  BY <1>1, <1>2, InvHolds, StrandedInit, StrandedStep, PTL DEF Spec

-----------------------------------------------------------------------------
(* The lock implements the abstract exclusion.                             *)

In == [l \in Locks |-> Inside(l)]

(* A step that records and ends nothing is no step of the abstraction. *)
LEMMA InsideKept ==
    ASSUME ended' = ended,
           \A o \in Owners \ ended, l \in Locks :
              (RecordedOn(o, l)' = {}) <=> (RecordedOn(o, l) = {})
    PROVE  In' = In
<1>1. \A l \in Locks : Inside(l)' = Inside(l)
  BY DEF Inside
<1>. QED  BY <1>1 DEF In

(* A step that opens and closes only contexts outside a body is invisible. *)
LEMMA NothingRecorded ==
    ASSUME ended' = ended,
           \A c \in Contexts :
              \/ phase'[c] = phase[c] /\ ctx'[c] = ctx[c]
              \/ phase[c] # "in" /\ phase'[c] # "in"
    PROVE  In' = In
<1>1. \A o \in Owners, l \in Locks : RecordedOn(o, l)' = RecordedOn(o, l)
  BY DEF RecordedOn
<1>. QED  BY <1>1, InsideKept

(* Polling, giving up, unlocking and stranding are invisible. *)
LEMMA InvisibleSteps ==
    ASSUME TypeOK, NEW c \in Contexts,
           \/ DeadlinePasses(c) \/ TryLock(c) \/ TimeOut(c) \/ Cancel(c)
           \/ RecordRaises(c) \/ ReleaseFd(c)
    PROVE  In' = In
<1>1. /\ ended' = ended
      /\ \/ phase' = phase /\ ctx' = ctx
         \/ /\ phase[c] # "in"
            /\ ctx' = ctx \/ ctx' = [ctx EXCEPT ![c] = Unused]
            /\ \E s \in {"locked", "stranded", "closed"} :
                  phase' = [phase EXCEPT ![c] = s]
  BY CloseOne DEF DeadlinePasses, TryLock, TimeOut, Cancel, RecordRaises, ReleaseFd
<1>2. \A d \in Contexts :
         \/ phase'[d] = phase[d] /\ ctx'[d] = ctx[d]
         \/ phase[d] # "in" /\ phase'[d] # "in"
  BY <1>1 DEF TypeOK
<1>. QED  BY <1>1, <1>2, NothingRecorded

(* Starting to wait is invisible, and so is entering again. *)
LEMMA BeginSteps ==
    ASSUME Inv, NEW c \in Contexts, NEW l \in Locks, NEW async \in BOOLEAN,
           Reenter(c, l, async) \/ StartWait(c, l, async)
    PROVE  In' = In
<1>0. TypeOK /\ Links /\ DepthIsNesting
  BY DEF Inv, Links
<1>1. CASE StartWait(c, l, async)
  <2>1. /\ ended' = ended /\ phase[c] = "closed"
        /\ phase' = [phase EXCEPT ![c] = "waiting"]
        /\ \A d \in Contexts : d # c => ctx'[d] = ctx[d]
    BY <1>0, <1>1 DEF StartWait, NewContext, TypeOK
  <2>. QED  BY <1>0, <2>1, NothingRecorded DEF TypeOK
<1>2. CASE Reenter(c, l, async)
  <2>1. /\ ended' = ended /\ phase[c] = "closed"
        /\ phase' = [phase EXCEPT ![c] = "in"]
        /\ \A d \in Contexts : d # c => ctx'[d] = ctx[d]
        /\ ctx'[c].lock = l
    BY <1>0, <1>2 DEF Reenter, NewContext, TypeOK
  <2>2. OwnerOf[c] \in Owners /\ OwnerOf[c] \notin ended /\ held[l][OwnerOf[c]] > 0
    BY <1>2, ConstantsAssumption DEF Reenter, InBody, Reentrant
  <2>3. PICK b \in RecordedOn(OwnerOf[c], l) : TRUE
    BY <1>0, <2>2, DepthIsBacked
  <2>4. \A o \in Owners, k \in Locks :
           (RecordedOn(o, k)' = {}) <=> (RecordedOn(o, k) = {})
    <3> SUFFICES ASSUME NEW o \in Owners, NEW k \in Locks
                 PROVE  (RecordedOn(o, k)' = {}) <=> (RecordedOn(o, k) = {})
      OBVIOUS
    <3>1. CASE o = OwnerOf[c] /\ k = l
      <4>1. b \in RecordedOn(o, k)'
        BY <1>0, <2>1, <2>3, <3>1 DEF RecordedOn, TypeOK
      <4>. QED  BY <2>3, <3>1, <4>1
    <3>2. CASE ~(o = OwnerOf[c] /\ k = l)
      <4>1. RecordedOn(o, k)' = RecordedOn(o, k)
        BY <1>0, <2>1, <3>2 DEF RecordedOn, TypeOK
      <4>. QED  BY <4>1
    <3>. QED  BY <3>1, <3>2
  <2>. QED  BY <2>1, <2>4, InsideKept
<1>. QED  BY <1>1, <1>2

(* Recording an acquisition is the abstract entry. *)
LEMMA EnterStep ==
    ASSUME Inv, NEW c \in Contexts, RecordAcquisition(c)
    PROVE  \E o \in Owners, l \in Locks :
              /\ Inside(l) = {}
              /\ \A k \in Exclusion!Conflicting(l) : o \notin Inside(k)
              /\ In' = [In EXCEPT ![l] = {o}]
<1> DEFINE o == OwnerOf[c]
<1>0. TypeOK /\ Links /\ DepthIsNesting
  BY DEF Inv, Links
<1>l. PICK l \in Locks : l = ctx[c].lock
  BY <1>0 DEF TypeOK, Context
<1>1. /\ phase[c] = "locked" /\ ended' = ended /\ ctx' = ctx
      /\ phase' = [phase EXCEPT ![c] = "in"]
  BY DEF RecordAcquisition
<1>2. o \in Owners /\ l \in Locks /\ o \notin ended
  BY <1>0, <1>1, ConstantsAssumption DEF Links, EndedIsPast
<1>3. flock[l] = c
  BY <1>0, <1>1, <1>l DEF Links, HolderHasFlock, HasLock, ReentrantIsIn
<1>4. Inside(l) = {}
  <2> SUFFICES ASSUME NEW p \in Inside(l) PROVE FALSE
    OBVIOUS
  <2>1. p \in Owners /\ p \notin ended /\ held[l][p] > 0
    BY <1>0, <1>2, RecordedFinite DEF Inside, DepthIsNesting
  <2>2. c \in RecordedOn(p, l)
    BY <1>0, <1>2, <1>3, <2>1, DepthIsBacked
  <2>. QED  BY <1>1, <2>2 DEF RecordedOn
<1>5. \A k \in Exclusion!Conflicting(l) : o \notin Inside(k)
  <2> SUFFICES ASSUME NEW k \in Exclusion!Conflicting(l), o \in Inside(k)
               PROVE  FALSE
    OBVIOUS
  <2>1. PICK d \in RecordedOn(o, k) : TRUE
    BY DEF Inside
  <2>2. c \in OpenOf(o) /\ d \in OpenOf(o) /\ ctx[d].lock = k
    BY <1>1, <2>1 DEF RecordedOn, OpenOf, Open
  <2>3. (l = Global) <=> (k = Global)
    BY <1>0, <1>2, <1>l, <2>2 DEF Links, CanonicalOrder
  <2>. QED  BY <1>2, <2>3, ConstantsAssumption DEF Exclusion!Conflicting, Locks
<1>6. In' = [In EXCEPT ![l] = {o}]
  <2>1. \A p \in Owners, k \in Locks : p # o \/ k # l
           => RecordedOn(p, k)' = RecordedOn(p, k)
    BY <1>0, <1>1, <1>l DEF RecordedOn, TypeOK
  <2>2. c \in RecordedOn(o, l)'
    BY <1>0, <1>1, <1>l DEF RecordedOn, TypeOK
  <2>3. Inside(l)' = {o}
    BY <1>1, <1>2, <1>4, <2>1, <2>2 DEF Inside
  <2>4. \A k \in Locks : k # l => Inside(k)' = Inside(k)
    BY <1>1, <2>1 DEF Inside
  <2>. QED  BY <1>2, <2>3, <2>4 DEF In
<1>. QED  BY <1>2, <1>4, <1>5, <1>6

(* Ending a block is the abstract exit when it is the owner's last one on  *)
(* the lock, and invisible otherwise or when the task has already ended.   *)
LEMMA LeaveStep ==
    ASSUME Inv, NEW c \in Contexts, Exit(c) \/ OwnerTaskDone(c)
    PROVE  \/ In' = In
           \/ \E o \in Owners, l \in Locks :
                 o \in Inside(l) /\ In' = [In EXCEPT ![l] = {}]
<1> DEFINE o == OwnerOf[c]
<1>0. TypeOK /\ Links /\ DepthIsNesting
  BY DEF Inv, Links
<1>l. PICK l \in Locks : l = ctx[c].lock
  BY <1>0 DEF TypeOK, Context
<1>1. /\ phase[c] = "in" /\ ended' = ended /\ Unrecord(c)
      /\ o \in Owners
  BY ConstantsAssumption DEF Exit, OwnerTaskDone, Unrecord
<1>2. /\ \A d \in Contexts : d # c => phase'[d] = phase[d] /\ ctx'[d] = ctx[d]
      /\ phase'[c] # "in"
  BY <1>0, <1>1, CloseOne DEF Unrecord, TypeOK
<1>3. \A p \in Owners, k \in Locks : p # o \/ k # l
         => RecordedOn(p, k)' = RecordedOn(p, k)
  BY <1>1, <1>2, <1>l DEF RecordedOn
<1>4. CASE o \in ended \/ RecordedOn(o, l)' # {}
  <2>1. c \in RecordedOn(o, l)
    BY <1>1, <1>l DEF RecordedOn
  <2>2. \A p \in Owners \ ended, k \in Locks :
           (RecordedOn(p, k)' = {}) <=> (RecordedOn(p, k) = {})
    BY <1>3, <1>4, <2>1
  <2>. QED  BY <1>1, <2>2, InsideKept
<1>5. CASE o \notin ended /\ RecordedOn(o, l)' = {}
  <2>1. o \in Inside(l)
    BY <1>1, <1>5, <1>l DEF Inside, RecordedOn
  <2>2. Inside(l) = {o}
    BY <1>1, <2>1, InvExcludes DEF MutualExclusion
  <2>3. Inside(l)' = {}
    BY <1>1, <1>3, <1>5, <2>2 DEF Inside
  <2>4. \A k \in Locks : k # l => Inside(k)' = Inside(k)
    BY <1>1, <1>3 DEF Inside
  <2>5. In' = [In EXCEPT ![l] = {}]
    BY <1>1, <2>3, <2>4 DEF In
  <2>. QED  BY <1>1, <2>1, <2>5
<1>. QED  BY <1>4, <1>5

(* Owners that finish or die vanish from every lock at once. *)
LEMMA VanishStep ==
    ASSUME Inv, \/ \E o \in Owners : TaskDone(o) \/ Collect(o)
                \/ \E p \in Processes : ProcessDies(p)
    PROVE  \E S \in SUBSET Owners : In' = [l \in Locks |-> In[l] \ S]
<1>0. TypeOK /\ Links
  BY DEF Inv, Links
<1>1. ASSUME NEW o \in Owners, TaskDone(o)
      PROVE  In' = [l \in Locks |-> In[l] \ {o}]
  <2>1. \A l \in Locks : Inside(l)' = Inside(l) \ {o}
    BY <1>1 DEF TaskDone, Inside, RecordedOn
  <2>. QED  BY <2>1 DEF In
<1>2. ASSUME NEW o \in Owners, Collect(o)
      PROVE  In' = [l \in Locks |-> In[l] \ {}]
  <2>1. \A l \in Locks : RecordedOn(o, l)' = {}
    BY <1>2 DEF Collect, RecordedOn, OpenOf, Open
  <2>2. \A l \in Locks : Inside(l)' = Inside(l)
    BY <1>2, <2>1 DEF Collect, Inside, RecordedOn
  <2>. QED  BY <2>2 DEF In
<1>3. ASSUME NEW p \in Processes, ProcessDies(p)
      PROVE  In' = [l \in Locks |-> In[l] \ OwnersOf(p)]
  <2>1. \A o \in OwnersOf(p), l \in Locks : RecordedOn(o, l)' = {}
    BY <1>3 DEF ProcessDies, Close, RecordedOn, ContextsOf
  <2>2. \A o \in Owners \ OwnersOf(p), l \in Locks :
           RecordedOn(o, l)' = RecordedOn(o, l)
    BY <1>3 DEF ProcessDies, Close, RecordedOn, ContextsOf
  <2>3. \A l \in Locks : Inside(l)' = Inside(l) \ OwnersOf(p)
    BY <1>3, <2>1, <2>2 DEF ProcessDies, Inside
  <2>. QED  BY <2>3 DEF In
<1>4. \A p \in Processes : OwnersOf(p) \in SUBSET Owners
  BY DEF OwnersOf
<1>. QED  BY <1>1, <1>2, <1>3, <1>4

(* Files, descriptors, polling and callbacks implement mutual exclusion    *)
(* with the canonical order: every behaviour of the lock code is one of    *)
(* MutationExclusion.                                                      *)
THEOREM Implements == Spec => ExclusionSpec
<1>1. Init => Exclusion!Init
  BY DEF Init, Exclusion!Init, Exclusion!Locks, Locks, Inside, RecordedOn
<1>2. Inv /\ [Next]_vars => [Exclusion!Next]_In
  <2> SUFFICES ASSUME Inv, [Next]_vars
               PROVE  Exclusion!Next \/ In' = In
    OBVIOUS
  <2>0. TypeOK
    BY DEF Inv
  <2>1. ASSUME NEW c \in Contexts, RecordAcquisition(c)
        PROVE  Exclusion!Next
    BY <2>1, EnterStep
    DEF Exclusion!Next, Exclusion!Enter, Exclusion!Locks, Locks, In,
        Exclusion!Conflicting
  <2>2. ASSUME NEW c \in Contexts, Exit(c) \/ OwnerTaskDone(c)
        PROVE  Exclusion!Next \/ In' = In
    BY <2>2, LeaveStep
    DEF Exclusion!Next, Exclusion!Leave, Exclusion!Locks, Locks, In
  <2>3. ASSUME \/ \E o \in Owners : TaskDone(o) \/ Collect(o)
               \/ \E p \in Processes : ProcessDies(p)
        PROVE  Exclusion!Next
    BY <2>3, VanishStep
    DEF Exclusion!Next, Exclusion!Vanish, Exclusion!Locks, Locks, In
  <2>4. ASSUME NEW c \in Contexts, NEW l \in Locks, NEW async \in BOOLEAN,
               Reenter(c, l, async) \/ StartWait(c, l, async)
        PROVE  In' = In
    BY <2>4, BeginSteps
  <2>5. ASSUME NEW c \in Contexts,
               \/ DeadlinePasses(c) \/ TryLock(c) \/ TimeOut(c) \/ Cancel(c)
               \/ RecordRaises(c) \/ ReleaseFd(c)
        PROVE  In' = In
    BY <2>0, <2>5, InvisibleSteps
  <2>6. ASSUME UNCHANGED vars
        PROVE  In' = In
    BY <2>6, NothingRecorded DEF vars
  <2>. QED  BY <2>1, <2>2, <2>3, <2>4, <2>5, <2>6 DEF Next
<1>. QED
  BY <1>1, <1>2, InvHolds, PTL DEF Spec, ExclusionSpec, Exclusion!Spec, In
=============================================================================
