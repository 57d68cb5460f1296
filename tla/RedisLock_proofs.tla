-------------------------- MODULE RedisLock_proofs --------------------------
(***************************************************************************)
(* Proofs about RedisLock, for any number of lock objects and any times    *)
(* with Period + 2 * Lag < Ttl.  The argument is one of time: Remaining    *)
(* says how much of the key's time is left for an object that is held,     *)
(* measured by when its timer thread is due.  Time does not pass a thread  *)
(* that is late by Lag, so the key cannot expire before it is extended.    *)
(***************************************************************************)
EXTENDS RedisLock, TLAPS

\* The type invariant is inductive with the fact that a key that is there has time left.
TypeInv ==
    /\ TypeOK
    /\ key = NoObject <=> ttl = 0

\* A key has time left exactly while it is there, and the values stay in their types.
LEMMA TypeInvariant == Spec => []TypeInv
<1> USE ObjectsAssumption, TimesAssumption, BoundsAssumption DEF TypeInv, TypeOK
<1>1. Init => TypeInv
  BY DEF Init
<1>2. TypeInv /\ [Next]_vars => TypeInv'
  <2> SUFFICES ASSUME TypeInv, [Next]_vars PROVE TypeInv'
    OBVIOUS
  <2>1. ASSUME NEW o \in Objects, Acquire(o) PROVE TypeInv'
    BY <2>1 DEF Acquire, Refused
  <2>2. ASSUME NEW o \in Objects, Hold(o) PROVE TypeInv'
    BY <2>2 DEF Hold
  <2>3. ASSUME NEW o \in Objects, BeginRelease(o) PROVE TypeInv'
    BY <2>3 DEF BeginRelease, Stopped
  <2>4. ASSUME NEW o \in Objects, EndRelease(o) PROVE TypeInv'
    BY <2>4 DEF EndRelease, Refused
  <2>5. ASSUME NEW o \in Objects, Die(o) PROVE TypeInv'
    BY <2>5 DEF Die
  <2>6. ASSUME NEW o \in Objects, Fire(o) PROVE TypeInv'
    BY <2>6 DEF Fire
  <2>7. ASSUME NEW o \in Objects, Renew(o) PROVE TypeInv'
    <3>1. ttl' \in 0 .. Ttl /\ key' \in Objects \cup {NoObject} /\ (key' = NoObject <=> ttl' = 0)
      BY <2>7 DEF Renew
    <3>2. errors' \in 0 .. MaxErrors /\ forced' \in 0 .. MaxForced
      BY <2>7 DEF Renew, Refused
    <3>3. held' \in [Objects -> BOOLEAN] /\ timer' \in [Objects -> {"off", "armed", "sent", "renewed"}]
      BY <2>7 DEF Renew
    <3> QED
      BY <2>7, <3>1, <3>2, <3>3 DEF Renew
  <2>8. ASSUME NEW o \in Objects, Rearm(o) PROVE TypeInv'
    BY <2>8 DEF Rearm
  <2>9. CASE ForceRelease
    BY <2>9 DEF ForceRelease
  <2>10. CASE Tick
    <3>1. ttl' \in 0 .. Ttl /\ (key' = NoObject <=> ttl' = 0) /\ key' \in Objects \cup {NoObject}
      BY <2>10 DEF Tick
    <3>2. due' \in [Objects -> -Lag .. Period]
      <4>1. ASSUME NEW o \in Objects
            PROVE  (IF o \in Waiting THEN due[o] - 1 ELSE due[o]) \in -Lag .. Period
        <5>1. due[o] \in -Lag .. Period
          OBVIOUS
        <5>2. o \in Waiting => due[o] > -Lag
          BY <2>10 DEF Tick
        <5> QED
          BY <5>1, <5>2
      <4> QED
        BY <2>10, <4>1 DEF Tick
    <3> QED
      BY <2>10, <3>1, <3>2 DEF Tick
  <2>11. CASE UNCHANGED vars
    BY <2>11 DEF vars
  <2> QED
    BY <2>1, <2>2, <2>3, <2>4, <2>5, <2>6, <2>7, <2>8, <2>9, <2>10, <2>11
       DEF Next, Owner, TimerThread
<1> QED
  BY <1>1, <1>2, PTL DEF Spec

\* Type correctness of the key, the objects and their threads, for every number of objects
\* and every number of refused calls and forced releases.
THEOREM TypeCorrect == Spec => []TypeOK
<1>1. TypeInv => TypeOK
  BY DEF TypeInv
<1> QED
  BY <1>1, TypeInvariant, PTL

-----------------------------------------------------------------------------

\* Nothing has gone wrong with Redis so far.
Sound == errors = 0 /\ forced = 0

\* An object is held between Hold and its release, and only then its timer is armed.
Phases ==
    \A o \in Objects :
        /\ held[o] => main[o] = "working"
        /\ timer[o] = "armed" => held[o]
        /\ main[o] = "new" => due[o] = 0
        /\ main[o] \in {"new", "set"} => timer[o] = "off"

\* The time the key of an object in use has left.
Remaining(o) ==
    /\ main[o] = "set" => key = o /\ due[o] <= 0 /\ ttl >= Ttl + due[o]
    /\ held[o] => key = o /\ timer[o] # "off"
    /\ held[o] /\ timer[o] \in {"armed", "sent"} => ttl >= Ttl - Lag - Period + due[o]
    /\ timer[o] \in {"sent", "renewed"} => due[o] <= 0
    /\ held[o] /\ timer[o] = "renewed" => ttl >= Ttl + due[o]

LockInv == Phases /\ (Sound => \A o \in Objects : Remaining(o))

LEMMA InitLock == Init => LockInv
  BY ObjectsAssumption, TimesAssumption DEF Init, LockInv, Phases, Remaining

\* A step of another object leaves what it says of this one as it was.
LEMMA OthersKeep ==
    ASSUME TypeInv, NEW o \in Objects, Remaining(o),
           UNCHANGED <<main[o], timer[o], due[o], held[o]>>,
           key = o => UNCHANGED <<key, ttl>>
    PROVE  Remaining(o)'
  BY DEF Remaining

\* The phases of an object change by its own steps only.
LEMMA StepPhases == TypeInv /\ Phases /\ [Next]_vars => Phases'
<1> SUFFICES ASSUME TypeInv, Phases, [Next]_vars, NEW p \in Objects
             PROVE  /\ held'[p] => main'[p] = "working"
                    /\ timer'[p] = "armed" => held'[p]
                    /\ main'[p] = "new" => due'[p] = 0
                    /\ main'[p] \in {"new", "set"} => timer'[p] = "off"
  BY DEF Phases
<1> USE DEF TypeInv, TypeOK
<1>1. ASSUME NEW o \in Objects, Owner(o) PROVE ~(p = o) => UNCHANGED <<held[p], main[p], timer[p], due[p]>>
  BY <1>1 DEF Owner, Acquire, Hold, BeginRelease, Stopped, EndRelease, Die
<1>2. ASSUME NEW o \in Objects, TimerThread(o) PROVE ~(p = o) => UNCHANGED <<held[p], main[p], timer[p], due[p]>>
  BY <1>2 DEF TimerThread, Fire, Renew, Rearm
<1>3. CASE Owner(p)
  BY <1>3 DEF Owner, Acquire, Hold, BeginRelease, Stopped, EndRelease, Die, Phases
<1>4. CASE TimerThread(p)
  BY <1>4 DEF TimerThread, Fire, Renew, Rearm, Phases
<1>5. CASE Tick
  BY <1>5 DEF Tick, Waiting, Phases
<1>6. CASE ForceRelease \/ UNCHANGED vars
  BY <1>6 DEF ForceRelease, vars, Phases
<1> QED
  BY <1>1, <1>2, <1>3, <1>4, <1>5, <1>6 DEF Next, Phases

\* Time passes no thread that is late by Lag, so it leaves every object in use some.
LEMMA TickKeeps ==
    ASSUME TypeInv, Phases, Tick, NEW o \in Objects, Remaining(o)
    PROVE  Remaining(o)'
<1> USE TimesAssumption DEF TypeInv, TypeOK
<1>1. due[o] \in -Lag .. Period /\ due'[o] = (IF o \in Waiting THEN due[o] - 1 ELSE due[o])
  BY DEF Tick
<1>2. o \in Waiting => due[o] > -Lag
  BY DEF Tick
<1>3. main[o] = "set" \/ held[o] => o \in Waiting /\ key = o
  BY DEF Waiting, Remaining
<1>4. ASSUME main[o] = "set" \/ held[o] PROVE ttl >= Ttl - Lag - Period + due[o]
  BY <1>1, <1>4 DEF Remaining
<1>5. ASSUME key = o, main[o] = "set" \/ held[o] PROVE ttl' = ttl - 1 /\ ttl' > 0 /\ key' = o
  <2>1. ttl' = ttl - 1
    BY <1>5, ObjectsAssumption DEF Tick
  <2>2. ttl' > 0
    BY <1>1, <1>2, <1>3, <1>4, <1>5, <2>1
  <2> QED
    BY <1>5, <2>1, <2>2 DEF Tick
<1>6. UNCHANGED <<main[o], held[o], timer[o]>>
  BY DEF Tick
<1> QED
  BY <1>1, <1>2, <1>3, <1>5, <1>6 DEF Remaining

\* Steps of an object's own threads.
LEMMA OwnerKeeps ==
    ASSUME TypeInv, Phases, NEW o \in Objects, Owner(o), Remaining(o), Sound'
    PROVE  Remaining(o)'
<1> USE TimesAssumption DEF TypeInv, TypeOK
<1>1. CASE Acquire(o)
  BY <1>1 DEF Acquire, Refused, Remaining, Phases, Sound
<1>2. CASE Hold(o)
  BY <1>2 DEF Hold, Remaining, Phases
<1>3. CASE BeginRelease(o)
  BY <1>3 DEF BeginRelease, Stopped, Remaining, Phases
<1>4. CASE EndRelease(o)
  BY <1>4 DEF EndRelease, Remaining, Phases
<1>5. CASE Die(o)
  BY <1>5 DEF Die, Remaining, Phases
<1> QED
  BY <1>1, <1>2, <1>3, <1>4, <1>5 DEF Owner

LEMMA TimerKeeps ==
    ASSUME TypeInv, Phases, NEW o \in Objects, TimerThread(o), Remaining(o), Sound'
    PROVE  Remaining(o)'
<1> USE TimesAssumption DEF TypeInv, TypeOK
<1>1. CASE Fire(o)
  BY <1>1 DEF Fire, Remaining, Phases
<1>2. CASE Renew(o)
  BY <1>2 DEF Renew, Refused, Remaining, Phases, Sound
<1>3. CASE Rearm(o)
  BY <1>3 DEF Rearm, Remaining, Phases
<1> QED
  BY <1>1, <1>2, <1>3 DEF TimerThread

\* The invariant is inductive.
LEMMA StepLock == TypeInv /\ LockInv /\ [Next]_vars => LockInv'
<1> SUFFICES ASSUME TypeInv, LockInv, [Next]_vars PROVE LockInv'
  OBVIOUS
<1>1. Phases'
  BY StepPhases DEF LockInv
<1>2. ASSUME Sound', NEW p \in Objects PROVE Remaining(p)'
  <2>1. Sound
    BY <1>2 DEF Sound, TypeInv, TypeOK, Next, Owner, TimerThread, Acquire, Hold, BeginRelease, EndRelease,
       Die, Fire, Renew, Rearm, ForceRelease, Tick, Refused, vars
  <2>2. Remaining(p)
    BY <2>1 DEF LockInv
  <2>3. ASSUME NEW o \in Objects, Owner(o) PROVE Remaining(p)'
    <3>1. CASE o = p
      BY <1>2, <2>2, <2>3, <3>1, OwnerKeeps DEF LockInv
    <3>2. CASE o # p
      <4>1. UNCHANGED <<main[p], timer[p], due[p], held[p]>> /\ (key = p => UNCHANGED <<key, ttl>>)
        BY <2>3, <3>2, ObjectsAssumption DEF Owner, Acquire, Hold, BeginRelease, Stopped, EndRelease, Die, TypeInv, TypeOK
      <4> QED
        BY <2>2, <4>1, OthersKeep
    <3> QED
      BY <3>1, <3>2
  <2>4. ASSUME NEW o \in Objects, TimerThread(o) PROVE Remaining(p)'
    <3>1. CASE o = p
      BY <1>2, <2>2, <2>4, <3>1, TimerKeeps DEF LockInv
    <3>2. CASE o # p
      <4>1. UNCHANGED <<main[p], timer[p], due[p], held[p]>> /\ (key = p => UNCHANGED <<key, ttl>>)
        BY <2>4, <3>2 DEF TimerThread, Fire, Renew, Rearm, TypeInv, TypeOK
      <4> QED
        BY <2>2, <4>1, OthersKeep
    <3> QED
      BY <3>1, <3>2
  <2>5. CASE Tick
    BY <2>2, <2>5, TickKeeps DEF LockInv
  <2>6. CASE ForceRelease
    BY <1>2, <2>6 DEF ForceRelease, Sound, TypeInv, TypeOK, BoundsAssumption
  <2>7. CASE UNCHANGED vars
    BY <2>2, <2>7 DEF vars, Remaining
  <2> QED
    BY <2>3, <2>4, <2>5, <2>6, <2>7 DEF Next
<1> QED
  BY <1>1, <1>2 DEF LockInv

\* The invariants of every behaviour.
LEMMA Invariants == Spec => [](TypeInv /\ LockInv)
<1>1. Init => LockInv
  BY InitLock
<1>2. TypeInv /\ LockInv /\ [Next]_vars => LockInv'
  BY StepLock
<1> QED
  BY <1>1, <1>2, TypeInvariant, PTL DEF Spec

-----------------------------------------------------------------------------
\* An object that believes to be held owns the key as long as Redis answers and nobody uses
\* force, and no armed timer outlives its object's release, for every number of objects and
\* all times that leave the timer thread its Lag.
THEOREM HoldersDoAgree == Spec => []HoldersAgree
<1>1. TypeInv /\ LockInv => HoldersAgree
  <2> SUFFICES ASSUME TypeInv, LockInv PROVE HoldersAgree
    OBVIOUS
  <2>1. HeldIsOwned
    <3>1. ~(errors > 0 \/ forced > 0) => Sound
      BY BoundsAssumption DEF TypeInv, TypeOK, Sound
    <3>2. Sound => {o \in Objects : held[o]} \subseteq {key}
      BY DEF LockInv, Remaining
    <3> QED
      BY <3>1, <3>2 DEF HeldIsOwned, Promise!UsersOwn
  <2>2. NoOrphanTimer
    BY DEF LockInv, Phases, NoOrphanTimer
  <2> QED
    BY <2>1, <2>2 DEF HoldersAgree
<1> QED
  BY <1>1, Invariants, PTL

\* A step of the lock is a step of what it promises, or leaves that alone.
LEMMA StepPromise ==
    TypeInv /\ LockInv /\ LockInv' /\ [Next]_vars => [Promise!LeaseNext]_(Promise!leaseVars)
<1> SUFFICES ASSUME TypeInv, LockInv, LockInv', [Next]_vars
             PROVE  Promise!LeaseNext \/ UNCHANGED Promise!leaseVars
  OBVIOUS
<1> DEFINE users == {o \in Objects : held[o]}
           broken == errors > 0 \/ forced > 0
<1>0. errors \in Nat /\ forced \in Nat
  BY BoundsAssumption DEF TypeInv, TypeOK
<1>1. ~broken => \A o \in Objects : Remaining(o)
  BY <1>0 DEF LockInv, Sound
<1>3. ASSUME NEW o \in Objects, Acquire(o) PROVE Promise!LeaseNext \/ UNCHANGED Promise!leaseVars
  <2>1. UNCHANGED users
    BY <1>3 DEF Acquire
  <2>2. CASE key = NoObject /\ key' = o /\ UNCHANGED errors
    <3>1. Promise!Grant(o)
      BY <1>3, <2>1, <2>2 DEF Acquire, Promise!Grant
    <3> QED
      BY <3>1 DEF Promise!LeaseNext
  <2>3. CASE UNCHANGED <<key, errors>>
    BY <1>3, <2>1, <2>3 DEF Acquire, Promise!leaseVars
  <2>4. CASE Refused /\ UNCHANGED key
    <3>1. Promise!Break
      BY <1>0, <2>1, <2>4 DEF Refused, Promise!Break
    <3> QED
      BY <3>1 DEF Promise!LeaseNext
  <2> QED
    BY <1>3, <2>2, <2>3, <2>4 DEF Acquire
<1>4. ASSUME NEW o \in Objects, Hold(o) PROVE Promise!LeaseNext
  <2>1. users' = users \cup {o}
    BY <1>4 DEF Hold, TypeInv, TypeOK
  <2>2. broken \/ key = o
    BY <1>1, <1>4 DEF Hold, Remaining
  <2>3. Promise!Enter(o)
    BY <1>4, <2>1, <2>2 DEF Hold, Promise!Enter
  <2> QED
    BY <2>3 DEF Promise!LeaseNext
<1>5. ASSUME NEW o \in Objects, BeginRelease(o) \/ Die(o) PROVE Promise!LeaseNext
  <2>1. users' = users \ {o}
    BY <1>5 DEF BeginRelease, Die, TypeInv, TypeOK
  <2>2. Promise!Leave(o)
    BY <1>5, <2>1 DEF BeginRelease, Die, Promise!Leave
  <2> QED
    BY <2>2 DEF Promise!LeaseNext
<1>6. ASSUME NEW o \in Objects, EndRelease(o) PROVE Promise!LeaseNext \/ UNCHANGED Promise!leaseVars
  <2>1. UNCHANGED users
    BY <1>6 DEF EndRelease
  <2>2. CASE key = o /\ key' = NoObject /\ UNCHANGED errors
    <3>1. o \notin users
      BY <1>6 DEF EndRelease, LockInv, Phases
    <3>2. Promise!Free
      BY <1>6, <2>1, <2>2, <3>1, ObjectsAssumption DEF EndRelease, Promise!Free
    <3> QED
      BY <3>2 DEF Promise!LeaseNext
  <2>3. CASE UNCHANGED <<key, errors>>
    BY <1>6, <2>1, <2>3 DEF EndRelease, Promise!leaseVars
  <2>4. CASE Refused /\ UNCHANGED key
    <3>1. Promise!Break
      BY <1>0, <2>1, <2>4 DEF Refused, Promise!Break
    <3> QED
      BY <3>1 DEF Promise!LeaseNext
  <2> QED
    BY <1>6, <2>2, <2>3, <2>4 DEF EndRelease
<1>7. ASSUME NEW o \in Objects, Fire(o) \/ Rearm(o) PROVE UNCHANGED Promise!leaseVars
  BY <1>7 DEF Fire, Rearm, Promise!leaseVars
<1>8. ASSUME NEW o \in Objects, Renew(o) PROVE Promise!LeaseNext \/ UNCHANGED Promise!leaseVars
  <2>1. CASE UNCHANGED <<held, errors>>
    BY <1>8, <2>1 DEF Renew, Promise!leaseVars
  <2>2. CASE held' = [held EXCEPT ![o] = FALSE] /\ UNCHANGED errors
    <3>1. users' = users \ {o}
      BY <2>2 DEF TypeInv, TypeOK
    <3>2. Promise!Leave(o)
      BY <1>8, <2>2, <3>1 DEF Renew, Promise!Leave
    <3> QED
      BY <3>2 DEF Promise!LeaseNext
  <2>3. CASE Refused /\ UNCHANGED held
    <3>1. Promise!Break
      BY <1>0, <1>8, <2>3 DEF Renew, Refused, Promise!Break
    <3> QED
      BY <3>1 DEF Promise!LeaseNext
  <2> QED
    BY <1>8, <2>1, <2>2, <2>3 DEF Renew
<1>9. ASSUME ForceRelease PROVE Promise!LeaseNext
  <2>1. Promise!Break
    BY <1>0, <1>9 DEF ForceRelease, Promise!Break
  <2> QED
    BY <2>1 DEF Promise!LeaseNext
<1>10. ASSUME Tick PROVE Promise!LeaseNext \/ UNCHANGED Promise!leaseVars
  <2>1. UNCHANGED <<held, errors, forced>>
    BY <1>10 DEF Tick
  <2>2. CASE key' = key
    BY <2>1, <2>2 DEF Promise!leaseVars
  <2>3. CASE key' # key
    <3>1. key # NoObject /\ key' = NoObject
      BY <1>10, <2>3 DEF Tick
    <3>2. broken \/ key \notin users
      <4>1. ~broken => \A o \in Objects : held'[o] => key' = o
        BY <1>0, <2>1 DEF LockInv, Sound, Remaining
      <4> QED
        BY <2>1, <3>1, <4>1, ObjectsAssumption
    <3>3. Promise!Free
      BY <2>1, <3>1, <3>2 DEF Promise!Free
    <3> QED
      BY <3>3 DEF Promise!LeaseNext
  <2> QED
    BY <2>2, <2>3
<1>11. CASE UNCHANGED vars
  BY <1>11 DEF vars, Promise!leaseVars
<1> QED
  BY <1>3, <1>4, <1>5, <1>6, <1>7, <1>8, <1>9, <1>10, <1>11 DEF Next, Owner, TimerThread

\* The lock implements Lease: whatever its threads, its timers and time do, its key behaves as
\* a lease of Objects, until a call is refused or the key is deleted by force.
THEOREM LeaseImplemented == Spec => ImplementsLease
<1>1. Init => Promise!LeaseInit
  BY BoundsAssumption DEF Init, Promise!LeaseInit
<1>2. TypeInv /\ LockInv /\ LockInv' /\ [Next]_vars => [Promise!LeaseNext]_(Promise!leaseVars)
  BY StepPromise
<1> QED
  BY <1>1, <1>2, Invariants, PTL DEF Spec, ImplementsLease, Promise!LeaseSpec

=============================================================================
