----------------------------- MODULE RedisLock -----------------------------
(***************************************************************************)
(* integrations/redis/lock.py: a key with a time to live that holds the    *)
(* token of one lock object, and a timer thread of that object which       *)
(* extends it.  Each object is used once.  The owner's thread and its      *)
(* timer thread share the object, guarded by its mutex; the calls to Redis *)
(* are made outside of the mutex, and one of them may fail.                *)
(*                                                                         *)
(* Time passes in steps of Period, the interval of the timer: five minutes *)
(* of the code.  A thread that is due acts within Lag.                     *)
(***************************************************************************)
EXTENDS Integers

CONSTANTS
    Objects,    \* lock objects on one key, each with its own token
    NoObject,   \* the key is absent
    Ttl,        \* time to live of the key
    Period,     \* interval of the refresh timer
    Lag,        \* longest delay of a thread that is due
    MaxErrors,  \* bound: calls that Redis refuses
    MaxForced   \* bound: forced releases

ASSUME ObjectsAssumption == NoObject \notin Objects
ASSUME TimesAssumption ==
    /\ Ttl \in Nat /\ Period \in Nat /\ Lag \in Nat
    /\ Period + 2 * Lag < Ttl
ASSUME BoundsAssumption == MaxErrors \in Nat /\ MaxForced \in Nat

VARIABLES
    key,      \* Redis: the object whose token the key holds
    ttl,      \* Redis: time the key has left
    held,     \* _is_held of each object
    main,     \* where the owner's thread of each object is
    timer,    \* where its timer thread is
    due,      \* time until its thread is due, negative when it is late
    errors,   \* calls refused so far
    forced    \* forced releases so far

vars == <<key, ttl, held, main, timer, due, errors, forced>>

TypeOK ==
    /\ key \in Objects \cup {NoObject}
    /\ ttl \in 0 .. Ttl
    /\ held \in [Objects -> BOOLEAN]
    /\ main \in [Objects -> {"new", "set", "working", "releasing", "done", "dead"}]
    /\ timer \in [Objects -> {"off", "armed", "sent", "renewed"}]
    /\ due \in [Objects -> -Lag .. Period]
    /\ errors \in 0 .. MaxErrors /\ forced \in 0 .. MaxForced

Init ==
    /\ key = NoObject /\ ttl = 0
    /\ held = [o \in Objects |-> FALSE]
    /\ main = [o \in Objects |-> "new"]
    /\ timer = [o \in Objects |-> "off"]
    /\ due = [o \in Objects |-> 0]
    /\ errors = 0 /\ forced = 0

Refused == errors < MaxErrors /\ errors' = errors + 1

----------------------------------------------------------------------------
\* The owner's thread

\* SET NX PX: granted, answered with False, or refused.
Acquire(o) ==
    /\ main[o] = "new"
    /\ \/ /\ key = NoObject
          /\ key' = o /\ ttl' = Ttl
          /\ main' = [main EXCEPT ![o] = "set"]
          /\ UNCHANGED errors
       \/ /\ key # NoObject
          /\ main' = [main EXCEPT ![o] = "done"]
          /\ UNCHANGED <<key, ttl, errors>>
       \/ /\ Refused
          /\ main' = [main EXCEPT ![o] = "done"]
          /\ UNCHANGED <<key, ttl>>
    /\ UNCHANGED <<held, timer, due, forced>>

\* Back in the object: it is held, the timer starts.
Hold(o) ==
    /\ main[o] = "set"
    /\ main' = [main EXCEPT ![o] = "working"]
    /\ held' = [held EXCEPT ![o] = TRUE]
    /\ timer' = [timer EXCEPT ![o] = "armed"]
    /\ due' = [due EXCEPT ![o] = Period]
    /\ UNCHANGED <<key, ttl, errors, forced>>

\* Cancelling a timer that has fired has no effect.
Stopped(o) == [timer EXCEPT ![o] = IF @ = "armed" THEN "off" ELSE @]

\* release: nothing is left to do once a refresh has found the key lost.
BeginRelease(o) ==
    /\ main[o] = "working"
    /\ main' = [main EXCEPT ![o] = IF held[o] THEN "releasing" ELSE "done"]
    /\ held' = [held EXCEPT ![o] = FALSE]
    /\ timer' = IF held[o] THEN Stopped(o) ELSE timer
    /\ UNCHANGED <<key, ttl, due, errors, forced>>

\* Variant: the key is deleted whatever it holds.
EndRelease_AnyToken(o) ==
    /\ main[o] = "releasing"
    /\ main' = [main EXCEPT ![o] = "done"]
    /\ key' = NoObject /\ ttl' = 0
    /\ UNCHANGED <<held, timer, due, errors, forced>>

\* The script deletes the key if it holds the object's token; an error is
\* swallowed.
EndRelease(o) ==
    /\ main[o] = "releasing"
    /\ main' = [main EXCEPT ![o] = "done"]
    /\ \/ /\ key = o
          /\ key' = NoObject /\ ttl' = 0
          /\ UNCHANGED errors
       \/ /\ key # o
          /\ UNCHANGED <<key, ttl, errors>>
       \/ Refused /\ UNCHANGED <<key, ttl>>
    /\ UNCHANGED <<held, timer, due, forced>>

\* force_release, called on an object of its own by the end of the pipeline.
ForceRelease ==
    /\ forced < MaxForced
    /\ forced' = forced + 1
    /\ key' = NoObject /\ ttl' = 0
    /\ UNCHANGED <<held, main, timer, due, errors>>

\* The process dies, its timer thread with it.
Die(o) ==
    /\ main[o] \in {"set", "working", "releasing"}
    /\ main' = [main EXCEPT ![o] = "dead"]
    /\ held' = [held EXCEPT ![o] = FALSE]
    /\ timer' = [timer EXCEPT ![o] = "off"]
    /\ UNCHANGED <<key, ttl, due, errors, forced>>

----------------------------------------------------------------------------
\* The timer thread

\* The callback begins: refresh looks at the object.
Fire(o) ==
    /\ timer[o] = "armed" /\ due[o] <= 0
    /\ timer' = [timer EXCEPT ![o] = IF held[o] THEN "sent" ELSE "off"]
    /\ UNCHANGED <<key, ttl, held, main, due, errors, forced>>

\* Variant: the key's time is extended whoever owns it.
Renew_AnyToken(o) ==
    /\ timer[o] = "sent"
    /\ ttl' = IF key = NoObject THEN 0 ELSE Ttl
    /\ timer' = [timer EXCEPT ![o] = "renewed"]
    /\ UNCHANGED <<key, held, main, due, errors, forced>>

\* The script extends the key if it holds the object's token.  Otherwise the
\* object is no longer held.  After an error the callback ends, and no further
\* one comes.
Renew(o) ==
    /\ timer[o] = "sent"
    /\ \/ /\ key = o
          /\ ttl' = Ttl
          /\ timer' = [timer EXCEPT ![o] = "renewed"]
          /\ UNCHANGED <<held, errors>>
       \/ /\ key # o
          /\ timer' = [timer EXCEPT ![o] = "off"]
          /\ held' = [held EXCEPT ![o] = FALSE]
          /\ UNCHANGED <<ttl, errors>>
       \/ /\ Refused
          /\ timer' = [timer EXCEPT ![o] = "off"]
          /\ UNCHANGED <<ttl, held>>
    /\ UNCHANGED <<key, main, due, forced>>

\* Variant: the timer starts again whether the object is held or not.
Rearm_Always(o) ==
    /\ timer[o] = "renewed"
    /\ timer' = [timer EXCEPT ![o] = "armed"]
    /\ due' = [due EXCEPT ![o] = Period]
    /\ UNCHANGED <<key, ttl, held, main, errors, forced>>

\* _timer_callback starts the next timer, unless the object was released since.
Rearm(o) ==
    /\ timer[o] = "renewed"
    /\ timer' = [timer EXCEPT ![o] = IF held[o] THEN "armed" ELSE "off"]
    /\ due' = [due EXCEPT ![o] = IF held[o] THEN Period ELSE 0]
    /\ UNCHANGED <<key, ttl, held, main, errors, forced>>

----------------------------------------------------------------------------
\* Time

\* The objects with a thread that is due to act.
Waiting == {o \in Objects : timer[o] # "off" \/ main[o] = "set"}

\* Variant: a key whose time is over stays.
Tick_Expired ==
    /\ key # NoObject \/ Waiting # {}
    /\ \A o \in Waiting : due[o] > -Lag
    /\ ttl' = IF key = NoObject THEN 0 ELSE ttl - 1
    /\ due' = [o \in Objects |-> IF o \in Waiting THEN due[o] - 1 ELSE due[o]]
    /\ UNCHANGED <<key, held, main, timer, errors, forced>>

\* A key whose time is over is gone.
Tick ==
    /\ key # NoObject \/ Waiting # {}
    /\ \A o \in Waiting : due[o] > -Lag
    /\ ttl' = IF key = NoObject THEN 0 ELSE ttl - 1
    /\ key' = IF ttl' = 0 THEN NoObject ELSE key
    /\ due' = [o \in Objects |-> IF o \in Waiting THEN due[o] - 1 ELSE due[o]]
    /\ UNCHANGED <<held, main, timer, errors, forced>>

----------------------------------------------------------------------------

Owner(o) == Acquire(o) \/ Hold(o) \/ BeginRelease(o) \/ EndRelease(o) \/ Die(o)
TimerThread(o) == Fire(o) \/ Renew(o) \/ Rearm(o)

Next ==
    \/ \E o \in Objects : Owner(o) \/ TimerThread(o)
    \/ ForceRelease \/ Tick

Spec == Init /\ [][Next]_vars

\* Time goes on, and threads that are due act; nobody has to release.
FairSpec ==
    /\ Spec
    /\ WF_vars(Tick)
    /\ \A o \in Objects : WF_vars(TimerThread(o)) /\ WF_vars(Hold(o)) /\ WF_vars(EndRelease(o))

----------------------------------------------------------------------------
\* Properties

\* What the lock promises: see Lease.  A refused call or a forced release ends the
\* promise, and only that: "Refresh lock at 1/3 of TTL to ensure it remains active".
Promise == INSTANCE Lease WITH
    Owners <- Objects, NoOwner <- NoObject,
    owner <- key, users <- {o \in Objects : held[o]}, broken <- errors > 0 \/ forced > 0

\* The lock does what Lease says, step by step: acquire, the timer, release and expiry
\* are its Grant, Enter, Leave and Free.
ImplementsLease == Promise!LeaseSpec

\* As long as Redis answers and nobody uses force, an object that believes to be held owns
\* the key, however long it works and however the timer thread is delayed within Lag.
HeldIsOwned == Promise!UsersOwn

\* No timer is left behind that would keep a released key for ever: the timer of an object
\* that is not held is not armed, though release and the callback run side by side.
NoOrphanTimer == \A o \in Objects : timer[o] = "armed" => held[o]

\* An object and its threads agree with the key.
HoldersAgree == HeldIsOwned /\ NoOrphanTimer

\* A lock is never stuck: when its owner has ended, by a release that may have failed, or by
\* the death of its process, the key becomes free.
KeyIsFreed ==
    \A o \in Objects : key = o /\ main[o] \in {"done", "dead"} ~> key # o
=============================================================================
