------------------------------- MODULE Lease -------------------------------
(***************************************************************************)
(* What the application expects of a lock in Redis: a key with one owner   *)
(* at a time, which the owner keeps as long as it works, and which comes   *)
(* free again however the owner ends.  RedisLock implements it, FinalReport *)
(* is built on it.                                                         *)
(***************************************************************************)
CONSTANTS
    Owners,   \* those who take the lock
    NoOwner   \* nobody

ASSUME OwnersAssumption == NoOwner \notin Owners

VARIABLES
    owner,    \* whose token the key holds
    users,    \* those who work under the lock
    broken    \* Redis has refused a call, or the key was deleted by force

leaseVars == <<owner, users, broken>>

LeaseTypeOK ==
    /\ owner \in Owners \cup {NoOwner}
    /\ users \subseteq Owners
    /\ broken \in BOOLEAN

LeaseInit == owner = NoOwner /\ users = {} /\ broken = FALSE

Grant(o) ==
    /\ owner = NoOwner
    /\ owner' = o
    /\ UNCHANGED <<users, broken>>

\* Its owner starts to work.
Enter(o) ==
    /\ broken \/ owner = o
    /\ users' = users \cup {o}
    /\ UNCHANGED <<owner, broken>>

Leave(o) ==
    /\ users' = users \ {o}
    /\ UNCHANGED <<owner, broken>>

\* The key is released by its owner or expires: never under one who works.
Free ==
    /\ owner # NoOwner /\ (broken \/ owner \notin users)
    /\ owner' = NoOwner
    /\ UNCHANGED <<users, broken>>

\* From here on the key says nothing about who works.
Break ==
    /\ broken' = TRUE
    /\ owner' \in {owner, NoOwner}
    /\ UNCHANGED users

LeaseNext ==
    \/ \E o \in Owners : Grant(o) \/ Enter(o) \/ Leave(o)
    \/ Free \/ Break

LeaseSpec == LeaseInit /\ [][LeaseNext]_leaseVars

\* Whoever works under the lock owns it, so there is one at most.
UsersOwn == broken \/ users \subseteq {owner}
=============================================================================
