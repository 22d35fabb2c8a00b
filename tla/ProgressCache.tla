---------------------------- MODULE ProgressCache ----------------------------
(***************************************************************************)
(* The progress records: one process-wide cachetools.TTLCache, from the    *)
(* key of an action to its status.  The record is what the user interface  *)
(* polls, and at the same time the lock that keeps a second run of the     *)
(* same action from starting.  A record is gone when its time to live has  *)
(* passed since it was last written, or when a new key needs its place:    *)
(* the least recently used one goes, and reading a record is using it.     *)
(***************************************************************************)
EXTENDS Naturals, FiniteSets

CONSTANTS
    Hosts,
    Containers,   \* names, the same on every host
    Capacity      \* maxsize

ASSUME CapacityAssumption == Capacity \in Nat \ {0}

VARIABLES
    status,       \* "status" of each record, "none" for a key without record
    before        \* <<j, k>>: record j was used longer ago than record k

cache == <<status, before>>

AllKey             == <<"all">>
HostKey(h)         == <<"host", h>>
PlanKey(h, u)      == <<"plan", h, u>>
ContainerKey(h, c) == <<"container", h, c>>

PlanKeys == {PlanKey(h, u) : h \in Hosts, u \in SUBSET Containers}
Keys == {AllKey} \cup {HostKey(h) : h \in Hosts} \cup PlanKeys
        \cup {ContainerKey(h, c) : h \in Hosts, c \in Containers}

Working  == {"PREPARING", "CHECKING", "UPDATING", "PRUNING"}
Statuses == Working \cup {"DONE", "ERROR", "none"}

Recorded == {k \in Keys : status[k] # "none"}

(* Mutant of IsAllowedStart: the last phase of an update is overlooked.    *)
AllowedWhilePruning(k) == status[k] \in {"none", "DONE", "ERROR", "PRUNING"}

(* is_allowed_start_cache                                                  *)
IsAllowedStart(k) == status[k] \in {"none", "DONE", "ERROR"}

Without(k) == {p \in before : k \notin {p[1], p[2]}}
Used(k)    == Without(k) \cup {<<j, k>> : j \in Recorded \ {k}}

LeastRecent == {k \in Recorded : \A j \in Recorded \ {k} : <<k, j>> \in before}

(* ProgressCache.get, also by a client that polls GET /progress.           *)
Get(k) ==
    /\ before' = IF k \in Recorded THEN Used(k) ELSE before
    /\ UNCHANGED status

(* ProgressCache.set and update.                                           *)
Set(k, s) ==
    IF k \in Recorded \/ Cardinality(Recorded) < Capacity
    THEN /\ status' = [status EXCEPT ![k] = s]
         /\ before' = Used(k)
    ELSE \E e \in LeastRecent :
            /\ status' = [status EXCEPT ![e] = "none", ![k] = s]
            /\ before' = {p \in Used(k) : e \notin {p[1], p[2]}}

Forget(k) ==
    /\ k \in Recorded
    /\ status' = [status EXCEPT ![k] = "none"]
    /\ before' = Without(k)

CacheInit ==
    /\ status = [k \in Keys |-> "none"]
    /\ before = {}

CacheTypeOK ==
    /\ status \in [Keys -> Statuses]
    /\ before \in SUBSET (Keys \X Keys)
    /\ IsFiniteSet(Recorded)
    /\ Cardinality(Recorded) <= Capacity
=============================================================================
