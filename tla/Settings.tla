------------------------------ MODULE Settings ------------------------------
(***************************************************************************)
(* The settings, in three places: the rows of the database, the values in  *)
(* memory that the rest of the application reads (SettingsStorage), and    *)
(* the two cron jobs made from three of them (CronManager).  A request     *)
(* changes several settings in one transaction.  A row is flushed when the *)
(* next one is selected, or at the commit, and it is the flush that        *)
(* changes the value in memory.  Requests overlap at every await; the      *)
(* database lets one of them write at a time, up to its commit or          *)
(* roll-back, and one that waits too long for that fails.                  *)
(***************************************************************************)
EXTENDS Naturals, Sequences

CONSTANTS
    Keys,         \* settings
    Crontabs,     \* those that are the crontab of a job
    Zone,         \* the one that is the time zone of the jobs
    Values,
    Requests,     \* requests that overlap
    Nobody,       \* no request
    Changes,      \* bodies of requests: sequences of <<key, value>>
    MaxChanges,   \* bound: requests that are sent
    MaxRestarts   \* bound: restarts

ASSUME KeysAssumption == Crontabs \subseteq Keys /\ Zone \in Keys
ASSUME NobodyAssumption == Nobody \notin Requests
ASSUME ChangesAssumption == Changes \subseteq Seq(Keys \X Values) \ {<<>>}

VARIABLES
    stored,       \* database: the values that are committed
    draft,        \* database: what the writer's transaction sees
    writer,       \* database: the request that has flushed and not committed
    memory,       \* SettingsStorage._VALUES
    jobs,         \* CronManager._jobs: crontab and time zone of each job
    req,          \* the requests
    sent, restarts,
    rolledBack,   \* flushed values were rolled back since the last start
    mixed         \* a request committed while another one was under way, or
                  \* it gave a setting two values, since the last start

bounds == <<sent, restarts>>
vars   == <<stored, draft, writer, memory, jobs, req, bounds, rolledBack, mixed>>

NoRequest == [pc |-> "off", data |-> <<>>, at |-> 0, loaded |-> <<>>]

ScheduledWith(values) == [j \in Crontabs |-> <<values[j], values[Zone]>>]

Init ==
    /\ \E v \in Values : stored = [k \in Keys |-> v]
    /\ draft = stored
    /\ writer = Nobody
    /\ memory = stored
    /\ jobs = ScheduledWith(stored)
    /\ req = [p \in Requests |-> NoRequest]
    /\ sent = 0 /\ restarts = 0
    /\ rolledBack = FALSE /\ mixed = FALSE

Send(p) ==
    /\ req[p].pc = "off"
    /\ sent < MaxChanges
    /\ sent' = sent + 1
    /\ \E data \in Changes :
          req' = [req EXCEPT ![p] = [NoRequest EXCEPT !.pc = "select",
                                                      !.data = data]]
    /\ UNCHANGED <<stored, draft, writer, memory, jobs, restarts, rolledBack,
                   mixed>>

-----------------------------------------------------------------------------
(* The setting that was assigned last and is not flushed yet, if its value *)
(* is another one than the session has loaded.                             *)
Key(p)   == req[p].data[req[p].at][1]
Value(p) == req[p].data[req[p].at][2]
Dirty(p) == req[p].at > 0 /\ req[p].loaded # <<Value(p)>>

(* Mutant of Flush: the value in memory is left to the commit.             *)
FlushStoresOnly(p) ==
    IF Dirty(p)
    THEN /\ writer \in {Nobody, p}
         /\ writer' = p
         /\ draft' = [draft EXCEPT ![Key(p)] = Value(p)]
         /\ memory' = memory
    ELSE UNCHANGED <<writer, draft, memory>>

(* update_setting_value runs with the flush, inside the transaction.       *)
Flush(p) ==
    IF Dirty(p)
    THEN /\ writer \in {Nobody, p}
         /\ writer' = p
         /\ draft' = [draft EXCEPT ![Key(p)] = Value(p)]
         /\ memory' = [memory EXCEPT ![Key(p)] = Value(p)]
    ELSE UNCHANGED <<writer, draft, memory>>

(* The row of the next setting is selected, which flushes the one before.  *)
Select(p) ==
    /\ req[p].pc = "select"
    /\ Flush(p)
    /\ LET next == req[p].at + 1
           k == req[p].data[next][1]
       IN  req' = [req EXCEPT ![p] = [@ EXCEPT
              !.pc = "validate", !.at = next,
              !.loaded = <<IF writer' = p THEN draft'[k] ELSE stored[k]>>]]
    /\ UNCHANGED <<stored, jobs, bounds, rolledBack, mixed>>

Accept(p) ==
    /\ req[p].pc = "validate"
    /\ req' = [req EXCEPT ![p].pc =
                  IF req[p].at < Len(req[p].data) THEN "select" ELSE "flush"]
    /\ UNCHANGED <<stored, draft, writer, memory, jobs, bounds, rolledBack,
                   mixed>>

(* The session is closed without a commit; nobody tells SettingsStorage.   *)
RollBack(p) ==
    /\ req' = [req EXCEPT ![p] = NoRequest]
    /\ rolledBack' = (rolledBack \/ writer = p)
    /\ writer' = IF writer = p THEN Nobody ELSE writer
    /\ draft' = IF writer = p THEN stored ELSE draft
    /\ UNCHANGED <<stored, memory, jobs, bounds, mixed>>

(* 404, 400 and 422: no such setting, another type, a forbidden address.   *)
Reject(p) == req[p].pc = "validate" /\ RollBack(p)

(* The database stays locked by another writer, or the commit fails.       *)
Fail(p) ==
    /\ \/ req[p].pc \in {"select", "flush"} /\ Dirty(p) /\ writer \notin {Nobody, p}
       \/ req[p].pc = "commit"
    /\ RollBack(p)

FlushLast(p) ==
    /\ req[p].pc = "flush"
    /\ Flush(p)
    /\ req' = [req EXCEPT ![p].pc = "commit"]
    /\ UNCHANGED <<stored, jobs, bounds, rolledBack, mixed>>

(* The request gives one setting two values: the last one is stored, the   *)
(* first one is taken for the jobs.                                        *)
Repeats(p) ==
    \E i, j \in 1..Len(req[p].data) :
        /\ req[p].data[i][1] = req[p].data[j][1]
        /\ req[p].data[i][2] # req[p].data[j][2]

Commit(p) ==
    /\ req[p].pc = "commit"
    /\ IF writer = p
       THEN stored' = draft /\ writer' = Nobody
       ELSE UNCHANGED <<stored, writer>>
    /\ req' = [req EXCEPT ![p].pc = "schedule"]
    /\ mixed' = \/ mixed \/ Repeats(p)
                \/ \E q \in Requests \ {p} : req[q].pc # "off"
    /\ UNCHANGED <<draft, memory, jobs, bounds, rolledBack>>

Sends(p, k) == \E i \in 1..Len(req[p].data) : req[p].data[i][1] = k

(* The values of the request, and for the rest those in memory, to which   *)
(* other requests may have flushed.                                        *)
Wanted(p) ==
    [k \in Keys |->
        IF Sends(p, k)
        THEN req[p].data[CHOOSE i \in 1..Len(req[p].data) :
                            /\ req[p].data[i][1] = k
                            /\ \A j \in 1..(i - 1) : req[p].data[j][1] # k][2]
        ELSE memory[k]]

(* Both jobs are cancelled and made anew, from the request where it names  *)
(* their settings and from memory where it does not.                       *)
Schedule(p) ==
    /\ req[p].pc = "schedule"
    /\ jobs' = ScheduledWith(Wanted(p))
    /\ req' = [req EXCEPT ![p] = NoRequest]
    /\ UNCHANGED <<stored, draft, writer, memory, bounds, rolledBack, mixed>>

-----------------------------------------------------------------------------
(* Mutant of Restart: the jobs are made from what memory held before.      *)
RestartSchedulesFirst ==
    /\ restarts < MaxRestarts
    /\ restarts' = restarts + 1
    /\ req' = [p \in Requests |-> NoRequest]
    /\ writer' = Nobody
    /\ draft' = stored
    /\ memory' = stored
    /\ jobs' = ScheduledWith(memory)
    /\ rolledBack' = FALSE /\ mixed' = FALSE
    /\ UNCHANGED <<stored, sent>>

(* The process dies; before it serves requests again, the settings are     *)
(* loaded and the jobs are made.                                           *)
Restart ==
    /\ restarts < MaxRestarts
    /\ restarts' = restarts + 1
    /\ req' = [p \in Requests |-> NoRequest]
    /\ writer' = Nobody
    /\ draft' = stored
    /\ memory' = stored
    /\ jobs' = ScheduledWith(stored)
    /\ rolledBack' = FALSE /\ mixed' = FALSE
    /\ UNCHANGED <<stored, sent>>

Next ==
    \/ \E p \in Requests :
          \/ Send(p) \/ Select(p) \/ Accept(p) \/ Reject(p) \/ Fail(p)
          \/ FlushLast(p) \/ Commit(p) \/ Schedule(p)
    \/ Restart

Spec == Init /\ [][Next]_vars
-----------------------------------------------------------------------------
TypeOK ==
    /\ stored \in [Keys -> Values]
    /\ draft \in [Keys -> Values]
    /\ writer \in Requests \cup {Nobody}
    /\ memory \in [Keys -> Values]
    /\ jobs \in [Crontabs -> Values \X Values]
    /\ req \in [Requests ->
                  [pc : {"off", "select", "validate", "flush", "commit",
                         "schedule"},
                   data : Changes \cup {<<>>}, at : Nat,
                   loaded : Seq(Values)]]
    /\ sent \in Nat /\ restarts \in Nat
    /\ rolledBack \in BOOLEAN /\ mixed \in BOOLEAN

Quiet == \A p \in Requests : req[p].pc = "off"

(* Whatever requests overlap, memory is what the database holds whenever   *)
(* no transaction has unwritten changes, unless values that had been       *)
(* flushed were rolled back since the start.                               *)
MemoryFollowsStored == writer = Nobody /\ ~rolledBack => memory = stored

(* The jobs follow the stored crontabs and time zone whenever no request   *)
(* is under way, also after a restart in the middle of requests; unless a  *)
(* request was rolled back after a flush, or one committed that gave a     *)
(* setting two values or while another was under way, since the start.     *)
JobsFollowStored ==
    Quiet /\ ~rolledBack /\ ~mixed => jobs = ScheduledWith(stored)

(***************************************************************************)
(* The inductive invariant.                                                *)
(***************************************************************************)
Writes(p) == req[p].pc \in {"select", "validate", "flush", "commit"}

(* How far a request has come in its body.                                 *)
Progress ==
    \A p \in Requests :
        /\ req[p].pc # "off" => req[p].data \in Changes /\ req[p].at <= Len(req[p].data)
        /\ req[p].pc = "select" => req[p].at < Len(req[p].data)
        /\ req[p].pc \in {"validate", "flush", "commit"} => req[p].at > 0
        /\ req[p].pc \in {"flush", "commit", "schedule"} => req[p].at = Len(req[p].data)

(* The transaction sees what is committed and what its writer has flushed, *)
(* and memory what the transaction sees.                                   *)
Drafts ==
    /\ writer = Nobody => draft = stored
    /\ writer # Nobody => Writes(writer)
    /\ ~rolledBack => memory = draft

(* The values of the settings as a request would read them.                *)
View(p) == IF writer = p THEN draft ELSE stored

(* A request finds again what it has assigned and loaded, and commits it,  *)
(* as long as no other one commits.                                        *)
Found(p) ==
    /\ Writes(p) /\ req[p].pc # "commit" /\ req[p].at > 0 =>
          req[p].loaded = <<View(p)[Key(p)]>>
    /\ Writes(p) /\ ~Repeats(p) =>
          \A i \in 1..req[p].at : i < req[p].at \/ req[p].pc = "commit" =>
              View(p)[req[p].data[i][1]] = req[p].data[i][2]
    /\ req[p].pc = "schedule" =>
          /\ ~Repeats(p)
          /\ \A i \in 1..Len(req[p].data) :
                stored[req[p].data[i][1]] = req[p].data[i][2]

Assigned == ~mixed => \A p \in Requests : Found(p)

(* Jobs that are not as stored are made anew: by the request that writes,  *)
(* when it has committed, or by one that has committed.                    *)
JobsCatchUp ==
    ~rolledBack /\ ~mixed =>
        \/ jobs = ScheduledWith(stored)
        \/ writer # Nobody
        \/ \E p \in Requests : req[p].pc = "schedule"

IInv == TypeOK /\ Progress /\ Drafts /\ Assigned /\ JobsCatchUp
=============================================================================
