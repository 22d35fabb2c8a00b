------------------------------ MODULE AgentPool ------------------------------
(***************************************************************************)
(* The agent of one docker host.  Every docker call of every request is    *)
(* made in one of a few threads (asyncall), and what a request does on a   *)
(* container is made of two of them: does the container exist, and then    *)
(* the operation.  The handler gives up on a call after a while, and so    *)
(* does the client that sent the request, each on its own clock; the       *)
(* thread goes on.  So a request can take effect long after its client has *)
(* been told that it failed and has gone on to the next one.               *)
(*                                                                         *)
(* Neither clock is modelled: whichever limit is shorter (5 s or 600 s for *)
(* the client, 15 s and 15 s or 600 s for the two calls of the handler),   *)
(* the time the two calls wait for a thread makes both orders possible.    *)
(***************************************************************************)
EXTENDS Naturals, FiniteSets

CONSTANTS
    Clients,      \* coroutines that use the agent, each one call at a time
    MaxCalls,     \* bound: calls each of them makes
    Containers,
    Operations,   \* operations they ask for
    Threads       \* workers of the pool (7)

(* start, restart and unpause; stop and kill; remove; create; and all that *)
(* only read: inspect, logs.                                               *)
ASSUME OperationsAssumption ==
    Operations \subseteq {"start", "stop", "remove", "create", "read"}

ASSUME ClientsAssumption == IsFiniteSet(Clients)
ASSUME MaxCallsAssumption == MaxCalls \in Nat
ASSUME ThreadsAssumption == Threads \in Nat \ {0}

Calls == Clients \X (1..MaxCalls)

(* What the client is told: the result, 404, docker's error (424), or that *)
(* time has run out (the agent's 500, the client's own 408 or 502).        *)
Answers == {"ok", "notFound", "refused", "timeout"}

Jobs == {"checkQueued", "checking", "opQueued", "operating", "applied"}

VARIABLES
    st,           \* docker: state of each container
    op, on,       \* operation and container of each call
    handler,      \* "none", what it awaits ("check", "op"), or its answer
    job,          \* the call's work in the pool, "none" when there is none
    answer,       \* what the client has been told, "none" until then
    at,           \* when the call took effect, 0 when it has not
    effects       \* how many calls took effect

poolVars == <<st, op, on, handler, job, answer, at, effects>>

PoolInit ==
    /\ st \in [Containers -> {"running", "stopped"}]
    /\ op \in [Calls -> Operations]
    /\ on \in [Calls -> Containers]
    /\ handler = [k \in Calls |-> "none"]
    /\ job = [k \in Calls |-> "none"]
    /\ answer = [k \in Calls |-> "none"]
    /\ at = [k \in Calls |-> 0]
    /\ effects = 0

(* Creating is not preceded by the question whether the container exists.  *)
Checked(o) == o # "create"

(* A coroutine awaits the answer to a call before it makes the next one.   *)
Ready(k) ==
    /\ handler[k] = "none"
    /\ \A n \in 1..(k[2] - 1) : answer[<<k[1], n>>] # "none"

Request(k) ==
    /\ Ready(k)
    /\ handler' = [handler EXCEPT ![k] =
                      IF Checked(op[k]) THEN "check" ELSE "op"]
    /\ job' = [job EXCEPT ![k] =
                  IF Checked(op[k]) THEN "checkQueued" ELSE "opQueued"]
    /\ UNCHANGED <<st, op, on, answer, at, effects>>

-----------------------------------------------------------------------------
(* Mutant of Busy: a call its handler has given up on needs no thread.     *)
BusyAttended ==
    {k \in Calls : job[k] \notin {"none", "checkQueued", "opQueued"}
                   /\ handler[k] \in {"check", "op"}}

Busy == {k \in Calls : job[k] \notin {"none", "checkQueued", "opQueued"}}

(* A free thread takes a call that waits for one.                          *)
Take(k) ==
    /\ job[k] \in {"checkQueued", "opQueued"}
    /\ Cardinality(Busy) < Threads
    /\ job' = [job EXCEPT ![k] =
                  IF @ = "checkQueued" THEN "checking" ELSE "operating"]
    /\ UNCHANGED <<st, op, on, handler, answer, at, effects>>

(* Mutant of Checks: the handler of an absent container goes on.           *)
ChecksNothing(k) ==
    /\ job[k] = "checking"
    /\ IF handler[k] # "check"
       THEN job' = [job EXCEPT ![k] = "none"] /\ UNCHANGED handler
       ELSE /\ job' = [job EXCEPT ![k] = "opQueued"]
            /\ handler' = [handler EXCEPT ![k] =
                              IF st[on[k]] = "absent" THEN "notFound" ELSE "op"]
    /\ UNCHANGED <<st, op, on, answer, at, effects>>

(* is_exists: the answer goes to the handler if it still waits for it, and *)
(* the handler then hands in the operation or answers 404.                 *)
Checks(k) ==
    /\ job[k] = "checking"
    /\ \/ /\ handler[k] # "check"
          /\ job' = [job EXCEPT ![k] = "none"]
          /\ UNCHANGED handler
       \/ /\ handler[k] = "check" /\ st[on[k]] = "absent"
          /\ job' = [job EXCEPT ![k] = "none"]
          /\ handler' = [handler EXCEPT ![k] = "notFound"]
       \/ /\ handler[k] = "check" /\ st[on[k]] # "absent"
          /\ job' = [job EXCEPT ![k] = "opQueued"]
          /\ handler' = [handler EXCEPT ![k] = "op"]
    /\ UNCHANGED <<st, op, on, answer, at, effects>>

(* What docker makes of an operation it accepts.                           *)
Accepts(c, o) ==
    CASE o = "create" -> st[c] = "absent"
      [] o = "remove" -> st[c] = "stopped"
      [] OTHER        -> st[c] # "absent"

Effect(c, o) ==
    CASE o = "start"            -> "running"
      [] o \in {"stop", "create"} -> "stopped"
      [] o = "remove"           -> "absent"
      [] OTHER                  -> st[c]

Operates(k) ==
    /\ job[k] = "operating"
    /\ Accepts(on[k], op[k])
    /\ st' = [st EXCEPT ![on[k]] = Effect(on[k], op[k])]
    /\ effects' = effects + 1
    /\ at' = [at EXCEPT ![k] = effects']
    /\ job' = [job EXCEPT ![k] = "applied"]
    /\ UNCHANGED <<op, on, handler, answer>>

(* The thread comes back to a handler that may have gone.                  *)
Reports(k, r) ==
    /\ handler' = IF handler[k] = "op" THEN [handler EXCEPT ![k] = r]
                  ELSE handler
    /\ job' = [job EXCEPT ![k] = "none"]

Returns(k) ==
    /\ job[k] = "applied"
    /\ Reports(k, "ok")
    /\ UNCHANGED <<st, op, on, answer, at, effects>>

(* Docker may refuse what it could have done, too.                         *)
Refuses(k) ==
    /\ job[k] = "operating"
    /\ Reports(k, "refused")
    /\ UNCHANGED <<st, op, on, answer, at, effects>>

-----------------------------------------------------------------------------
(* Mutant of GivesUp: only a call that has a thread is given up on.        *)
GivesUpInThread(k) ==
    /\ handler[k] \in {"check", "op"}
    /\ job[k] \notin {"checkQueued", "opQueued"}
    /\ handler' = [handler EXCEPT ![k] = "timeout"]
    /\ UNCHANGED <<st, op, on, job, answer, at, effects>>

(* wait_for: a call that still waits for a thread is cancelled, one that   *)
(* has a thread goes on without anybody to report to.                      *)
GivesUp(k) ==
    /\ handler[k] \in {"check", "op"}
    /\ handler' = [handler EXCEPT ![k] = "timeout"]
    /\ job' = IF job[k] \in {"checkQueued", "opQueued"}
              THEN [job EXCEPT ![k] = "none"] ELSE job
    /\ UNCHANGED <<st, op, on, answer, at, effects>>

Responds(k) ==
    /\ handler[k] \in Answers
    /\ answer[k] = "none"
    /\ answer' = [answer EXCEPT ![k] = handler[k]]
    /\ UNCHANGED <<st, op, on, handler, job, at, effects>>

(* Mutant of Loses: a client whose connection broke hears "refused".       *)
LosesRefused(k) ==
    /\ handler[k] # "none"
    /\ answer[k] = "none"
    /\ answer' = [answer EXCEPT ![k] = "refused"]
    /\ UNCHANGED <<st, op, on, handler, job, at, effects>>

(* The client's own timeout, or a broken connection; the agent serves on.  *)
Loses(k) ==
    /\ handler[k] # "none"
    /\ answer[k] = "none"
    /\ answer' = [answer EXCEPT ![k] = "timeout"]
    /\ UNCHANGED <<st, op, on, handler, job, at, effects>>

PoolNext == \E k \in Calls :
    \/ Request(k) \/ Take(k) \/ Checks(k) \/ Operates(k) \/ Refuses(k)
    \/ Returns(k) \/ GivesUp(k) \/ Responds(k) \/ Loses(k)

PoolSpec == PoolInit /\ [][PoolNext]_poolVars

(* The two timeouts come; docker may hang, so its steps are not fair.      *)
PoolFairness ==
    \A k \in Calls : WF_poolVars(GivesUp(k)) /\ WF_poolVars(Loses(k))

PoolFairSpec == PoolSpec /\ PoolFairness
-----------------------------------------------------------------------------
PoolTypeOK ==
    /\ st \in [Containers -> {"running", "stopped", "absent"}]
    /\ op \in [Calls -> Operations]
    /\ on \in [Calls -> Containers]
    /\ handler \in [Calls -> {"none", "check", "op"} \cup Answers]
    /\ job \in [Calls -> {"none"} \cup Jobs]
    /\ answer \in [Calls -> {"none"} \cup Answers]
    /\ at \in [Calls -> Nat]
    /\ effects \in Nat

(* Whatever timed out before, a client may rely on every other answer:     *)
(* "ok" means that the operation took effect, and "not found" or docker's  *)
(* error that it has not and never will, no thread being left with it      *)
(* (asyncall, is_exists and the handlers of container_api.py).             *)
AnswersAreFinal ==
    \A k \in Calls :
        /\ answer[k] = "ok" => at[k] # 0
        /\ answer[k] \in {"notFound", "refused"} => at[k] = 0 /\ job[k] = "none"

(* The calls of one client take effect in the order it made them, unless   *)
(* the earlier one was answered by a timeout: nothing but a timeout lets   *)
(* two awaited calls overlap.                                              *)
ReorderedOnlyAfterTimeout ==
    \A p \in Clients, m, n \in 1..MaxCalls :
        m < n /\ at[<<p, n>>] # 0 /\ at[<<p, m>>] > at[<<p, n>>]
            => answer[<<p, m>>] = "timeout"

(* There is a limit to what can still happen behind the clients' backs:    *)
(* once the handlers are through, only the threads that were already at    *)
(* work can change the host, as many as the pool has.                      *)
Unattended(k) == handler[k] \in Answers /\ job[k] # "none"

LateEffectsBounded ==
    /\ \A k \in Calls : Unattended(k) => k \in Busy
    /\ Cardinality({k \in Calls : Unattended(k)}) <= Threads

(* Why: where the handler and the thread of a call are, and since when the *)
(* client knows.                                                           *)
InStep(k) ==
    /\ handler[k] = "none" => job[k] = "none" /\ answer[k] = "none"
    /\ handler[k] = "check" => job[k] \in {"checkQueued", "checking"}
    /\ handler[k] = "op" => job[k] \in {"opQueued", "operating", "applied"}
    /\ handler[k] = "timeout" =>
          job[k] \in {"none", "checking", "operating", "applied"}
    /\ handler[k] \in {"ok", "notFound", "refused"} => job[k] = "none"

Truthful(k) ==
    /\ handler[k] \in {"none", "check", "notFound", "refused"} => at[k] = 0
    /\ job[k] \in {"checkQueued", "checking", "opQueued", "operating"} =>
          at[k] = 0
    /\ handler[k] = "ok" \/ job[k] = "applied" => at[k] # 0
    /\ answer[k] \in {"none", "timeout", handler[k]}

Sequential ==
    \A p \in Clients, m, n \in 1..MaxCalls :
        m < n /\ handler[<<p, n>>] # "none" => answer[<<p, m>>] # "none"

PoolIInv ==
    /\ \A k \in Calls : InStep(k) /\ Truthful(k) /\ at[k] <= effects
    /\ Sequential
    /\ ReorderedOnlyAfterTimeout
    /\ Cardinality(Busy) <= Threads

(* Though docker hangs and every thread with it, each request that reached *)
(* the agent is answered by its handler (asyncall's wait_for), the ones    *)
(* that only wait for a thread included, and each client goes on.          *)
EveryRequestEnds ==
    \A k \in Calls :
        handler[k] # "none" ~> handler[k] \in Answers /\ answer[k] # "none"
=============================================================================
