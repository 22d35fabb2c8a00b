---------------------------- MODULE AgentClients ----------------------------
(***************************************************************************)
(* The backend's clients of one host: the row of the host, the client that *)
(* AgentClientManager has registered for it, and the http session a client *)
(* opens when it needs one and shares between all requests sent through    *)
(* it.  Tasks of one event loop overlap at every await: users read the     *)
(* host, take its client and send requests, as a run or a handler does;    *)
(* editors create, update or delete the host and replace its client.       *)
(* A connection error closes the session the client has at that time.      *)
(*                                                                         *)
(* The host has one id.  SQLite gives the id of the last host to the next  *)
(* one when that row is gone, so a host can be created anew under it.      *)
(***************************************************************************)
EXTENDS Naturals, Sequences

CONSTANTS
    Users, Editors,   \* tasks
    Nobody,
    Data,             \* what a client is made of: url, secret, timeout, ssl
    MaxUses,          \* bound: uses of a client
    MaxRequests,      \* bound: requests
    MaxEdits,         \* bound: changes of the host
    MaxBreaks,        \* bound: connections that break
    MaxRestarts       \* bound: restarts of the backend

Tasks == Users \cup Editors

ASSUME TasksAssumption == Users \cap Editors = {} /\ Nobody \notin Tasks

NoHost   == [there |-> FALSE]
NoClient == 0
NoSession == 0

Hosts == [there : {TRUE}, enabled : BOOLEAN, data : Data]

VARIABLES
    host,         \* the row
    registered,   \* AgentClientManager._HOST_CLIENTS[id], or NoClient
    client,       \* the AgentClients made so far, of all times
    open,         \* aiohttp: sessions that are open, <<client, number>>
    task,
    uses, requests, edits, breaks, restarts,
    overlapped,   \* two edits overlapped since the start
    lost          \* a request ended in a connection error since the start

counters == <<uses, requests, edits, breaks, restarts>>
vars == <<host, registered, client, open, task, counters, overlapped, lost>>

Idle == [pc |-> "off", host |-> NoHost, client |-> NoClient,
         session |-> NoSession, then |-> "off"]

Enabled(h) == h.there /\ h.enabled

Made(h, by) == [data |-> h.data, by |-> by, session |-> NoSession,
                sessions |-> 0, lock |-> Nobody]

(* load_agents_on_init has run before requests are served.                 *)
Loaded(h) == IF Enabled(h) THEN <<Made(h, "edit")>> ELSE <<>>

Init ==
    /\ host \in Hosts
    /\ client = Loaded(host)
    /\ registered = Len(client)
    /\ open = {}
    /\ task = [t \in Tasks |-> Idle]
    /\ uses = 0 /\ requests = 0 /\ edits = 0 /\ breaks = 0 /\ restarts = 0
    /\ overlapped = FALSE /\ lost = FALSE

At(t, pc) == task[t].pc = pc
Goes(t, pc) == task' = [task EXCEPT ![t].pc = pc]

(* What follows the close.                                                 *)
GoesOn(t) ==
    task' = [task EXCEPT ![t] =
        CASE @.then = "off"   -> Idle
          [] @.then = "ready" -> [@ EXCEPT !.pc = "ready", !.then = "off"]
          [] OTHER            -> [@ EXCEPT !.pc = task[t].then, !.then = "off",
                                           !.client = NoClient]]
-----------------------------------------------------------------------------
(* close_session, of the client in the task's hands.  The lock is held     *)
(* while the connections are closed, and until the client has forgotten    *)
(* the session.                                                            *)
Free(c) == client[c].lock = Nobody

(* Mutant of CloseBegin: the lock is not taken.                            *)
CloseBeginUnlocked(t) ==
    LET c == task[t].client
        s == client[c].session
    IN  /\ At(t, "close")
        /\ Free(c)
        /\ IF <<c, s>> \in open
           THEN /\ open' = open \ {<<c, s>>}
                /\ client' = client
                /\ Goes(t, "closing")
           ELSE /\ client' = [client EXCEPT ![c].session = NoSession]
                /\ open' = open
                /\ GoesOn(t)
        /\ UNCHANGED <<host, registered, counters, overlapped, lost>>

CloseBegin(t) ==
    LET c == task[t].client
        s == client[c].session
    IN  /\ At(t, "close")
        /\ Free(c)
        /\ IF <<c, s>> \in open
           THEN /\ open' = open \ {<<c, s>>}
                /\ client' = [client EXCEPT ![c].lock = t]
                /\ Goes(t, "closing")
           ELSE /\ client' = [client EXCEPT ![c].session = NoSession]
                /\ open' = open
                /\ GoesOn(t)
        /\ UNCHANGED <<host, registered, counters, overlapped, lost>>

(* Mutant of CloseEnd: an error of close() skips the release of the lock.  *)
CloseEndKeepsLock(t) ==
    /\ At(t, "closing")
    /\ client' = [client EXCEPT ![task[t].client].session = NoSession]
    /\ GoesOn(t)
    /\ UNCHANGED <<host, registered, open, counters, overlapped, lost>>

CloseEnd(t) ==
    /\ At(t, "closing")
    /\ client' = [client EXCEPT ![task[t].client] =
                    [@ EXCEPT !.session = NoSession, !.lock = Nobody]]
    /\ GoesOn(t)
    /\ UNCHANGED <<host, registered, open, counters, overlapped, lost>>

-----------------------------------------------------------------------------
(* A user reads the host and goes on if it is enabled.                     *)
Read(u) ==
    /\ At(u, "off")
    /\ uses < MaxUses
    /\ uses' = uses + 1
    /\ Enabled(host)
    /\ task' = [task EXCEPT ![u] = [Idle EXCEPT !.pc = "get", !.host = host]]
    /\ UNCHANGED <<host, registered, client, open, requests, edits, breaks, restarts,
                   overlapped, lost>>

(* get_host_client: made from the row the user has read if there is none.  *)
GetClient(u) ==
    /\ At(u, "get")
    /\ IF registered # NoClient
       THEN UNCHANGED <<registered, client>>
       ELSE /\ client' = Append(client, Made(task[u].host, "use"))
            /\ registered' = Len(client')
    /\ task' = [task EXCEPT ![u] = [@ EXCEPT !.pc = "ready", !.host = NoHost,
                                             !.client = registered']]
    /\ UNCHANGED <<host, open, counters, overlapped, lost>>

(* _get_session, and with no await in between the start of the request.    *)
Send(u) ==
    LET c == task[u].client
        s == client[c].session
        next == client[c].sessions + 1
    IN  /\ At(u, "ready")
        /\ requests < MaxRequests
        /\ requests' = requests + 1
        /\ Free(c)
        /\ IF <<c, s>> \in open
           THEN UNCHANGED <<client, open>>
           ELSE /\ client' = [client EXCEPT ![c] =
                                [@ EXCEPT !.session = next, !.sessions = next]]
                /\ open' = open \cup {<<c, next>>}
        /\ task' = [task EXCEPT ![u] =
              [@ EXCEPT !.pc = "flight", !.session = client'[c].session]]
        /\ UNCHANGED <<host, registered, uses, edits, breaks, restarts,
                       overlapped, lost>>

Severed(u) == <<task[u].client, task[u].session>> \notin open

(* The response is there, or the agent answers with an error.              *)
Answered(u) ==
    /\ At(u, "flight")
    /\ ~Severed(u)
    /\ task' = [task EXCEPT ![u] = [@ EXCEPT !.pc = "ready",
                                             !.session = NoSession]]
    /\ UNCHANGED <<host, registered, client, open, counters, overlapped, lost>>

(* Mutant of TimesOut: the session is closed, as after a connection error. *)
TimesOutAndCloses(u) ==
    /\ At(u, "flight")
    /\ task' = [task EXCEPT ![u] = [@ EXCEPT !.pc = "close", !.then = "ready",
                                             !.session = NoSession]]
    /\ UNCHANGED <<host, registered, client, open, counters, overlapped, lost>>

(* A timeout leaves the session to the others.                             *)
TimesOut(u) ==
    /\ At(u, "flight")
    /\ task' = [task EXCEPT ![u] = [@ EXCEPT !.pc = "ready",
                                             !.session = NoSession]]
    /\ UNCHANGED <<host, registered, client, open, counters, overlapped, lost>>

(* aiohttp raises ClientError when the connection breaks, and also when    *)
(* somebody has closed the session under the request.                      *)
Breaks(u) ==
    /\ At(u, "flight")
    /\ \/ Severed(u) /\ breaks' = breaks
       \/ breaks < MaxBreaks /\ breaks' = breaks + 1
    /\ lost' = TRUE
    /\ task' = [task EXCEPT ![u] = [@ EXCEPT !.pc = "close", !.then = "ready",
                                             !.session = NoSession]]
    /\ UNCHANGED <<host, registered, client, open, uses, requests, edits, restarts,
                   overlapped>>

(* The handler or the run is done with the client.                         *)
Leave(u) ==
    /\ At(u, "ready")
    /\ task' = [task EXCEPT ![u] = Idle]
    /\ UNCHANGED <<host, registered, client, open, counters, overlapped, lost>>
-----------------------------------------------------------------------------
(* An editor's request has been validated; get_host finds the row for an   *)
(* update or a deletion, and the name is free for a creation.              *)
StartEdit(e) ==
    /\ At(e, "off")
    /\ edits < MaxEdits
    /\ edits' = edits + 1
    /\ \/ /\ host.there
          /\ \E h \in Hosts :
                task' = [task EXCEPT ![e] = [Idle EXCEPT !.pc = "update",
                                                         !.host = h]]
       \/ /\ host.there
          /\ task' = [task EXCEPT ![e] = [Idle EXCEPT !.pc = "drop"]]
       \/ /\ ~host.there
          /\ \E h \in Hosts :
                task' = [task EXCEPT ![e] = [Idle EXCEPT !.pc = "insert",
                                                         !.host = h]]
    /\ overlapped' = (overlapped \/ \E f \in Editors \ {e} : ~At(f, "off"))
    /\ UNCHANGED <<host, registered, client, open, uses, requests, breaks, restarts,
                   lost>>

(* The transaction of an update finds the row gone if it was deleted in    *)
(* the meantime, and one of a creation the name taken.                     *)
CommitEdit(e) ==
    /\ At(e, "update") \/ At(e, "insert")
    /\ IF host.there <=> At(e, "update")
       THEN host' = task[e].host /\ Goes(e, "refresh")
       ELSE host' = host /\ task' = [task EXCEPT ![e] = Idle]
    /\ UNCHANGED <<registered, client, open, counters, overlapped, lost>>

(* What is read back may be what another editor has committed.             *)
Refresh(e) ==
    /\ At(e, "refresh")
    /\ task' = [task EXCEPT ![e] =
          IF host.there THEN [@ EXCEPT !.pc = "remove", !.host = host]
                        ELSE Idle]
    /\ UNCHANGED <<host, registered, client, open, counters, overlapped, lost>>

(* What follows remove_client: set_client for an enabled host, which calls *)
(* remove_client again and then makes the client.                          *)
AfterPop(pc, h) ==
    CASE pc = "remove"  -> IF h.enabled THEN "replace" ELSE "off"
      [] pc = "replace" -> "assign"
      [] pc = "drop"    -> "delete"

(* remove_client takes the client out and closes its session.              *)
RemoveClient(e) ==
    /\ task[e].pc \in {"remove", "replace", "drop"}
    /\ registered' = NoClient
    /\ LET next == AfterPop(task[e].pc, task[e].host)
       IN  task' = [task EXCEPT ![e] =
              IF registered = NoClient
              THEN [@ EXCEPT !.pc = next]
              ELSE [@ EXCEPT !.pc = "close", !.client = registered,
                             !.then = next]]
    /\ UNCHANGED <<host, client, open, counters, overlapped, lost>>

(* Mutant of SetClient: a client that was made in the meantime is kept.    *)
SetClientIfNone(e) ==
    /\ At(e, "assign")
    /\ IF registered # NoClient
       THEN UNCHANGED <<client, registered>>
       ELSE /\ client' = Append(client, Made(task[e].host, "edit"))
            /\ registered' = Len(client')
    /\ task' = [task EXCEPT ![e] = Idle]
    /\ UNCHANGED <<host, open, counters, overlapped, lost>>

SetClient(e) ==
    /\ At(e, "assign")
    /\ client' = Append(client, Made(task[e].host, "edit"))
    /\ registered' = Len(client')
    /\ task' = [task EXCEPT ![e] = Idle]
    /\ UNCHANGED <<host, open, counters, overlapped, lost>>

(* The row goes after its client.                                          *)
Delete(e) ==
    /\ At(e, "delete")
    /\ host' = NoHost
    /\ task' = [task EXCEPT ![e] = Idle]
    /\ UNCHANGED <<registered, client, open, counters, overlapped, lost>>

(* The backend stops (remove_all) or dies, and loads its clients again.    *)
Restart ==
    /\ restarts < MaxRestarts
    /\ restarts' = restarts + 1
    /\ task' = [t \in Tasks |-> Idle]
    /\ open' = {}
    /\ client' = Loaded(host)
    /\ registered' = Len(client')
    /\ overlapped' = FALSE /\ lost' = FALSE
    /\ UNCHANGED <<host, uses, requests, edits, breaks>>

Use(u) ==
    \/ GetClient(u) \/ Send(u) \/ Answered(u) \/ TimesOut(u) \/ Breaks(u)
    \/ Leave(u)

Edit(e) ==
    \/ CommitEdit(e) \/ Refresh(e) \/ RemoveClient(e) \/ SetClient(e)
    \/ Delete(e)

Close(t) == CloseBegin(t) \/ CloseEnd(t)

Next ==
    \/ \E u \in Users : Read(u) \/ Use(u)
    \/ \E e \in Editors : StartEdit(e) \/ Edit(e)
    \/ \E t \in Tasks : Close(t)
    \/ Restart

Spec == Init /\ [][Next]_vars
-----------------------------------------------------------------------------
ClientRecords == [data : Data, by : {"edit", "use"}, session : Nat, sessions : Nat,
                  lock : Tasks \cup {Nobody}]

TaskRecords(clients) ==
    [pc : {"off", "get", "ready", "flight", "close", "closing", "update", "insert",
           "refresh", "remove", "replace", "assign", "drop", "delete"},
     host : Hosts \cup {NoHost}, client : 0..clients, session : Nat,
     then : {"off", "ready", "replace", "assign", "delete"}]

TypeOK ==
    /\ host \in Hosts \cup {NoHost}
    /\ client \in Seq(ClientRecords)
    /\ registered \in 0..Len(client)
    /\ open \subseteq (1..Len(client)) \X (Nat \ {0})
    /\ task \in [Tasks -> TaskRecords(Len(client))]

Settled == \A e \in Editors : At(e, "off") \/ (At(e, "close") /\ task[e].then = "off")
                              \/ (At(e, "closing") /\ task[e].then = "off")

(* However closes, failures and new requests overlap, a session that is    *)
(* open is the one its client hands out and closes: none is forgotten.     *)
NoSessionLost == \A s \in open : client[s[1]].session = s[2]

(* Once an edit is done, an enabled host has a client, and its url, secret *)
(* and timeout are the stored ones, also when users that have read the old *)
(* row register clients of their own; unless two edits overlapped.         *)
ClientIsCurrent ==
    Settled /\ ~overlapped /\ Enabled(host) =>
        registered # NoClient /\ client[registered].data = host.data

(* A request ends in a connection error only after a connection broke or   *)
(* the host was edited: timeouts and answers never cost another request    *)
(* its session.                                                            *)
OnlyBreaksFail == lost => breaks > 0 \/ edits > 0

(* A lock that tasks wait for is held by a task that is closing that very  *)
(* client, and by nobody once it has ended: no request and no edit waits   *)
(* for a lock for ever.                                                    *)
LocksAreReleased ==
    \A c \in 1..Len(client) :
        ~Free(c) => LET t == client[c].lock
                    IN  At(t, "closing") /\ task[t].client = c

(* What a task has in its hands: a client to use or to close, the host to  *)
(* make a client of.                                                       *)
InHands ==
    \A t \in Tasks :
        /\ task[t].pc \in {"ready", "flight", "close", "closing"} =>
              task[t].client # NoClient
        /\ \/ task[t].pc \in {"get", "update", "insert", "remove", "replace", "assign"}
           \/ task[t].then \in {"replace", "assign"}
           => task[t].host \in Hosts
        /\ task[t].pc \notin {"close", "closing"} => task[t].then = "off"

(* A task that closes a client has its lock and has closed its session.    *)
ClosesAlone ==
    \A t \in Tasks : At(t, "closing") =>
        LET c == task[t].client
        IN  client[c].lock = t /\ <<c, client[c].session>> \notin open

(* The inductive invariant.                                                *)
IInv == TypeOK /\ NoSessionLost /\ LocksAreReleased /\ InHands /\ ClosesAlone

Current ==
    Enabled(host) =>
        registered # NoClient /\ client[registered].data = host.data

(* The editor has not touched the client, or has nothing to put in place   *)
(* of the one it has taken out.                                            *)
Unedited(e) ==
    \/ task[e].pc \in {"off", "update", "insert", "drop"}
    \/ task[e].pc \in {"close", "closing"} /\ task[e].then = "off"

(* Edits one after the other: each makes the client of the row as it is,   *)
(* and the client is that of the row until an edit takes it out.           *)
EditsInOrder ==
    ~overlapped =>
        /\ \A e, f \in Editors : e # f => At(e, "off") \/ At(f, "off")
        /\ (\A e \in Editors : Unedited(e)) => Current
        /\ \A e \in Editors :
              /\ At(e, "refresh") => host.there
              /\ \/ task[e].pc \in {"remove", "replace", "assign"}
                 \/ task[e].then \in {"replace", "assign"}
                 => task[e].host = host

(* Before the first edit and the first connection that breaks nobody       *)
(* closes a session, and every request in flight has its own.              *)
Calm ==
    /\ breaks \in Nat /\ edits \in Nat
    /\ breaks = 0 /\ edits = 0 =>
          /\ ~lost
          /\ \A e \in Editors : At(e, "off")
          /\ \A u \in Users : /\ task[u].pc \in {"off", "get", "ready", "flight"}
                              /\ At(u, "flight") => ~Severed(u)
=============================================================================
