----------------------------- MODULE AgentProofs -----------------------------
(***************************************************************************)
(* Both ends of the backend's calls of an agent.  Of the backend's clients *)
(* of a host, for any number of users, editors, edits, requests and        *)
(* restarts: no session of a client is forgotten, every lock is held by    *)
(* the task that is closing the client, the client is that of the row      *)
(* after edits that do not overlap, and only a broken connection or an     *)
(* edit fails a request.  Of the agent, for any number of clients, calls,  *)
(* containers and threads: what a client may conclude from an answer.      *)
(***************************************************************************)
EXTENDS AgentClients, AgentPool, SequenceTheorems, FiniteSetTheorems, TLAPS

WithClient == {"ready", "flight", "close", "closing"}
WithHost == {"get", "update", "insert", "remove", "replace", "assign"}

(* A task has in its hands what its next step needs.                       *)
Fit(x) ==
    /\ x.pc \in WithClient => x.client # NoClient
    /\ x.pc \in WithHost \/ x.then \in {"replace", "assign"} => x.host \in Hosts
    /\ x.pc \notin {"close", "closing"} => x.then = "off"

Proper(x) == x.pc # "closing" /\ Fit(x)

LEMMA HostsOfRow == ASSUME NEW h \in Hosts \cup {NoHost}, h.there PROVE h \in Hosts
BY DEF NoHost

LEMMA MadeIsClient ==
    ASSUME NEW h \in Hosts, NEW by \in {"edit", "use"}
    PROVE  Made(h, by) \in ClientRecords /\ Made(h, by).lock = Nobody
BY DEF Made, Hosts, ClientRecords, NoSession

LEMMA IdleIsProper == \A n \in Nat : Idle \in TaskRecords(n) /\ Proper(Idle)
BY DEF Idle, TaskRecords, Proper, Fit, WithClient, WithHost, NoSession, NoClient

(* A task that closes nothing goes from one step to another.               *)
LEMMA TaskMoves ==
    ASSUME IInv, NEW t \in Tasks, NEW x \in TaskRecords(Len(client)), Proper(x),
           ~At(t, "closing"), task' = [task EXCEPT ![t] = x],
           UNCHANGED <<client, open>>,
           host' \in Hosts \cup {NoHost}, registered' \in 0..Len(client)
    PROVE  IInv'
<1>1. TypeOK'
    BY DEF IInv, TypeOK
<1>2. NoSessionLost'
    BY DEF IInv, NoSessionLost
<1>3. LocksAreReleased'
    <2> SUFFICES ASSUME NEW c \in 1..Len(client), ~Free(c)
                 PROVE  At(client[c].lock, "closing")' /\ task'[client[c].lock].client = c
        BY DEF LocksAreReleased, Free
    <2>1. At(client[c].lock, "closing") /\ task[client[c].lock].client = c
        BY DEF IInv, LocksAreReleased
    <2>2. client[c] \in ClientRecords /\ client[c].lock \in Tasks
        <3>1. client[c] \in ClientRecords
            BY ElementOfSeq DEF IInv, TypeOK
        <3> QED
            BY <3>1 DEF ClientRecords, Free
    <2> QED
        BY <2>1, <2>2 DEF At, IInv, TypeOK
<1>4. InHands'
    BY DEF IInv, InHands, TypeOK, Proper, Fit, WithClient, WithHost
<1>5. ClosesAlone'
    BY DEF IInv, ClosesAlone, TypeOK, Proper, At
<1> QED
    BY <1>1, <1>2, <1>3, <1>4, <1>5 DEF IInv

(* A task makes a client and registers it.                                 *)
LEMMA ClientIsMade ==
    ASSUME IInv, NEW t \in Tasks, NEW x \in TaskRecords(Len(client) + 1), Proper(x),
           ~At(t, "closing"), task' = [task EXCEPT ![t] = x],
           NEW new \in ClientRecords, new.lock = Nobody,
           client' = Append(client, new), registered' = Len(client'),
           UNCHANGED <<host, open>>
    PROVE  IInv'
<1> DEFINE n == Len(client)
<1>0. /\ client \in Seq(ClientRecords) /\ n \in Nat
      /\ open \subseteq (1..n) \X (Nat \ {0})
      /\ task \in [Tasks -> TaskRecords(n)]
    BY LenProperties DEF IInv, TypeOK
<1>1. /\ client' \in Seq(ClientRecords) /\ Len(client') = n + 1
      /\ \A c \in 1..n : client'[c] = client[c]
      /\ client'[n + 1] = new
    BY <1>0, AppendProperties
<1>2. TypeOK'
    <2>1. TaskRecords(n) \subseteq TaskRecords(n + 1)
        BY <1>0 DEF TaskRecords
    <2>2. task' \in [Tasks -> TaskRecords(n + 1)]
        BY <2>1, <1>0
    <2>3. open' \subseteq (1..Len(client')) \X (Nat \ {0})
        BY <1>0, <1>1
    <2> HIDE DEF n
    <2> QED
        BY <2>2, <2>3, <1>0, <1>1 DEF TypeOK, IInv
<1>3. NoSessionLost'
    <2> SUFFICES ASSUME NEW s \in open PROVE client'[s[1]].session = s[2]
        BY DEF NoSessionLost
    <2>1. s[1] \in 1..n
        BY <1>0
    <2> QED
        BY <2>1, <1>1 DEF IInv, NoSessionLost
<1>4. LocksAreReleased'
    <2> SUFFICES ASSUME NEW c \in 1..(n + 1), client'[c].lock # Nobody
                 PROVE  /\ task'[client'[c].lock].pc = "closing"
                        /\ task'[client'[c].lock].client = c
        BY <1>1 DEF LocksAreReleased, Free, At
    <2>1. c \in 1..n /\ client'[c] = client[c]
        <3>1. c # n + 1
            BY <1>1
        <3> QED
            BY <3>1, <1>0, <1>1
    <2>2. At(client[c].lock, "closing") /\ task[client[c].lock].client = c
        BY <2>1 DEF IInv, LocksAreReleased, Free
    <2>3. client[c].lock \in Tasks
        <3>1. client[c] \in ClientRecords
            BY <2>1, <1>0, ElementOfSeq
        <3> QED
            BY <3>1, <2>1 DEF ClientRecords
    <2> QED
        BY <2>1, <2>2, <2>3, <1>0 DEF At
<1>5. InHands'
    BY <1>0 DEF IInv, InHands, Proper, Fit, WithClient, WithHost
<1>6. ClosesAlone'
    <2> SUFFICES ASSUME NEW u \in Tasks, At(u, "closing")'
                 PROVE  /\ client'[task'[u].client].lock = u
                        /\ <<task'[u].client, client'[task'[u].client].session>> \notin open
        BY DEF ClosesAlone
    <2>1. u # t /\ task'[u] = task[u] /\ At(u, "closing")
        BY <1>0 DEF At, Proper
    <2>2. task[u].client \in 1..n
        BY <2>1, <1>0 DEF IInv, InHands, At, TaskRecords, NoClient
    <2> QED
        BY <2>1, <2>2, <1>1 DEF IInv, ClosesAlone
<1> QED
    BY <1>2, <1>3, <1>4, <1>5, <1>6 DEF IInv

(* A task changes a client that no other task is closing.                  *)
LEMMA ClientChanges ==
    ASSUME IInv, NEW t \in Tasks, NEW x \in TaskRecords(Len(client)),
           NEW c \in 1..Len(client), NEW y \in ClientRecords,
           task' = [task EXCEPT ![t] = x], client' = [client EXCEPT ![c] = y],
           client[c].lock \in {Nobody, t},
           At(t, "closing") => task[t].client = c,
           open' \subseteq (1..Len(client)) \X (Nat \ {0}),
           \A s \in open' : IF s[1] = c THEN s[2] = y.session ELSE s \in open,
           y.lock # Nobody => y.lock = t /\ x.pc = "closing",
           x.pc = "closing" => y.lock = t /\ x.client = c /\ \A s \in open' : s[1] # c,
           Fit(x),
           UNCHANGED <<host, registered>>
    PROVE  IInv'
<1> DEFINE n == Len(client)
<1>0. /\ client \in Seq(ClientRecords) /\ n \in Nat
      /\ open \subseteq (1..n) \X (Nat \ {0})
      /\ task \in [Tasks -> TaskRecords(n)]
      /\ Nobody \notin Tasks
    BY LenProperties, TasksAssumption DEF IInv, TypeOK
<1>1. /\ client' \in Seq(ClientRecords) /\ Len(client') = n
      /\ \A d \in 1..n : client'[d] = IF d = c THEN y ELSE client[d]
    BY <1>0, ExceptSeq
<1>2. \A d \in 1..n : client[d].lock \in Tasks \cup {Nobody}
    <2> TAKE d \in 1..n
    <2>1. client[d] \in ClientRecords
        BY <1>0, ElementOfSeq
    <2> QED
        BY <2>1 DEF ClientRecords
<1>3. TypeOK'
    BY <1>0, <1>1 DEF IInv, TypeOK
<1>4. NoSessionLost'
    <2> SUFFICES ASSUME NEW s \in open' PROVE client'[s[1]].session = s[2]
        BY DEF NoSessionLost
    <2>1. s[1] \in 1..n
        OBVIOUS
    <2>2. CASE s[1] = c
        BY <2>1, <2>2, <1>1
    <2>3. CASE s[1] # c
        BY <2>1, <2>3, <1>1 DEF IInv, NoSessionLost
    <2> QED
        BY <2>2, <2>3
<1>5. LocksAreReleased'
    <2> SUFFICES ASSUME NEW d \in 1..n, client'[d].lock # Nobody
                 PROVE  /\ task'[client'[d].lock].pc = "closing"
                        /\ task'[client'[d].lock].client = d
        BY <1>1 DEF LocksAreReleased, Free, At
    <2>1. CASE d = c
        BY <2>1, <1>0, <1>1
    <2>2. CASE d # c
        <3>1. client'[d] = client[d]
            BY <2>2, <1>1
        <3>2. At(client[d].lock, "closing") /\ task[client[d].lock].client = d
            BY <3>1 DEF IInv, LocksAreReleased, Free
        <3>3. client[d].lock \in Tasks /\ client[d].lock # t
            BY <3>1, <3>2, <2>2, <1>2
        <3> QED
            BY <3>1, <3>2, <3>3, <1>0 DEF At
    <2> QED
        BY <2>1, <2>2
<1>6. InHands'
    BY <1>0 DEF IInv, InHands, Fit, WithClient, WithHost
<1>7. ClosesAlone'
    <2> SUFFICES ASSUME NEW u \in Tasks, task'[u].pc = "closing"
                 PROVE  /\ client'[task'[u].client].lock = u
                        /\ <<task'[u].client, client'[task'[u].client].session>> \notin open'
        BY DEF ClosesAlone, At
    <2>1. CASE u = t
        <3>1. task'[u] = x /\ x.pc = "closing"
            BY <2>1, <1>0
        <3>2. <<c, y.session>> \notin open'
            BY <3>1
        <3> QED
            BY <2>1, <3>1, <3>2, <1>1
    <2>2. CASE u # t
        <3> DEFINE d == task[u].client
        <3>1. task'[u] = task[u] /\ At(u, "closing")
            BY <2>2, <1>0 DEF At
        <3>2. d \in 1..n
            BY <3>1, <1>0 DEF IInv, InHands, At, TaskRecords, NoClient
        <3>3. client[d].lock = u /\ <<d, client[d].session>> \notin open
            BY <3>1 DEF IInv, ClosesAlone
        <3>4. d # c
            BY <3>3, <2>2, <1>0
        <3>5. client'[d] = client[d]
            BY <3>2, <3>4, <1>1
        <3>6. <<d, client[d].session>> \notin open'
            BY <3>3, <3>4
        <3> QED
            BY <3>1, <3>3, <3>5, <3>6
    <2> QED
        BY <2>1, <2>2
<1> QED
    BY <1>3, <1>4, <1>5, <1>6, <1>7 DEF IInv

-----------------------------------------------------------------------------
LEMMA InitInv == Init => IInv
<1> SUFFICES ASSUME Init PROVE IInv
    OBVIOUS
<1>1. client \in Seq(ClientRecords) /\ \A c \in 1..Len(client) : client[c].lock = Nobody
    <2>1. CASE Enabled(host)
        <3>1. client = <<Made(host, "edit")>>
            BY <2>1 DEF Init, Loaded
        <3>2. Made(host, "edit") \in ClientRecords /\ Made(host, "edit").lock = Nobody
            BY MadeIsClient DEF Init
        <3> QED
            BY <3>1, <3>2
    <2>2. CASE ~Enabled(host)
        BY <2>2 DEF Init, Loaded
    <2> QED
        BY <2>1, <2>2
<1>2. Len(client) \in Nat /\ registered = Len(client)
    BY <1>1, LenProperties DEF Init
<1>3. TypeOK
    BY <1>1, <1>2, IdleIsProper DEF Init, TypeOK
<1>4. NoSessionLost /\ LocksAreReleased /\ InHands /\ ClosesAlone
    <2>1. \A t \in Tasks : task[t] = Idle
        BY DEF Init
    <2> QED
        BY <1>1, <2>1 DEF Init, NoSessionLost, LocksAreReleased, Free, InHands, ClosesAlone,
                          At, Idle
<1> QED
    BY <1>3, <1>4 DEF IInv

-----------------------------------------------------------------------------
(* The steps.                                                              *)
LEMMA Typed ==
    ASSUME IInv, NEW t \in Tasks
    PROVE  /\ task[t] \in TaskRecords(Len(client)) /\ Len(client) \in Nat
           /\ host \in Hosts \cup {NoHost} /\ registered \in 0..Len(client)
           /\ task[t].pc # "closing" => Proper(task[t])
BY LenProperties DEF IInv, TypeOK, InHands, Proper, Fit, WithClient, WithHost

LEMMA ReadInv == ASSUME IInv, NEW u \in Users, Read(u) PROVE IInv'
<1> DEFINE x == [Idle EXCEPT !.pc = "get", !.host = host]
<1>1. u \in Tasks
    BY DEF Tasks
<1>2. host \in Hosts /\ Len(client) \in Nat
    BY <1>1, Typed, HostsOfRow DEF Read, Enabled
<1>3. x \in TaskRecords(Len(client)) /\ Proper(x)
    <2>1. Idle \in TaskRecords(Len(client)) /\ Idle.then = "off"
        BY <1>2, IdleIsProper DEF Idle
    <2> QED
        BY <2>1, <1>2 DEF TaskRecords, Proper, Fit, WithClient, WithHost
<1>4. ~At(u, "closing") /\ task' = [task EXCEPT ![u] = x]
    BY DEF Read, At
<1>5. registered' \in 0..Len(client) /\ host' \in Hosts \cup {NoHost}
    BY <1>1, Typed DEF Read
<1> HIDE DEF x
<1> QED
    BY <1>1, <1>3, <1>4, <1>5, TaskMoves DEF Read

LEMMA GetClientInv == ASSUME IInv, NEW u \in Users, GetClient(u) PROVE IInv'
<1> DEFINE x == [task[u] EXCEPT !.pc = "ready", !.host = NoHost, !.client = registered']
           new == Made(task[u].host, "use")
<1>1. u \in Tasks
    BY DEF Tasks
<1>2. /\ task[u] \in TaskRecords(Len(client)) /\ Len(client) \in Nat
      /\ client \in Seq(ClientRecords) /\ registered \in 0..Len(client)
      /\ task[u].host \in Hosts /\ task[u].then = "off"
    BY <1>1, Typed DEF GetClient, At, Proper, Fit, WithHost, IInv, TypeOK
<1>3. ~At(u, "closing") /\ task' = [task EXCEPT ![u] = x]
    BY DEF GetClient, At
<1>4. CASE registered # NoClient
    <2>1. UNCHANGED <<registered, client, host, open>>
        BY <1>4 DEF GetClient
    <2>2. x \in TaskRecords(Len(client)) /\ Proper(x)
        BY <2>1, <1>2, <1>4 DEF TaskRecords, Proper, Fit, WithClient, WithHost
    <2> HIDE DEF x
    <2> QED
        BY <2>1, <2>2, <1>1, <1>2, <1>3, TaskMoves DEF IInv, TypeOK
<1>5. CASE registered = NoClient
    <2>1. new \in ClientRecords /\ new.lock = Nobody
        BY <1>2, MadeIsClient
    <2>2. /\ client' = Append(client, new) /\ registered' = Len(client')
          /\ UNCHANGED <<host, open>>
        BY <1>5 DEF GetClient
    <2> HIDE DEF new
    <2>3. registered' = Len(client) + 1
        BY <2>1, <2>2, <1>2, AppendProperties
    <2>4. x \in TaskRecords(Len(client) + 1) /\ Proper(x)
        <3> DEFINE m == Len(client) + 1
        <3>1. task[u] \in TaskRecords(m)
            BY <1>2 DEF TaskRecords
        <3>2. m \in 0..m /\ m # NoClient /\ registered' = m
            BY <1>2, <2>3 DEF NoClient
        <3> HIDE DEF m
        <3>3. x \in TaskRecords(m) /\ Proper(x)
            BY <3>1, <3>2, <1>2 DEF TaskRecords, Proper, Fit, WithClient, WithHost
        <3> QED
            BY <3>3 DEF m
    <2> HIDE DEF x
    <2> QED
        BY <2>1, <2>2, <2>4, <1>1, <1>3, ClientIsMade
<1> QED
    BY <1>4, <1>5

(* A request ends, or begins nothing: the task alone moves.                *)
LEMMA UserMovesInv ==
    ASSUME IInv, NEW u \in Users, Answered(u) \/ TimesOut(u) \/ Breaks(u) \/ Leave(u)
    PROVE  IInv'
<1>1. u \in Tasks
    BY DEF Tasks
<1>2. /\ task[u] \in TaskRecords(Len(client)) /\ Len(client) \in Nat
      /\ task[u].pc \in {"flight", "ready"} /\ Proper(task[u])
    BY <1>1, Typed DEF Answered, TimesOut, Breaks, Leave, At
<1>3. UNCHANGED <<host, registered, client, open>>
    BY DEF Answered, TimesOut, Breaks, Leave
<1>4. PICK x \in {[task[u] EXCEPT !.pc = "ready", !.session = NoSession],
                  [task[u] EXCEPT !.pc = "close", !.then = "ready", !.session = NoSession],
                  Idle} : task' = [task EXCEPT ![u] = x]
    BY DEF Answered, TimesOut, Breaks, Leave
<1>5. x \in TaskRecords(Len(client)) /\ Proper(x)
    <2>1. CASE x = Idle
        BY <2>1, <1>2, IdleIsProper
    <2>2. task[u].client # NoClient /\ task[u].then = "off"
        BY <1>2 DEF Proper, Fit, WithClient
    <2>3. CASE x = [task[u] EXCEPT !.pc = "ready", !.session = NoSession]
        BY <2>2, <2>3, <1>2 DEF TaskRecords, Proper, Fit, WithClient, WithHost, NoSession
    <2>4. CASE x = [task[u] EXCEPT !.pc = "close", !.then = "ready", !.session = NoSession]
        BY <2>2, <2>4, <1>2 DEF TaskRecords, Proper, Fit, WithClient, WithHost, NoSession
    <2> QED
        BY <2>1, <2>3, <2>4
<1> QED
    BY <1>1, <1>2, <1>3, <1>5, <1>4, TaskMoves DEF IInv, TypeOK, At

LEMMA SendInv == ASSUME IInv, NEW u \in Users, Send(u) PROVE IInv'
<1> DEFINE c == task[u].client
           s == client[c].session
           next == client[c].sessions + 1
           y == [client[c] EXCEPT !.session = next, !.sessions = next]
           x == [task[u] EXCEPT !.pc = "flight", !.session = client'[c].session]
<1>1. u \in Tasks
    BY DEF Tasks
<1>2. /\ task[u] \in TaskRecords(Len(client)) /\ Len(client) \in Nat
      /\ host \in Hosts \cup {NoHost} /\ registered \in 0..Len(client)
      /\ At(u, "ready") /\ task[u].then = "off" /\ task[u].client # NoClient
      /\ client \in Seq(ClientRecords)
      /\ open \subseteq (1..Len(client)) \X (Nat \ {0})
    BY <1>1, Typed DEF Send, At, Proper, Fit, WithClient, IInv, TypeOK
<1>3. c \in 1..Len(client)
    BY <1>2 DEF TaskRecords, NoClient
<1>4. client[c] \in ClientRecords /\ s \in Nat
    <2>1. client[c] \in ClientRecords
        BY <1>2, <1>3, ElementOfSeq
    <2> QED
        BY <2>1 DEF ClientRecords
<1>5. ~At(u, "closing") /\ task' = [task EXCEPT ![u] = x] /\ client[c].lock = Nobody
    BY <1>2 DEF Send, At, Free
<1>6. client'[c].session \in Nat => x \in TaskRecords(Len(client)) /\ Proper(x)
    BY <1>2 DEF TaskRecords, Proper, Fit, WithClient, WithHost
<1>7. CASE <<c, s>> \in open
    <2>1. UNCHANGED <<client, open, host, registered>>
        BY <1>7 DEF Send
    <2>2. x \in TaskRecords(Len(client)) /\ Proper(x)
        BY <2>1, <1>4, <1>6
    <2> HIDE DEF x
    <2> QED
        BY <2>1, <2>2, <1>1, <1>2, <1>5, TaskMoves
<1>8. CASE <<c, s>> \notin open
    <2>1. /\ client' = [client EXCEPT ![c] = y] /\ open' = open \cup {<<c, next>>}
          /\ UNCHANGED <<host, registered>>
        BY <1>8 DEF Send
    <2>2. next \in Nat \ {0}
        BY <1>4 DEF ClientRecords
    <2>3. y \in ClientRecords /\ y.session = next /\ y.lock = Nobody
        BY <1>4, <1>5, <2>2 DEF ClientRecords
    <2>4. client'[c].session \in Nat
        BY <2>1, <2>2, <2>3, <1>2, <1>3
    <2>5. x \in TaskRecords(Len(client)) /\ Fit(x) /\ x.pc # "closing"
        BY <2>4, <1>6, <1>2 DEF Proper
    <2>6. open' \subseteq (1..Len(client)) \X (Nat \ {0})
        BY <2>1, <2>2, <1>2, <1>3
    <2>7. \A z \in open' : IF z[1] = c THEN z[2] = y.session ELSE z \in open
        <3> SUFFICES ASSUME NEW z \in open, z[1] = c PROVE FALSE
            BY <2>1, <2>3
        <3>1. z = <<c, z[2]>>
            BY <1>2
        <3>2. z[2] = s
            BY DEF IInv, NoSessionLost
        <3> QED
            BY <3>1, <3>2, <1>8
    <2> HIDE DEF x, y, next, c
    <2> QED
        BY <2>1, <2>3, <2>5, <2>6, <2>7, <1>1, <1>3, <1>5, ClientChanges
<1> QED
    BY <1>7, <1>8

(* Whatever follows a close, the task has in its hands what it needs.      *)
LEMMA WhatFollows ==
    ASSUME IInv, NEW t \in Tasks, task[t].pc \in {"close", "closing"}, GoesOn(t)
    PROVE  \E x \in TaskRecords(Len(client)) :
              Proper(x) /\ task' = [task EXCEPT ![t] = x]
<1> DEFINE ready == [task[t] EXCEPT !.pc = "ready", !.then = "off"]
           onward == [task[t] EXCEPT !.pc = task[t].then, !.then = "off", !.client = NoClient]
<1>1. /\ task[t] \in TaskRecords(Len(client)) /\ Len(client) \in Nat
      /\ task[t].client # NoClient
      /\ task[t].then \in {"replace", "assign"} => task[t].host \in Hosts
    BY Typed DEF IInv, InHands
<1>2. CASE task[t].then = "off"
    BY <1>1, <1>2, IdleIsProper DEF GoesOn
<1>3. CASE task[t].then = "ready"
    <2>1. ready \in TaskRecords(Len(client)) /\ Proper(ready)
        BY <1>1, <1>3 DEF TaskRecords, Proper, Fit, WithClient, WithHost
    <2>2. task' = [task EXCEPT ![t] = ready]
        BY <1>3 DEF GoesOn
    <2> QED
        BY <2>1, <2>2
<1>4. CASE task[t].then \notin {"off", "ready"}
    <2>1. task[t].then \in {"replace", "assign", "delete"}
        BY <1>1, <1>4 DEF TaskRecords
    <2>2. onward \in TaskRecords(Len(client)) /\ Proper(onward)
        <3>1. /\ onward.pc = task[t].then /\ onward.then = "off" /\ onward.host = task[t].host
              /\ onward.client = 0 /\ onward.session = task[t].session
            BY <1>1 DEF TaskRecords, NoClient
        <3>2. Proper(onward)
            BY <3>1, <2>1, <1>1 DEF Proper, Fit, WithClient, WithHost
        <3>3. onward \in TaskRecords(Len(client))
            <4>1. 0 \in 0..Len(client)
                BY <1>1
            <4>2. CASE task[t].then = "replace"
                BY <1>1, <4>1, <4>2 DEF TaskRecords, NoClient
            <4>3. CASE task[t].then = "assign"
                BY <1>1, <4>1, <4>3 DEF TaskRecords, NoClient
            <4>4. CASE task[t].then = "delete"
                BY <1>1, <4>1, <4>4 DEF TaskRecords, NoClient
            <4> QED
                BY <2>1, <4>2, <4>3, <4>4
        <3> QED
            BY <3>2, <3>3
    <2>3. task' = [task EXCEPT ![t] = onward]
        BY <1>4 DEF GoesOn
    <2> QED
        BY <2>2, <2>3
<1> QED
    BY <1>2, <1>3, <1>4

LEMMA CloseBeginInv == ASSUME IInv, NEW t \in Tasks, CloseBegin(t) PROVE IInv'
<1> DEFINE c == task[t].client
           s == client[c].session
<1>1. /\ task[t] \in TaskRecords(Len(client)) /\ Len(client) \in Nat
      /\ task[t].pc = "close" /\ Proper(task[t]) /\ task[t].client # NoClient
      /\ client \in Seq(ClientRecords)
      /\ open \subseteq (1..Len(client)) \X (Nat \ {0})
    BY Typed DEF CloseBegin, At, Proper, Fit, WithClient, IInv, TypeOK
<1>2. c \in 1..Len(client)
    BY <1>1 DEF TaskRecords, NoClient
<1>3. client[c] \in ClientRecords /\ client[c].lock = Nobody
    <2>1. client[c] \in ClientRecords
        BY <1>1, <1>2, ElementOfSeq
    <2> QED
        BY <2>1 DEF CloseBegin, Free
<1>4. CASE <<c, s>> \in open
    <2> DEFINE x == [task[t] EXCEPT !.pc = "closing"]
               y == [client[c] EXCEPT !.lock = t]
    <2>1. /\ client' = [client EXCEPT ![c] = y] /\ task' = [task EXCEPT ![t] = x]
          /\ open' = open \ {<<c, s>>} /\ UNCHANGED <<host, registered>>
        BY <1>4 DEF CloseBegin, Goes
    <2>2. y \in ClientRecords /\ y.lock = t /\ y.session = s
        BY <1>3 DEF ClientRecords
    <2>3. /\ x \in TaskRecords(Len(client)) /\ x.pc = "closing" /\ x.client = c
          /\ Fit(x) /\ ~At(t, "closing")
        BY <1>1 DEF TaskRecords, Proper, Fit, WithClient, WithHost, At
    <2>4. \A z \in open' : IF z[1] = c THEN z[2] = y.session ELSE z \in open
        BY <2>1, <2>2 DEF IInv, NoSessionLost
    <2>5. open' \subseteq (1..Len(client)) \X (Nat \ {0})
        BY <2>1, <1>1
    <2>6. \A z \in open' : z[1] # c
        <3> SUFFICES ASSUME NEW z \in open, z # <<c, s>>, z[1] = c PROVE FALSE
            BY <2>1
        <3>1. z = <<c, z[2]>>
            BY <1>1
        <3>2. z[2] = s
            BY DEF IInv, NoSessionLost
        <3> QED
            BY <3>1, <3>2
    <2> HIDE DEF x, y, c, s
    <2>7. /\ task' = [task EXCEPT ![t] = x] /\ client' = [client EXCEPT ![c] = y]
          /\ UNCHANGED <<host, registered>>
        BY <2>1
    <2>8. ~At(t, "closing")
        BY <2>3
    <2>9. client[c].lock \in {Nobody, t}
        BY <1>3
    <2>10. y.lock # Nobody => y.lock = t /\ x.pc = "closing"
        BY <2>2, <2>3
    <2>11. x.pc = "closing" => y.lock = t /\ x.client = c /\ \A z \in open' : z[1] # c
        BY <2>2, <2>3, <2>6
    <2>12. Fit(x) /\ x \in TaskRecords(Len(client)) /\ y \in ClientRecords
        BY <2>2, <2>3
    <2> QED
        BY <2>4, <2>5, <2>7, <2>8, <2>9, <2>10, <2>11, <2>12, <1>2, ClientChanges
<1>5. CASE <<c, s>> \notin open
    <2> DEFINE y == [client[c] EXCEPT !.session = NoSession]
    <2>1. /\ client' = [client EXCEPT ![c] = y] /\ GoesOn(t)
          /\ open' = open /\ UNCHANGED <<host, registered>>
        BY <1>5 DEF CloseBegin
    <2>2. y \in ClientRecords /\ y.lock = Nobody
        BY <1>3 DEF ClientRecords, NoSession
    <2>3. PICK x \in TaskRecords(Len(client)) :
              Proper(x) /\ task' = [task EXCEPT ![t] = x]
        BY <2>1, <1>1, WhatFollows
    <2>4. \A z \in open' : z[1] # c /\ z \in open
        <3> SUFFICES ASSUME NEW z \in open, z[1] = c PROVE FALSE
            BY <2>1
        <3>1. z = <<c, z[2]>>
            BY <1>1
        <3>2. z[2] = s
            BY DEF IInv, NoSessionLost
        <3> QED
            BY <3>1, <3>2, <1>5
    <2>5. x.pc # "closing" /\ Fit(x) /\ ~At(t, "closing")
        BY <2>3, <1>1 DEF Proper, At
    <2> HIDE DEF y, c
    <2> QED
        BY <2>1, <2>2, <2>3, <2>4, <2>5, <1>1, <1>2, <1>3, ClientChanges
<1> QED
    BY <1>4, <1>5

LEMMA CloseEndInv == ASSUME IInv, NEW t \in Tasks, CloseEnd(t) PROVE IInv'
<1> DEFINE c == task[t].client
           y == [client[c] EXCEPT !.session = NoSession, !.lock = Nobody]
<1>1. /\ task[t] \in TaskRecords(Len(client)) /\ Len(client) \in Nat
      /\ task[t].pc = "closing" /\ task[t].client # NoClient
      /\ client \in Seq(ClientRecords)
      /\ open \subseteq (1..Len(client)) \X (Nat \ {0})
    BY Typed DEF CloseEnd, At, IInv, InHands, TypeOK
<1>2. c \in 1..Len(client)
    BY <1>1 DEF TaskRecords, NoClient
<1>3. client[c].lock = t /\ <<c, client[c].session>> \notin open
    BY <1>1 DEF IInv, ClosesAlone, At
<1>4. /\ client' = [client EXCEPT ![c] = y] /\ GoesOn(t)
      /\ UNCHANGED <<open, host, registered>>
    BY DEF CloseEnd
<1>5. y \in ClientRecords /\ y.lock = Nobody
    <2>1. client[c] \in ClientRecords
        BY <1>1, <1>2, ElementOfSeq
    <2> QED
        BY <2>1 DEF ClientRecords, NoSession
<1>6. PICK x \in TaskRecords(Len(client)) : Proper(x) /\ task' = [task EXCEPT ![t] = x]
    BY <1>1, <1>4, WhatFollows
<1>7. \A z \in open' : z[1] # c /\ z \in open
    <2> SUFFICES ASSUME NEW z \in open, z[1] = c PROVE FALSE
        BY <1>4
    <2>1. z = <<c, z[2]>>
        BY <1>1
    <2>2. z[2] = client[c].session
        BY DEF IInv, NoSessionLost
    <2> QED
        BY <2>1, <2>2, <1>3
<1>8. x.pc # "closing" /\ Fit(x)
    BY <1>6 DEF Proper
<1>9. /\ y.lock # Nobody => y.lock = t /\ x.pc = "closing"
      /\ client[c].lock \in {Nobody, t}
      /\ At(t, "closing") => task[t].client = c
      /\ open' \subseteq (1..Len(client)) \X (Nat \ {0})
      /\ \A z \in open' : IF z[1] = c THEN z[2] = y.session ELSE z \in open
    BY <1>1, <1>3, <1>4, <1>5, <1>7, <1>8
<1> HIDE DEF y, c
<1> QED
    BY <1>2, <1>4, <1>5, <1>6, <1>8, <1>9, ClientChanges

LEMMA StartEditInv == ASSUME IInv, NEW e \in Editors, StartEdit(e) PROVE IInv'
<1>1. e \in Tasks
    BY DEF Tasks
<1>2. /\ Len(client) \in Nat /\ host \in Hosts \cup {NoHost}
      /\ registered \in 0..Len(client)
    BY <1>1, Typed
<1>3. PICK pc \in {"update", "insert", "drop"}, h \in Hosts \cup {NoHost} :
          /\ task' = [task EXCEPT ![e] = [Idle EXCEPT !.pc = pc, !.host = h]]
          /\ pc # "drop" => h \in Hosts
    <2>1. Idle.host = NoHost
        BY DEF Idle
    <2>2. ASSUME task' = [task EXCEPT ![e] = [Idle EXCEPT !.pc = "drop"]]
          PROVE  task' = [task EXCEPT ![e] = [Idle EXCEPT !.pc = "drop", !.host = NoHost]]
        BY <2>2, <2>1 DEF Idle
    <2> QED
        BY <2>2 DEF StartEdit
<1> DEFINE x == [Idle EXCEPT !.pc = pc, !.host = h]
<1>4. x \in TaskRecords(Len(client)) /\ Proper(x)
    <2>1. Idle \in TaskRecords(Len(client)) /\ Idle.then = "off"
        BY <1>2, IdleIsProper DEF Idle
    <2> QED
        BY <2>1, <1>3 DEF TaskRecords, Proper, Fit, WithClient, WithHost
<1>5. ~At(e, "closing") /\ UNCHANGED <<host, registered, client, open>>
    BY DEF StartEdit, At
<1> HIDE DEF x
<1> QED
    BY <1>1, <1>2, <1>3, <1>4, <1>5, TaskMoves DEF x

LEMMA CommitEditInv == ASSUME IInv, NEW e \in Editors, CommitEdit(e) PROVE IInv'
<1>1. e \in Tasks
    BY DEF Tasks
<1>2. /\ task[e] \in TaskRecords(Len(client)) /\ Len(client) \in Nat
      /\ host \in Hosts \cup {NoHost} /\ registered \in 0..Len(client)
      /\ task[e].pc \in {"update", "insert"} /\ Proper(task[e])
    BY <1>1, Typed DEF CommitEdit, At
<1>3. task[e].host \in Hosts /\ task[e].then = "off"
    BY <1>2 DEF Proper, Fit, WithHost
<1>4. PICK x \in {[task[e] EXCEPT !.pc = "refresh"], Idle} :
          task' = [task EXCEPT ![e] = x]
    BY DEF CommitEdit, Goes
<1>5. x \in TaskRecords(Len(client)) /\ Proper(x)
    BY <1>2, <1>3, <1>4, IdleIsProper
       DEF TaskRecords, Proper, Fit, WithClient, WithHost
<1>6. /\ ~At(e, "closing") /\ UNCHANGED <<registered, client, open>>
      /\ host' \in Hosts \cup {NoHost}
    BY <1>2, <1>3 DEF CommitEdit, At
<1> QED
    BY <1>1, <1>2, <1>4, <1>5, <1>6, TaskMoves

LEMMA RefreshInv == ASSUME IInv, NEW e \in Editors, Refresh(e) PROVE IInv'
<1>1. e \in Tasks
    BY DEF Tasks
<1>2. /\ task[e] \in TaskRecords(Len(client)) /\ Len(client) \in Nat
      /\ host \in Hosts \cup {NoHost} /\ registered \in 0..Len(client)
      /\ task[e].pc = "refresh" /\ task[e].then = "off"
    BY <1>1, Typed DEF Refresh, At, Proper, Fit
<1>3. PICK x \in {[task[e] EXCEPT !.pc = "remove", !.host = host], Idle} :
          task' = [task EXCEPT ![e] = x] /\ (x # Idle => host.there)
    BY DEF Refresh
<1>4. x \in TaskRecords(Len(client)) /\ Proper(x)
    <2>1. CASE x = Idle
        BY <2>1, <1>2, IdleIsProper
    <2>2. CASE x # Idle
        <3>1. host \in Hosts
            BY <2>2, <1>2, <1>3, HostsOfRow
        <3> QED
            BY <2>2, <3>1, <1>2, <1>3 DEF TaskRecords, Proper, Fit, WithClient, WithHost
    <2> QED
        BY <2>1, <2>2
<1>5. ~At(e, "closing") /\ UNCHANGED <<host, registered, client, open>>
    BY DEF Refresh, At
<1> QED
    BY <1>1, <1>2, <1>3, <1>4, <1>5, TaskMoves

LEMMA RemoveClientInv == ASSUME IInv, NEW e \in Editors, RemoveClient(e) PROVE IInv'
<1> DEFINE pc == AfterPop(task[e].pc, task[e].host)
           x == IF registered = NoClient
                THEN [task[e] EXCEPT !.pc = pc]
                ELSE [task[e] EXCEPT !.pc = "close", !.client = registered, !.then = pc]
<1>1. e \in Tasks
    BY DEF Tasks
<1>2. /\ task[e] \in TaskRecords(Len(client)) /\ Len(client) \in Nat
      /\ host \in Hosts \cup {NoHost} /\ registered \in 0..Len(client)
      /\ task[e].pc \in {"remove", "replace", "drop"} /\ Proper(task[e])
    BY <1>1, Typed DEF RemoveClient
<1>3. /\ task[e].then = "off"
      /\ task[e].pc # "drop" => task[e].host \in Hosts
    BY <1>2 DEF Proper, Fit, WithHost
<1>4. /\ pc \in {"replace", "off", "assign", "delete"}
      /\ pc \in {"replace", "assign"} => task[e].host \in Hosts
    BY <1>2, <1>3 DEF AfterPop
<1> HIDE DEF pc
<1>5. x \in TaskRecords(Len(client)) /\ Proper(x)
    <2>1. CASE registered = NoClient
        BY <2>1, <1>2, <1>3, <1>4 DEF TaskRecords, Proper, Fit, WithClient, WithHost
    <2>2. CASE registered # NoClient
        BY <2>2, <1>2, <1>3, <1>4 DEF TaskRecords, Proper, Fit, WithClient, WithHost
    <2> QED
        BY <2>1, <2>2
<1>6. /\ task' = [task EXCEPT ![e] = x] /\ ~At(e, "closing")
      /\ UNCHANGED <<host, client, open>>
    BY DEF RemoveClient, pc, At
<1>7. registered' \in 0..Len(client)
    BY <1>2 DEF RemoveClient, NoClient
<1> HIDE DEF x
<1> QED
    BY <1>1, <1>2, <1>5, <1>6, <1>7, TaskMoves

LEMMA SetClientInv == ASSUME IInv, NEW e \in Editors, SetClient(e) PROVE IInv'
<1> DEFINE new == Made(task[e].host, "edit")
<1>1. e \in Tasks
    BY DEF Tasks
<1>2. Len(client) \in Nat /\ task[e].pc = "assign" /\ task[e].host \in Hosts
    BY <1>1, Typed DEF SetClient, At, Proper, Fit, WithHost
<1>3. new \in ClientRecords /\ new.lock = Nobody
    BY <1>2, MadeIsClient
<1>4. Idle \in TaskRecords(Len(client) + 1) /\ Proper(Idle)
    BY <1>2, IdleIsProper
<1>5. /\ client' = Append(client, new) /\ registered' = Len(client')
      /\ task' = [task EXCEPT ![e] = Idle] /\ UNCHANGED <<host, open>>
      /\ ~At(e, "closing")
    BY DEF SetClient, At
<1> HIDE DEF new
<1> QED
    BY <1>1, <1>3, <1>4, <1>5, ClientIsMade

LEMMA DeleteInv == ASSUME IInv, NEW e \in Editors, Delete(e) PROVE IInv'
<1>1. e \in Tasks
    BY DEF Tasks
<1>2. Len(client) \in Nat /\ registered \in 0..Len(client)
    BY <1>1, Typed
<1>3. Idle \in TaskRecords(Len(client)) /\ Proper(Idle)
    BY <1>2, IdleIsProper
<1>4. /\ host' = NoHost /\ task' = [task EXCEPT ![e] = Idle]
      /\ UNCHANGED <<registered, client, open>> /\ ~At(e, "closing")
    BY DEF Delete, At
<1> QED
    BY <1>1, <1>2, <1>3, <1>4, TaskMoves

(* What the backend loads when it starts: at most one client, in no use.   *)
LEMMA LoadedIsFresh ==
    ASSUME NEW h \in Hosts \cup {NoHost}
    PROVE  /\ Loaded(h) \in Seq(ClientRecords) /\ Len(Loaded(h)) \in Nat
           /\ \A c \in 1..Len(Loaded(h)) : Loaded(h)[c].lock = Nobody
<1>1. CASE Enabled(h)
    <2>1. h \in Hosts
        BY <1>1, HostsOfRow DEF Enabled
    <2>2. Made(h, "edit") \in ClientRecords /\ Made(h, "edit").lock = Nobody
        BY <2>1, MadeIsClient
    <2> QED
        BY <1>1, <2>2 DEF Loaded
<1>2. CASE ~Enabled(h)
    BY <1>2 DEF Loaded
<1> QED
    BY <1>1, <1>2

LEMMA RestartInv == ASSUME IInv, Restart PROVE IInv'
<1>1. host \in Hosts \cup {NoHost}
    BY DEF IInv, TypeOK
<1>2. /\ client' \in Seq(ClientRecords) /\ Len(client') \in Nat
      /\ \A c \in 1..Len(client') : client'[c].lock = Nobody
      /\ registered' = Len(client') /\ open' = {} /\ host' = host
    BY <1>1, LoadedIsFresh DEF Restart
<1>3. task' = [t \in Tasks |-> Idle]
    BY DEF Restart
<1>4. TypeOK'
    BY <1>1, <1>2, <1>3, IdleIsProper DEF TypeOK
<1>5. NoSessionLost' /\ LocksAreReleased'
    BY <1>2 DEF NoSessionLost, LocksAreReleased, Free
<1>6. InHands' /\ ClosesAlone'
    BY <1>3 DEF InHands, ClosesAlone, At, Idle
<1> QED
    BY <1>4, <1>5, <1>6 DEF IInv
-----------------------------------------------------------------------------
LEMMA StepInv == IInv /\ [Next]_vars => IInv'
<1> SUFFICES ASSUME IInv, [Next]_vars PROVE IInv'
    OBVIOUS
<1>1. ASSUME NEW u \in Users, Read(u) \/ Use(u) PROVE IInv'
    BY <1>1, ReadInv, GetClientInv, SendInv, UserMovesInv DEF Use
<1>2. ASSUME NEW e \in Editors, StartEdit(e) \/ Edit(e) PROVE IInv'
    BY <1>2, StartEditInv, CommitEditInv, RefreshInv, RemoveClientInv, SetClientInv,
       DeleteInv DEF Edit
<1>3. ASSUME NEW t \in Tasks, Close(t) PROVE IInv'
    BY <1>3, CloseBeginInv, CloseEndInv DEF Close
<1>4. CASE Restart
    BY <1>4, RestartInv
<1>5. CASE UNCHANGED vars
    BY <1>5 DEF vars, counters, IInv, TypeOK, NoSessionLost, LocksAreReleased, Free, InHands,
                ClosesAlone, At
<1> QED
    BY <1>1, <1>2, <1>3, <1>4, <1>5 DEF Next

(* The inductive invariant of the clients of a host.                       *)
THEOREM InductiveInvariant == Spec => []IInv
<1>1. Init => IInv
    BY InitInv
<1>2. IInv /\ [Next]_vars => IInv'
    BY StepInv
<1> QED
    BY <1>1, <1>2, PTL DEF Spec

(* However requests, closes and edits overlap, no client forgets a session *)
(* that is open (agent_client.py _get_session, close_session).             *)
THEOREM SessionsKept == Spec => []NoSessionLost
<1>1. IInv => NoSessionLost
    BY DEF IInv
<1> QED
    BY <1>1, InductiveInvariant, PTL

(* The lock of a client is held only by a task that is closing it.         *)
THEOREM LocksReleased == Spec => []LocksAreReleased
<1>1. IInv => LocksAreReleased
    BY DEF IInv
<1> QED
    BY <1>1, InductiveInvariant, PTL

-----------------------------------------------------------------------------
(* Edits one after the other.                                              *)

LEMMA TasksOfEditors == \A e \in Editors : e \in Tasks /\ e \notin Users
BY TasksAssumption DEF Tasks

(* A step of an editor that is at work, when no other one is.              *)
LEMMA EditMoves ==
    ASSUME IInv, EditsInOrder, NEW e \in Editors, ~At(e, "off"), NEW x,
           task' = [task EXCEPT ![e] = x], overlapped' = overlapped,
           ~overlapped =>
             /\ \/ x.pc \in {"off", "update", "insert", "drop"}
                \/ x.pc \in {"close", "closing"} /\ x.then = "off"
                => Current'
             /\ x.pc = "refresh" => host'.there
             /\ \/ x.pc \in {"remove", "replace", "assign"}
                \/ x.then \in {"replace", "assign"}
                => x.host = host'
    PROVE  EditsInOrder'
<1> SUFFICES ASSUME ~overlapped PROVE EditsInOrder'
    BY DEF EditsInOrder
<1>1. /\ e \in Tasks /\ task'[e] = x
      /\ \A f \in Editors : f # e => task'[f] = task[f]
    BY TasksOfEditors DEF IInv, TypeOK
<1>2. \A f \in Editors : f # e => task[f].pc = "off" /\ task[f].then = "off"
    BY TasksOfEditors DEF EditsInOrder, At, IInv, InHands
<1> QED
    BY <1>1, <1>2 DEF EditsInOrder, Unedited, At

(* A step of a user: the editors and the row are as before, and so is what *)
(* the registered client is made of.                                       *)
LEMMA OthersMove ==
    ASSUME IInv, EditsInOrder, \A e \in Editors : task'[e] = task[e],
           UNCHANGED <<host, overlapped>>, Current => Current'
    PROVE  EditsInOrder'
BY DEF EditsInOrder, Unedited, At

LEMMA CurrentStays ==
    ASSUME IInv, UNCHANGED <<host, registered>>,
           \A c \in 1..Len(client) : client'[c].data = client[c].data, Current
    PROVE  Current'
BY DEF IInv, TypeOK, Current, Enabled, NoClient

(* What a close changes in a client is not what it was made of.            *)
LEMMA DataStay ==
    ASSUME IInv, NEW c \in 1..Len(client), NEW y, y.data = client[c].data,
           client' = [client EXCEPT ![c] = y]
    PROVE  \A d \in 1..Len(client) : client'[d].data = client[d].data
<1>1. client \in Seq(ClientRecords) /\ DOMAIN client = 1..Len(client)
    BY LenProperties DEF IInv, TypeOK
<1> QED
    BY <1>1

LEMMA InUse ==
    ASSUME IInv, NEW t \in Tasks, task[t].pc \in {"ready", "flight", "close", "closing"}
    PROVE  /\ task[t].client \in 1..Len(client) /\ client[task[t].client] \in ClientRecords
           /\ task[t] \in TaskRecords(Len(client))
<1>1. /\ task[t] \in TaskRecords(Len(client)) /\ task[t].client # NoClient
      /\ Len(client) \in Nat /\ client \in Seq(ClientRecords)
    BY LenProperties DEF IInv, TypeOK, InHands
<1>2. task[t].client \in 1..Len(client)
    BY <1>1 DEF TaskRecords, NoClient
<1> QED
    BY <1>1, <1>2, ElementOfSeq

LEMMA CloseKeepsData ==
    ASSUME IInv, NEW t \in Tasks, Close(t)
    PROVE  /\ \A c \in 1..Len(client) : client'[c].data = client[c].data
           /\ UNCHANGED <<host, registered, overlapped>>
<1> DEFINE c == task[t].client
<1>1. c \in 1..Len(client) /\ client[c] \in ClientRecords
    BY InUse DEF Close, CloseBegin, CloseEnd, At
<1>2. PICK y \in {client[c], [client[c] EXCEPT !.lock = t],
                  [client[c] EXCEPT !.session = NoSession],
                  [client[c] EXCEPT !.session = NoSession, !.lock = Nobody]} :
          client' = [client EXCEPT ![c] = y]
    BY <1>1 DEF Close, CloseBegin, CloseEnd
<1>3. y.data = client[c].data
    BY <1>1, <1>2 DEF ClientRecords
<1>4. UNCHANGED <<host, registered, overlapped>>
    BY DEF Close, CloseBegin, CloseEnd
<1> HIDE DEF c
<1> QED
    BY <1>1, <1>2, <1>3, <1>4, DataStay

(* A close goes on to its second half, or the task to what follows it.     *)
LEMMA AfterClose ==
    ASSUME IInv, NEW t \in Tasks, Close(t)
    PROVE  \E x : /\ task' = [task EXCEPT ![t] = x]
                  /\ \/ x.pc = "closing" /\ x.then = task[t].then /\ x.host = task[t].host
                     \/ x = Idle /\ task[t].then = "off"
                     \/ x.pc = "ready" /\ x.then = "off"
                     \/ /\ x.pc = task[t].then /\ x.then = "off" /\ x.host = task[t].host
                        /\ x.pc \in {"replace", "assign", "delete"}
<1>1. task[t] \in TaskRecords(Len(client))
    BY InUse DEF Close, CloseBegin, CloseEnd, At
<1>2. CASE Goes(t, "closing")
    <2> DEFINE x == [task[t] EXCEPT !.pc = "closing"]
    <2>1. x.pc = "closing" /\ x.then = task[t].then /\ x.host = task[t].host
        BY <1>1 DEF TaskRecords
    <2>2. task' = [task EXCEPT ![t] = x]
        BY <1>2 DEF Goes
    <2> HIDE DEF x
    <2> QED
        BY <2>1, <2>2
<1>3. CASE GoesOn(t)
    <2> DEFINE x == CASE task[t].then = "off"   -> Idle
                      [] task[t].then = "ready" -> [task[t] EXCEPT !.pc = "ready", !.then = "off"]
                      [] OTHER -> [task[t] EXCEPT !.pc = task[t].then, !.then = "off",
                                                  !.client = NoClient]
    <2>1. task' = [task EXCEPT ![t] = x]
        BY <1>3 DEF GoesOn
    <2>2. task[t].then \in {"off", "ready", "replace", "assign", "delete"}
        BY <1>1 DEF TaskRecords
    <2>3. CASE task[t].then = "off"
        BY <2>1, <2>3
    <2>4. CASE task[t].then = "ready"
        <3>1. x.pc = "ready" /\ x.then = "off"
            BY <1>1, <2>4 DEF TaskRecords
        <3> HIDE DEF x
        <3> QED
            BY <2>1, <3>1
    <2>5. CASE task[t].then \in {"replace", "assign", "delete"}
        <3>1. x = [task[t] EXCEPT !.pc = task[t].then, !.then = "off", !.client = NoClient]
            BY <2>5
        <3>2. x.pc = task[t].then /\ x.then = "off" /\ x.host = task[t].host
            BY <1>1, <3>1 DEF TaskRecords
        <3> HIDE DEF x
        <3> QED
            BY <2>1, <2>5, <3>2
    <2> QED
        BY <2>2, <2>3, <2>4, <2>5
<1> QED
    BY <1>2, <1>3 DEF Close, CloseBegin, CloseEnd

LEMMA CloseOrder ==
    ASSUME IInv, EditsInOrder, NEW t \in Tasks, Close(t)
    PROVE  EditsInOrder'
<1>1. Current => Current'
    BY CloseKeepsData, CurrentStays
<1>2. UNCHANGED <<host, overlapped>> /\ task[t].pc \in {"close", "closing"}
    BY CloseKeepsData DEF Close, CloseBegin, CloseEnd, At
<1>3. PICK x :
          /\ task' = [task EXCEPT ![t] = x]
          /\ \/ x.pc = "closing" /\ x.then = task[t].then /\ x.host = task[t].host
             \/ x = Idle /\ task[t].then = "off"
             \/ x.pc = "ready" /\ x.then = "off"
             \/ /\ x.pc = task[t].then /\ x.then = "off" /\ x.host = task[t].host
                /\ x.pc \in {"replace", "assign", "delete"}
    BY AfterClose
<1>4. CASE t \in Users
    <2>1. \A e \in Editors : task'[e] = task[e]
        BY <1>3, <1>4, TasksOfEditors DEF IInv, TypeOK
    <2> QED
        BY <1>1, <1>2, <2>1, OthersMove
<1>5. CASE t \in Editors
    <2>1. Idle.pc = "off" /\ Idle.then = "off"
        BY DEF Idle
    (* A close that leaves nothing to put in place found the host disabled. *)
    <2>2. ~overlapped /\ task[t].then = "off" => Current
        <3> SUFFICES ASSUME ~overlapped, task[t].then = "off"
                     PROVE  \A e \in Editors : Unedited(e)
            BY DEF EditsInOrder
        <3> QED
            BY <1>2, <1>5 DEF EditsInOrder, Unedited, At
    <2>3. ~overlapped /\ task[t].then \in {"replace", "assign"} => task[t].host = host
        BY <1>5 DEF EditsInOrder
    <2>4. ~overlapped =>
             /\ \/ x.pc \in {"off", "update", "insert", "drop"}
                \/ x.pc \in {"close", "closing"} /\ x.then = "off"
                => Current'
             /\ x.pc = "refresh" => host'.there
             /\ \/ x.pc \in {"remove", "replace", "assign"}
                \/ x.then \in {"replace", "assign"}
                => x.host = host'
        BY <1>1, <1>2, <1>3, <2>1, <2>2, <2>3
    <2> QED
        BY <1>2, <1>3, <1>5, <2>4, EditMoves DEF At
<1> QED
    BY <1>4, <1>5 DEF Tasks

LEMMA UserOrder ==
    ASSUME IInv, EditsInOrder, NEW u \in Users, Read(u) \/ Use(u)
    PROVE  EditsInOrder'
<1>1. u \in Tasks
    BY DEF Tasks
<1>2. \A e \in Editors : task'[e] = task[e]
    BY <1>1, TasksOfEditors DEF Read, Use, GetClient, Send, Answered, TimesOut, Breaks, Leave,
                                IInv, TypeOK
<1>3. UNCHANGED <<host, overlapped>>
    BY DEF Read, Use, GetClient, Send, Answered, TimesOut, Breaks, Leave
(* A client that a user registers takes the place of none: then the host   *)
(* is disabled, or an edit is at work.                                     *)
<1>4. Current => Current'
    <2>1. CASE GetClient(u)
        <3>1. CASE registered # NoClient
            BY <2>1, <3>1, CurrentStays DEF GetClient
        <3>2. CASE registered = NoClient
            BY <1>3, <3>2 DEF Current, Enabled
        <3> QED
            BY <3>1, <3>2
    <2>2. CASE Send(u)
        <3> DEFINE c == task[u].client
                   next == client[c].sessions + 1
        <3>1. c \in 1..Len(client) /\ client[c] \in ClientRecords
            BY <1>1, <2>2, InUse DEF Send, At
        <3>2. CASE client' = client
            BY <2>2, <3>2, CurrentStays DEF Send
        <3>3. CASE client' = [client EXCEPT ![c] =
                                [client[c] EXCEPT !.session = next, !.sessions = next]]
            <4>1. [client[c] EXCEPT !.session = next, !.sessions = next].data = client[c].data
                BY <3>1 DEF ClientRecords
            <4> HIDE DEF c, next
            <4>2. \A d \in 1..Len(client) : client'[d].data = client[d].data
                BY <3>1, <3>3, <4>1, DataStay
            <4> QED
                BY <2>2, <4>2, CurrentStays DEF Send
        <3> QED
            BY <2>2, <3>2, <3>3 DEF Send
    <2>3. CASE Read(u) \/ Answered(u) \/ TimesOut(u) \/ Breaks(u) \/ Leave(u)
        BY <2>3, CurrentStays DEF Read, Answered, TimesOut, Breaks, Leave
    <2> QED
        BY <2>1, <2>2, <2>3 DEF Use
<1> QED
    BY <1>2, <1>3, <1>4, OthersMove

LEMMA StartEditOrder ==
    ASSUME IInv, EditsInOrder, NEW e \in Editors, StartEdit(e)
    PROVE  EditsInOrder'
<1> SUFFICES ASSUME ~overlapped' PROVE EditsInOrder'
    BY DEF EditsInOrder
<1>1. /\ ~overlapped /\ \A f \in Editors : f # e => task[f].pc = "off" /\ task[f].then = "off"
      /\ UNCHANGED <<host, registered, client>>
    BY TasksOfEditors DEF StartEdit, At, IInv, InHands
<1>2. PICK pc \in {"update", "drop", "insert"}, h \in Hosts \cup {NoHost} :
          task' = [task EXCEPT ![e] = [Idle EXCEPT !.pc = pc, !.host = h]]
    <2>1. CASE \E h \in Hosts :
                  task' = [task EXCEPT ![e] = [Idle EXCEPT !.pc = "update", !.host = h]]
        BY <2>1
    <2>2. CASE \E h \in Hosts :
                  task' = [task EXCEPT ![e] = [Idle EXCEPT !.pc = "insert", !.host = h]]
        BY <2>2
    <2>3. CASE task' = [task EXCEPT ![e] = [Idle EXCEPT !.pc = "drop"]]
        <3>1. Idle.host = NoHost
            BY DEF Idle
        <3>2. task' = [task EXCEPT ![e] = [Idle EXCEPT !.pc = "drop", !.host = NoHost]]
            BY <2>3, <3>1 DEF Idle
        <3> QED
            BY <3>2
    <2> QED
        BY <2>1, <2>2, <2>3 DEF StartEdit
<1>3. /\ task'[e].pc = pc /\ task'[e].then = "off"
      /\ \A f \in Editors : f # e => task'[f] = task[f]
    BY <1>2, TasksOfEditors DEF IInv, TypeOK, Idle
<1>4. Current'
    <2>1. Unedited(e) /\ \A f \in Editors : Unedited(f)
        BY <1>1 DEF StartEdit, At, Unedited
    <2> QED
        BY <1>1, <2>1 DEF EditsInOrder, Current, Enabled
<1> QED
    BY <1>1, <1>2, <1>3, <1>4 DEF EditsInOrder, At

LEMMA CommitEditOrder ==
    ASSUME IInv, EditsInOrder, NEW e \in Editors, CommitEdit(e)
    PROVE  EditsInOrder'
<1>1. /\ task[e].pc \in {"update", "insert"} /\ task[e] \in TaskRecords(Len(client))
      /\ task[e].host \in Hosts /\ task[e].then = "off"
      /\ UNCHANGED <<registered, client, overlapped>>
    BY TasksOfEditors, Typed DEF CommitEdit, At, Proper, Fit, WithHost
<1>2. CASE host' = task[e].host /\ Goes(e, "refresh")
    <2> DEFINE x == [task[e] EXCEPT !.pc = "refresh"]
    <2>1. x.pc = "refresh" /\ x.then = "off" /\ task' = [task EXCEPT ![e] = x]
        BY <1>1, <1>2 DEF TaskRecords, Goes
    <2>2. host'.there
        BY <1>1, <1>2 DEF Hosts
    <2> HIDE DEF x
    <2> QED
        BY <1>1, <2>1, <2>2, EditMoves DEF At
<1>3. CASE host' = host /\ task' = [task EXCEPT ![e] = Idle]
    <2>1. ~overlapped => Current'
        <3>1. ~overlapped => \A f \in Editors : Unedited(f)
            BY <1>1 DEF EditsInOrder, Unedited, At
        <3> QED
            BY <1>1, <1>3, <3>1 DEF EditsInOrder, Current, Enabled
    <2>2. Idle.pc = "off" /\ Idle.then = "off"
        BY DEF Idle
    <2> QED
        BY <1>1, <1>3, <2>1, <2>2, EditMoves DEF At
<1> QED
    BY <1>2, <1>3 DEF CommitEdit

LEMMA RefreshOrder ==
    ASSUME IInv, EditsInOrder, NEW e \in Editors, Refresh(e)
    PROVE  EditsInOrder'
<1>1. /\ task[e].pc = "refresh" /\ task[e] \in TaskRecords(Len(client))
      /\ UNCHANGED <<host, registered, client, overlapped>>
    BY TasksOfEditors, Typed DEF Refresh, At
<1>2. ~overlapped => host.there
    BY <1>1 DEF EditsInOrder, At
<1> DEFINE x == IF host.there THEN [task[e] EXCEPT !.pc = "remove", !.host = host] ELSE Idle
<1>3. task' = [task EXCEPT ![e] = x]
    BY DEF Refresh
<1>4. ~overlapped => x.pc = "remove" /\ x.host = host
    BY <1>1, <1>2 DEF TaskRecords
<1> HIDE DEF x
<1> QED
    BY <1>1, <1>3, <1>4, EditMoves DEF At

LEMMA RemoveClientOrder ==
    ASSUME IInv, EditsInOrder, NEW e \in Editors, RemoveClient(e)
    PROVE  EditsInOrder'
<1> DEFINE pc == AfterPop(task[e].pc, task[e].host)
           x == IF registered = NoClient
                THEN [task[e] EXCEPT !.pc = pc]
                ELSE [task[e] EXCEPT !.pc = "close", !.client = registered, !.then = pc]
<1>1. /\ task[e].pc \in {"remove", "replace", "drop"}
      /\ task[e] \in TaskRecords(Len(client)) /\ task[e].then = "off"
      /\ UNCHANGED <<host, client, overlapped>>
    BY TasksOfEditors, Typed DEF RemoveClient, Proper, Fit
<1>2. ~overlapped /\ task[e].pc # "drop" => task[e].host = host
    BY <1>1 DEF EditsInOrder
<1>3. /\ task[e].pc = "drop" => pc = "delete"
      /\ task[e].pc = "replace" => pc = "assign"
      /\ task[e].pc = "remove" => pc = IF task[e].host.enabled THEN "replace" ELSE "off"
    BY DEF AfterPop
<1> HIDE DEF pc
<1>4. /\ x.host = task[e].host
      /\ \/ x.pc = pc /\ x.then = "off"
         \/ x.pc = "close" /\ x.then = pc
    BY <1>1 DEF TaskRecords
<1>5. task' = [task EXCEPT ![e] = x]
    BY DEF RemoveClient, pc
<1> HIDE DEF x
<1>6. ~overlapped /\ pc = "off" => Current'
    BY <1>1, <1>2, <1>3 DEF Current, Enabled
<1>7. ~overlapped /\ pc \in {"replace", "assign"} => x.host = host'
    BY <1>1, <1>2, <1>3, <1>4
<1> QED
    BY <1>1, <1>3, <1>4, <1>5, <1>6, <1>7, EditMoves DEF At

LEMMA SetClientOrder ==
    ASSUME IInv, EditsInOrder, NEW e \in Editors, SetClient(e)
    PROVE  EditsInOrder'
<1>1. /\ task[e].pc = "assign" /\ task' = [task EXCEPT ![e] = Idle]
      /\ UNCHANGED <<host, overlapped>>
      /\ client' = Append(client, Made(task[e].host, "edit")) /\ registered' = Len(client')
    BY DEF SetClient, At
<1>2. ~overlapped => task[e].host = host
    BY <1>1 DEF EditsInOrder
<1>3. client \in Seq(ClientRecords) /\ Len(client) \in Nat
    BY LenProperties DEF IInv, TypeOK
<1>4. /\ registered' = Len(client) + 1 /\ registered' # NoClient
      /\ client'[registered'] = Made(task[e].host, "edit")
    BY <1>1, <1>3 DEF NoClient
<1>5. ~overlapped => Current'
    BY <1>1, <1>2, <1>4 DEF Current, Made
<1>6. Idle.pc = "off" /\ Idle.then = "off"
    BY DEF Idle
<1> QED
    BY <1>1, <1>5, <1>6, EditMoves DEF At

LEMMA DeleteOrder ==
    ASSUME IInv, EditsInOrder, NEW e \in Editors, Delete(e)
    PROVE  EditsInOrder'
<1>1. /\ task[e].pc = "delete" /\ task' = [task EXCEPT ![e] = Idle]
      /\ overlapped' = overlapped /\ host' = NoHost
    BY DEF Delete, At
<1>2. Current' /\ Idle.pc = "off" /\ Idle.then = "off"
    BY <1>1 DEF Current, Enabled, NoHost, Idle
<1> QED
    BY <1>1, <1>2, EditMoves DEF At

(* What is loaded at the start is the client of the row.                   *)
LEMMA LoadedIsCurrent ==
    ASSUME NEW h \in Hosts \cup {NoHost}, Enabled(h)
    PROVE  Len(Loaded(h)) # NoClient /\ Loaded(h)[Len(Loaded(h))].data = h.data
BY DEF Loaded, Made, NoClient

LEMMA FreshOrder ==
    ASSUME task = [t \in Tasks |-> Idle], host \in Hosts \cup {NoHost}, client = Loaded(host),
           registered = Len(client)
    PROVE  EditsInOrder
<1>1. \A e \in Editors : task[e].pc = "off" /\ task[e].then = "off"
    BY TasksOfEditors DEF Idle
<1>2. Current
    BY LoadedIsCurrent DEF Current
<1> QED
    BY <1>1, <1>2 DEF EditsInOrder, At

LEMMA RestartOrder == ASSUME IInv, Restart PROVE EditsInOrder'
<1>1. /\ task' = [t \in Tasks |-> Idle] /\ host' \in Hosts \cup {NoHost}
      /\ client' = Loaded(host') /\ registered' = Len(client')
    BY DEF Restart, Loaded, Enabled, Made, IInv, TypeOK
<1>2. \A e \in Editors : task'[e].pc = "off" /\ task'[e].then = "off"
    BY <1>1, TasksOfEditors DEF Idle
<1>3. Current'
    <2>1. Enabled(host') => registered' # NoClient /\ client'[registered'].data = host'.data
        BY <1>1, LoadedIsCurrent
    <2> QED
        BY <2>1 DEF Current, Enabled
<1> QED
    BY <1>2, <1>3 DEF EditsInOrder, At

LEMMA OrderKept == IInv /\ EditsInOrder /\ [Next]_vars => EditsInOrder'
<1> SUFFICES ASSUME IInv, EditsInOrder, [Next]_vars PROVE EditsInOrder'
    OBVIOUS
<1>1. ASSUME NEW u \in Users, Read(u) \/ Use(u) PROVE EditsInOrder'
    BY <1>1, UserOrder
<1>2. ASSUME NEW e \in Editors, StartEdit(e) \/ Edit(e) PROVE EditsInOrder'
    BY <1>2, StartEditOrder, CommitEditOrder, RefreshOrder, RemoveClientOrder, SetClientOrder,
       DeleteOrder DEF Edit
<1>3. ASSUME NEW t \in Tasks, Close(t) PROVE EditsInOrder'
    BY <1>3, CloseOrder
<1>4. CASE Restart
    BY <1>4, RestartOrder
<1>5. CASE UNCHANGED vars
    BY <1>5 DEF vars, EditsInOrder, Unedited, At, Current, Enabled
<1> QED
    BY <1>1, <1>2, <1>3, <1>4, <1>5 DEF Next

(* ClientIsCurrent: however users that have read an older row register     *)
(* clients of their own, the client is that of the row when an edit ends.  *)
THEOREM ClientsAreCurrent == Spec => []ClientIsCurrent
<1>1. Init => EditsInOrder
    BY FreshOrder DEF Init
<1>2. IInv /\ EditsInOrder /\ [Next]_vars => EditsInOrder'
    BY OrderKept
<1>3. EditsInOrder => ClientIsCurrent
    BY DEF EditsInOrder, Unedited, Current, ClientIsCurrent, Settled, At
<1> QED
    BY <1>1, <1>2, <1>3, InductiveInvariant, PTL DEF Spec

-----------------------------------------------------------------------------
(* Requests that fail.                                                     *)
LEMMA CalmKept == IInv /\ Calm /\ [Next]_vars => Calm'
<1> SUFFICES ASSUME IInv, Calm, [Next]_vars PROVE Calm'
    OBVIOUS
<1>1. breaks' \in Nat /\ edits' \in Nat /\ breaks' >= breaks /\ edits' >= edits
    <2>1. /\ breaks' \in {breaks, breaks + 1} /\ edits' \in {edits, edits + 1}
        BY DEF Next, Read, Use, GetClient, Send, Answered, TimesOut, Breaks, Leave, StartEdit, Edit,
               CommitEdit, Refresh, RemoveClient, SetClient, Delete, Close, CloseBegin, CloseEnd,
               Restart, vars, counters
    <2> QED
        BY <2>1 DEF Calm
<1> SUFFICES ASSUME breaks' = 0, edits' = 0 PROVE Calm'
    BY <1>1 DEF Calm
<1>0. breaks = 0 /\ edits = 0
    BY <1>1 DEF Calm
<1>2. /\ ~lost
      /\ \A e \in Editors : At(e, "off")
      /\ \A u \in Users : /\ task[u].pc \in {"off", "get", "ready", "flight"}
                          /\ At(u, "flight") => ~Severed(u)
    <2>1. ~lost
        BY <1>0, Zenon DEF Calm
    <2>2. \A e \in Editors : At(e, "off")
        BY <1>0, Zenon DEF Calm
    <2>3. \A u \in Users : /\ task[u].pc \in {"off", "get", "ready", "flight"}
                           /\ At(u, "flight") => ~Severed(u)
        BY <1>0, SMT DEF Calm, At, Severed
    <2> QED
        BY <2>1, <2>2, <2>3
<1>3. /\ task \in [Tasks -> TaskRecords(Len(client))]
      /\ \A u \in Users : u \in Tasks /\ u \notin Editors
    BY TasksAssumption DEF IInv, TypeOK, Tasks
(* Whoever moves is a user, and no session is closed.                      *)
<1>4. ASSUME NEW u \in Users, NEW x, task' = [task EXCEPT ![u] = x], open \subseteq open',
             x.pc \in {"off", "get", "ready", "flight"},
             x.pc = "flight" => <<x.client, x.session>> \in open', ~lost'
      PROVE  Calm'
    <2>1. /\ task'[u] = x /\ \A t \in Tasks : t # u => task'[t] = task[t]
        BY <1>3, <1>4
    <2>2. \A e \in Editors : At(e, "off")'
        BY <1>2, <1>3, <2>1, TasksOfEditors DEF At
    <2>3. ASSUME NEW v \in Users
          PROVE  /\ task'[v].pc \in {"off", "get", "ready", "flight"}
                 /\ At(v, "flight")' => ~Severed(v)'
        BY <1>2, <1>3, <1>4, <2>1 DEF At, Severed
    <2> QED
        BY <1>1, <1>4, <2>2, <2>3 DEF Calm
<1>5. ASSUME NEW u \in Users, Read(u) PROVE Calm'
    <2>1. [Idle EXCEPT !.pc = "get", !.host = host].pc = "get"
        BY DEF Idle
    <2> QED
        BY <1>2, <1>4, <1>5, <2>1 DEF Read
<1>6. ASSUME NEW u \in Users, GetClient(u) PROVE Calm'
    <2>1. [task[u] EXCEPT !.pc = "ready", !.host = NoHost, !.client = registered'].pc = "ready"
        BY <1>3 DEF TaskRecords
    <2> QED
        BY <1>2, <1>4, <1>6, <2>1 DEF GetClient
<1>7. ASSUME NEW u \in Users, Send(u) PROVE Calm'
    <2> DEFINE c == task[u].client
               next == client[c].sessions + 1
               x == [task[u] EXCEPT !.pc = "flight", !.session = client'[c].session]
    <2>1. c \in 1..Len(client) /\ client[c] \in ClientRecords /\ client \in Seq(ClientRecords)
        BY <1>3, <1>7, InUse DEF Send, At, IInv, TypeOK
    <2>2. x.pc = "flight" /\ x.client = c /\ x.session = client'[c].session
        BY <1>3 DEF TaskRecords
    <2>3. open \subseteq open' /\ <<c, client'[c].session>> \in open'
        <3>1. CASE <<c, client[c].session>> \in open
            BY <1>7, <3>1 DEF Send
        <3>2. CASE <<c, client[c].session>> \notin open
            <4>1. /\ client' = [client EXCEPT ![c] =
                                  [client[c] EXCEPT !.session = next, !.sessions = next]]
                  /\ open' = open \cup {<<c, next>>}
                BY <1>7, <3>2 DEF Send
            <4>2. client'[c] = [client[c] EXCEPT !.session = next, !.sessions = next]
                <5>1. c \in DOMAIN client
                    BY <2>1
                <5> HIDE DEF c, next
                <5> QED
                    BY <5>1, <4>1
            <4>3. client'[c].session = next
                BY <2>1, <4>2 DEF ClientRecords
            <4> QED
                BY <4>1, <4>3
        <3> QED
            BY <3>1, <3>2
    <2>4. task' = [task EXCEPT ![u] = x] /\ lost' = lost
        BY <1>7 DEF Send
    <2> HIDE DEF x, c
    <2> QED
        BY <1>2, <1>4, <2>2, <2>3, <2>4
<1>8. ASSUME NEW u \in Users, Answered(u) \/ TimesOut(u) PROVE Calm'
    <2> DEFINE x == [task[u] EXCEPT !.pc = "ready", !.session = NoSession]
    <2>1. x.pc = "ready"
        BY <1>3 DEF TaskRecords
    <2>2. task' = [task EXCEPT ![u] = x] /\ open' = open /\ lost' = lost
        BY <1>8 DEF Answered, TimesOut
    <2> HIDE DEF x
    <2> QED
        BY <1>2, <1>4, <2>1, <2>2
<1>14. ASSUME NEW u \in Users, Leave(u) PROVE Calm'
    <2>1. Idle.pc = "off"
        BY DEF Idle
    <2> QED
        BY <1>2, <1>4, <1>14, <2>1 DEF Leave
<1>9. ASSUME NEW u \in Users, Breaks(u) PROVE FALSE
    BY <1>0, <1>1, <1>2, <1>9 DEF Breaks
<1>10. ASSUME NEW e \in Editors, StartEdit(e) \/ Edit(e) PROVE FALSE
    <2>1. CASE StartEdit(e)
        <3>1. edits' = edits + 1
            BY <2>1 DEF StartEdit
        <3> QED
            BY <1>0, <3>1
    <2>2. CASE Edit(e)
        BY <1>2, <2>2 DEF Edit, CommitEdit, Refresh, RemoveClient, SetClient, Delete, At
    <2> QED
        BY <1>10, <2>1, <2>2
<1>11. ASSUME NEW t \in Tasks, Close(t) PROVE FALSE
    BY <1>2, <1>11 DEF Close, CloseBegin, CloseEnd, At, Tasks
<1>12. CASE Restart
    <2>1. \A t \in Tasks : task'[t].pc = "off"
        BY <1>12 DEF Restart, Idle
    <2> QED
        BY <1>1, <1>12, <2>1 DEF Restart, Calm, At, Tasks
<1>13. CASE UNCHANGED vars
    BY <1>13 DEF vars, counters, Calm, At, Severed
<1> QED
    BY <1>5, <1>6, <1>7, <1>8, <1>9, <1>10, <1>11, <1>12, <1>13, <1>14 DEF Next, Use

(* OnlyBreaksFail: until a connection breaks or the host is edited, no     *)
(* request ends in a connection error, and no session is closed under one. *)
THEOREM OnlyBreaksCost == Spec => []OnlyBreaksFail
<1>1. Init => Calm
    BY DEF Init, Calm, At, Tasks, Idle
<1>2. IInv /\ Calm /\ [Next]_vars => Calm'
    BY CalmKept
<1>3. Calm => OnlyBreaksFail
    BY DEF Calm, OnlyBreaksFail
<1> QED
    BY <1>1, <1>2, <1>3, InductiveInvariant, PTL DEF Spec

-----------------------------------------------------------------------------
(* The agent: its calls, their handlers and the threads of the pool.       *)
LEMMA InitPoolTypeOK == PoolInit => PoolTypeOK
BY MaxCallsAssumption DEF PoolInit, PoolTypeOK, Answers, Jobs

LEMMA NextPoolTypeOK == PoolTypeOK /\ [PoolNext]_poolVars => PoolTypeOK'
<1> SUFFICES ASSUME PoolTypeOK, [PoolNext]_poolVars PROVE PoolTypeOK'
  OBVIOUS
<1>1. CASE UNCHANGED poolVars
  BY <1>1 DEF PoolTypeOK, poolVars
<1>2. CASE PoolNext
  <2> PICK k \in Calls :
        \/ Request(k) \/ Take(k) \/ Checks(k) \/ Operates(k) \/ Refuses(k)
        \/ Returns(k) \/ GivesUp(k) \/ Responds(k) \/ Loses(k)
    BY <1>2 DEF PoolNext
  <2>1. CASE Request(k)  BY <2>1 DEF PoolTypeOK, Request, Jobs
  <2>2. CASE Take(k)     BY <2>2 DEF PoolTypeOK, Take, Jobs
  <2>3. CASE Checks(k)   BY <2>3 DEF PoolTypeOK, Checks, Jobs, Answers
  <2>4. CASE Operates(k)
    <3>1. Effect(on[k], op[k]) \in {"running", "stopped", "absent"}
      BY <2>4 DEF PoolTypeOK, Operates, Effect
    <3> QED BY <2>4, <3>1 DEF PoolTypeOK, Operates, Jobs
  <2>5. CASE Refuses(k)  BY <2>5 DEF PoolTypeOK, Refuses, Reports, Jobs, Answers
  <2>6. CASE Returns(k)  BY <2>6 DEF PoolTypeOK, Returns, Reports, Jobs, Answers
  <2>7. CASE GivesUp(k)  BY <2>7 DEF PoolTypeOK, GivesUp, Jobs, Answers
  <2>8. CASE Responds(k) BY <2>8 DEF PoolTypeOK, Responds, Answers
  <2>9. CASE Loses(k)    BY <2>9 DEF PoolTypeOK, Loses, Answers
  <2> QED BY <2>1, <2>2, <2>3, <2>4, <2>5, <2>6, <2>7, <2>8, <2>9
<1> QED BY <1>1, <1>2

(* The fields of every value stay within their types (asyncall, the        *)
(* handlers of container_api.py).                                          *)
THEOREM PoolTypeCorrect == PoolSpec => []PoolTypeOK
BY InitPoolTypeOK, NextPoolTypeOK, PTL DEF PoolSpec

LEMMA CallsFinite == IsFiniteSet(Calls)
<1>1. IsFiniteSet(1..MaxCalls)
  BY MaxCallsAssumption, FS_Interval
<1> QED BY <1>1, ClientsAssumption, FS_Product DEF Calls

LEMMA BusyFinite == IsFiniteSet(Busy) /\ Cardinality(Busy) \in Nat
<1>1. Busy \subseteq Calls
  BY DEF Busy
<1> QED BY <1>1, CallsFinite, FS_Subset, FS_CardinalityType

LEMMA InitPoolIInv == PoolInit => PoolIInv
<1> SUFFICES ASSUME PoolInit PROVE PoolIInv
  OBVIOUS
<1>1. Busy = {}
  BY DEF PoolInit, Busy
<1>2. Cardinality(Busy) <= Threads
  BY <1>1, FS_EmptySet, ThreadsAssumption
<1>3. \A k \in Calls : InStep(k) /\ Truthful(k) /\ at[k] <= effects
  BY DEF PoolInit, InStep, Truthful
<1>4. Sequential /\ ReorderedOnlyAfterTimeout
  <2> SUFFICES ASSUME NEW p \in Clients, NEW m \in 1..MaxCalls,
                      NEW n \in 1..MaxCalls
               PROVE handler[<<p, n>>] = "none" /\ at[<<p, n>>] = 0
    BY DEF Sequential, ReorderedOnlyAfterTimeout
  <2>1. <<p, n>> \in Calls BY DEF Calls
  <2> QED BY <2>1 DEF PoolInit
<1> QED BY <1>2, <1>3, <1>4 DEF PoolIInv

(* One call's own progress, and that no other call's is disturbed.         *)
LEMMA CallStep ==
  ASSUME PoolTypeOK, PoolIInv, NEW k \in Calls,
         \/ Request(k) \/ Take(k) \/ Checks(k) \/ Operates(k) \/ Refuses(k)
         \/ Returns(k) \/ GivesUp(k) \/ Responds(k) \/ Loses(k)
  PROVE  \A j \in Calls : (InStep(j) /\ Truthful(j) /\ at[j] <= effects)'
<1> SUFFICES ASSUME NEW j \in Calls
             PROVE (InStep(j) /\ Truthful(j) /\ at[j] <= effects)'
  OBVIOUS
<1> USE DEF PoolTypeOK, Jobs, Answers
<1>0. InStep(j) /\ Truthful(j) /\ at[j] <= effects
  BY DEF PoolIInv
<1>1. CASE Request(k)  BY <1>0, <1>1 DEF InStep, Truthful, Request, Ready
<1>2. CASE Take(k)     BY <1>0, <1>2 DEF InStep, Truthful, Take
<1>3. CASE Checks(k)   BY <1>0, <1>3 DEF InStep, Truthful, Checks
<1>4. CASE Operates(k) BY <1>0, <1>4 DEF InStep, Truthful, Operates
<1>5. CASE Refuses(k)
  BY <1>0, <1>5 DEF InStep, Truthful, Refuses, Reports
<1>6. CASE Returns(k)
  BY <1>0, <1>6 DEF InStep, Truthful, Returns, Reports
<1>7. CASE GivesUp(k)  BY <1>0, <1>7 DEF InStep, Truthful, GivesUp
<1>8. CASE Responds(k) BY <1>0, <1>8 DEF InStep, Truthful, Responds
<1>9. CASE Loses(k)    BY <1>0, <1>9 DEF InStep, Truthful, Loses
<1> QED BY <1>1, <1>2, <1>3, <1>4, <1>5, <1>6, <1>7, <1>8, <1>9

(* A client's later calls wait for its earlier ones to be answered, so an  *)
(* effect that comes late belongs to a call answered by a timeout.         *)
LEMMA OrderStep ==
  ASSUME PoolTypeOK, PoolIInv, NEW k \in Calls,
         \/ Request(k) \/ Take(k) \/ Checks(k) \/ Operates(k) \/ Refuses(k)
         \/ Returns(k) \/ GivesUp(k) \/ Responds(k) \/ Loses(k)
  PROVE  Sequential' /\ ReorderedOnlyAfterTimeout'
<1> USE DEF PoolTypeOK
<1>1. ASSUME NEW p \in Clients, NEW m \in 1..MaxCalls, NEW n \in 1..MaxCalls,
             m < n, handler'[<<p, n>>] # "none"
      PROVE  answer'[<<p, m>>] # "none"
  <2>1. <<p, m>> \in Calls /\ <<p, n>> \in Calls
    BY DEF Calls
  <2>2. answer[<<p, m>>] # "none" => answer'[<<p, m>>] # "none"
    BY <2>1 DEF Request, Take, Checks, Operates, Refuses, Returns, Reports,
                GivesUp, Responds, Loses, Answers
  <2>3. CASE handler[<<p, n>>] # "none"
    BY <1>1, <2>2, <2>3 DEF PoolIInv, Sequential
  <2>4. CASE handler[<<p, n>>] = "none"
    <3>1. Request(k) /\ k = <<p, n>>
      BY <1>1, <2>1, <2>4 DEF Request, Take, Checks, Operates, Refuses,
            Returns, Reports, GivesUp, Responds, Loses, Answers
    <3>2. m \in 1..(n - 1) /\ k[1] = p /\ k[2] = n
      BY <1>1, <3>1, MaxCallsAssumption
    <3>3. answer[<<p, m>>] # "none"
      BY <3>1, <3>2 DEF Request, Ready
    <3> QED BY <2>2, <3>3
  <2> QED BY <2>3, <2>4
<1>2. ASSUME NEW p \in Clients, NEW m \in 1..MaxCalls, NEW n \in 1..MaxCalls,
             m < n, at'[<<p, n>>] # 0, at'[<<p, m>>] > at'[<<p, n>>]
      PROVE  answer'[<<p, m>>] = "timeout"
  <2>1. <<p, m>> \in Calls /\ <<p, n>> \in Calls /\ <<p, m>> # <<p, n>>
    BY <1>2, MaxCallsAssumption DEF Calls
  <2>2. answer[<<p, m>>] = "timeout" => answer'[<<p, m>>] = "timeout"
    BY <2>1 DEF Request, Take, Checks, Operates, Refuses, Returns, Reports,
                GivesUp, Responds, Loses, Answers
  <2>3. CASE UNCHANGED at
    BY <1>2, <2>2, <2>3 DEF PoolIInv, ReorderedOnlyAfterTimeout
  <2>4. CASE Operates(k)
    <3>1. CASE k = <<p, n>>
      <4>1. at'[<<p, n>>] = effects + 1 /\ at'[<<p, m>>] = at[<<p, m>>]
        BY <2>1, <2>4, <3>1 DEF Operates
      <4>2. at[<<p, m>>] <= effects
        BY <2>1 DEF PoolIInv
      <4> QED BY <1>2, <2>1, <4>1, <4>2
    <3>2. CASE k = <<p, m>>
      <4>1. at[<<p, n>>] # 0
        BY <1>2, <2>1, <2>4, <3>2 DEF Operates
      <4>2. handler[<<p, n>>] # "none"
        BY <2>1, <4>1 DEF PoolIInv, Truthful
      <4>3. answer[<<p, m>>] # "none"
        BY <1>2, <4>2 DEF PoolIInv, Sequential
      <4>4. job[<<p, m>>] = "operating"
        BY <2>4, <3>2 DEF Operates
      <4>5. handler[<<p, m>>] \in {"op", "timeout"}
        BY <2>1, <4>4 DEF PoolIInv, InStep, Answers
      <4>6. answer[<<p, m>>] = "timeout"
        BY <2>1, <4>3, <4>5 DEF PoolIInv, Truthful, Answers
      <4> QED BY <2>2, <4>6
    <3>3. CASE k # <<p, n>> /\ k # <<p, m>>
      <4>1. at'[<<p, n>>] = at[<<p, n>>] /\ at'[<<p, m>>] = at[<<p, m>>]
        BY <2>1, <2>4, <3>3 DEF Operates
      <4> QED BY <1>2, <2>2, <4>1 DEF PoolIInv, ReorderedOnlyAfterTimeout
    <3> QED BY <3>1, <3>2, <3>3
  <2> QED BY <2>3, <2>4 DEF Request, Take, Checks, Refuses, Returns, Reports,
             GivesUp, Responds, Loses
<1> QED BY <1>1, <1>2 DEF Sequential, ReorderedOnlyAfterTimeout

(* A call only gets a thread while there is a free one.                    *)
LEMMA BusyStep ==
  ASSUME PoolTypeOK, PoolIInv, NEW k \in Calls,
         \/ Request(k) \/ Take(k) \/ Checks(k) \/ Operates(k) \/ Refuses(k)
         \/ Returns(k) \/ GivesUp(k) \/ Responds(k) \/ Loses(k)
  PROVE  (Cardinality(Busy) <= Threads)'
<1> USE DEF PoolTypeOK
<1>1. CASE Take(k)
  <2>1. Busy' \subseteq Busy \cup {k}
    BY <1>1 DEF Take, Busy
  <2>2. /\ IsFiniteSet(Busy \cup {k})
        /\ Cardinality(Busy \cup {k}) \in {Cardinality(Busy),
                                           Cardinality(Busy) + 1}
    BY BusyFinite, FS_AddElement
  <2>3. Cardinality(Busy') <= Cardinality(Busy \cup {k})
        /\ Cardinality(Busy') \in Nat
    BY <2>1, <2>2, FS_Subset, FS_CardinalityType
  <2> QED BY <1>1, <2>2, <2>3, BusyFinite, ThreadsAssumption DEF Take
<1>2. CASE ~Take(k)
  <2>1. Busy' \subseteq Busy
    BY <1>2 DEF Busy, Request, Ready, Checks, Operates, Refuses, Returns,
                Reports, GivesUp, Responds, Loses
  <2>2. Cardinality(Busy') <= Cardinality(Busy) /\ Cardinality(Busy') \in Nat
    BY <2>1, BusyFinite, FS_Subset, FS_CardinalityType
  <2> QED BY <2>2, BusyFinite, ThreadsAssumption DEF PoolIInv
<1> QED BY <1>1, <1>2

LEMMA NextPoolIInv == PoolTypeOK /\ PoolIInv /\ [PoolNext]_poolVars => PoolIInv'
<1> SUFFICES ASSUME PoolTypeOK, PoolIInv, [PoolNext]_poolVars PROVE PoolIInv'
  OBVIOUS
<1>1. CASE UNCHANGED poolVars
  BY <1>1 DEF PoolIInv, InStep, Truthful, Sequential, ReorderedOnlyAfterTimeout,
              Busy, poolVars
<1>2. CASE PoolNext
  <2> PICK k \in Calls :
        \/ Request(k) \/ Take(k) \/ Checks(k) \/ Operates(k) \/ Refuses(k)
        \/ Returns(k) \/ GivesUp(k) \/ Responds(k) \/ Loses(k)
    BY <1>2 DEF PoolNext
  <2> QED BY CallStep, OrderStep, BusyStep DEF PoolIInv
<1> QED BY <1>1, <1>2

(* The inductive invariant: every call is in step with its thread.         *)
THEOREM PoolInvariant == PoolSpec => []PoolIInv
BY InitPoolTypeOK, NextPoolTypeOK, InitPoolIInv, NextPoolIInv, PTL DEF PoolSpec

(* Every answer but a timeout can be relied upon.                          *)
THEOREM AnswersCanBeTrusted == PoolSpec => []AnswersAreFinal
<1>1. PoolTypeOK /\ PoolIInv => AnswersAreFinal
  BY DEF PoolTypeOK, PoolIInv, InStep, Truthful, AnswersAreFinal, Answers
<1> QED BY <1>1, PoolTypeCorrect, PoolInvariant, PTL

(* Only a timeout lets the effects of a client's calls change places.      *)
THEOREM CallsInOrder == PoolSpec => []ReorderedOnlyAfterTimeout
BY PoolInvariant, PTL DEF PoolIInv

(* No more calls can take effect unattended than the pool has threads.     *)
THEOREM LateEffectsLimited == PoolSpec => []LateEffectsBounded
<1>1. PoolTypeOK /\ PoolIInv => LateEffectsBounded
  <2> SUFFICES ASSUME PoolTypeOK, PoolIInv PROVE LateEffectsBounded
    OBVIOUS
  <2>1. \A k \in Calls : Unattended(k) => k \in Busy
    BY DEF PoolTypeOK, PoolIInv, InStep, Unattended, Busy, Answers
  <2>2. {k \in Calls : Unattended(k)} \subseteq Busy
    BY <2>1
  <2>3. Cardinality({k \in Calls : Unattended(k)}) <= Cardinality(Busy)
        /\ Cardinality({k \in Calls : Unattended(k)}) \in Nat
    BY <2>2, BusyFinite, FS_Subset, FS_CardinalityType
  <2> QED BY <2>1, <2>3, BusyFinite, ThreadsAssumption
          DEF PoolIInv, LateEffectsBounded
<1> QED BY <1>1, PoolTypeCorrect, PoolInvariant, PTL
=============================================================================
