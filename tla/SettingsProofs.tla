--------------------------- MODULE SettingsProofs ---------------------------
(***************************************************************************)
(* For any number of requests, settings and restarts: memory is what the   *)
(* database holds, and the jobs are made from what it holds.               *)
(***************************************************************************)
EXTENDS Settings, SequenceTheorems, WellFoundedInduction, TLAPS

RequestRecords ==
    [pc : {"off", "select", "validate", "flush", "commit", "schedule"},
     data : Changes \cup {<<>>}, at : Nat, loaded : Seq(Values)]

(* A body names settings and gives them values.                            *)
LEMMA Bodies ==
    ASSUME NEW data \in Changes
    PROVE  /\ data \in Seq(Keys \X Values) /\ Len(data) \in Nat /\ Len(data) > 0
           /\ \A i \in 1..Len(data) : data[i] \in Keys \X Values
                                      /\ data[i][1] \in Keys /\ data[i][2] \in Values
<1>1. data \in Seq(Keys \X Values) /\ data # <<>>
    BY ChangesAssumption
<1>2. Len(data) \in Nat /\ Len(data) > 0
    BY <1>1, EmptySeq, LenProperties
<1>3. \A i \in 1..Len(data) : data[i] \in Keys \X Values
    BY <1>1, ElementOfSeq
<1> QED
    BY <1>1, <1>2, <1>3

LEMMA NoRequestTyped == NoRequest \in RequestRecords /\ NoRequest.pc = "off" /\ NoRequest.at = 0
BY DEF NoRequest, RequestRecords

(* What TypeOK says of a request.                                          *)
LEMMA Typed ==
    ASSUME TypeOK
    PROVE  /\ req \in [Requests -> RequestRecords]
           /\ \A p \in Requests :
                /\ req[p] \in RequestRecords /\ req[p].at \in Nat
                /\ req[p].pc \in {"off", "select", "validate", "flush", "commit", "schedule"}
                /\ req[p].loaded \in Seq(Values)
BY DEF TypeOK, RequestRecords

(* The setting that a request has in hand.                                 *)
LEMMA InHand ==
    ASSUME TypeOK, Progress, NEW p \in Requests, req[p].pc # "off", req[p].at > 0
    PROVE  /\ Key(p) \in Keys /\ Value(p) \in Values /\ req[p].at \in 1..Len(req[p].data)
           /\ Key(p) = req[p].data[req[p].at][1] /\ Value(p) = req[p].data[req[p].at][2]
<1>1. req[p].data \in Changes /\ req[p].at \in 1..Len(req[p].data)
    BY Typed, Bodies DEF Progress
<1> QED
    BY <1>1, Bodies DEF Key, Value

(* What a flush does, to the transaction and to memory alike.              *)
LEMMA FlushEffect ==
    ASSUME TypeOK, Progress, Drafts, NEW p \in Requests, req[p].pc \in {"select", "flush"},
           Flush(p)
    PROVE  /\ draft' \in [Keys -> Values] /\ memory' \in [Keys -> Values]
           /\ writer' \in Requests \cup {Nobody}
           /\ ~rolledBack => memory' = draft'
           /\ \/ ~Dirty(p) /\ UNCHANGED <<writer, draft, memory>>
              \/ /\ Dirty(p) /\ req[p].at > 0 /\ writer \in {Nobody, p} /\ writer' = p
                 /\ draft' = [draft EXCEPT ![Key(p)] = Value(p)]
<1>1. CASE ~Dirty(p)
    BY <1>1 DEF Flush, TypeOK, Drafts
<1>2. CASE Dirty(p)
    <2>1. req[p].at > 0
        BY <1>2 DEF Dirty
    <2>2. Key(p) \in Keys /\ Value(p) \in Values
        BY <2>1, InHand
    <2> QED
        BY <1>2, <2>1, <2>2 DEF Flush, TypeOK, Drafts
<1> QED
    BY <1>1, <1>2

(* The first of the values that a request gives a setting.                 *)
LEMMA FirstValue ==
    ASSUME TypeOK, Progress, NEW p \in Requests, req[p].pc # "off", NEW k \in Keys
    PROVE  /\ ~Sends(p, k) => Wanted(p)[k] = memory[k]
           /\ Sends(p, k) => \E i \in 1..Len(req[p].data) :
                                 req[p].data[i][1] = k /\ Wanted(p)[k] = req[p].data[i][2]
<1> DEFINE data == req[p].data
           First(i) == data[i][1] = k /\ \A j \in 1..(i - 1) : data[j][1] # k
           T == {i \in 1..Len(data) : data[i][1] = k}
<1>1. data \in Changes /\ Len(data) \in Nat
    BY Bodies, Typed DEF Progress
<1>2. ASSUME Sends(p, k) PROVE \E i \in 1..Len(data) : First(i)
    <2>1. T # {} /\ T \subseteq Nat
        BY <1>1, <1>2 DEF Sends
    <2>2. \E i \in T : \A j \in T : ~(<<j, i>> \in OpToRel(<, Nat))
        <3> HIDE DEF T
        <3> QED
            BY <2>1, NatLessThanWellFounded, WFMin
    <2>3. PICK i \in T : \A j \in T : ~(<<j, i>> \in OpToRel(<, Nat))
        BY <2>2
    <2>4. \A j \in T : ~(j < i)
        BY <2>1, <2>3 DEF OpToRel
    <2> QED
        BY <1>1, <2>4
<1>3. Sends(p, k) => Wanted(p)[k] = data[CHOOSE i \in 1..Len(data) : First(i)][2]
    BY DEF Wanted
<1>4. ~Sends(p, k) => Wanted(p)[k] = memory[k]
    BY DEF Wanted
<1>5. Sends(p, k) => \E i \in 1..Len(data) : First(i) /\ Wanted(p)[k] = data[i][2]
    <2> HIDE DEF First, data
    <2> QED
        BY <1>2, <1>3
<1> QED
    BY <1>4, <1>5

LEMMA WantedTyped ==
    ASSUME TypeOK, Progress, NEW p \in Requests, req[p].pc # "off"
    PROVE  Wanted(p) \in [Keys -> Values]
<1>1. ASSUME NEW k \in Keys PROVE Wanted(p)[k] \in Values
    <2>1. req[p].data \in Changes
        BY DEF Progress
    <2>2. CASE Sends(p, k)
        BY <2>1, <2>2, FirstValue, Bodies
    <2>3. CASE ~Sends(p, k)
        BY <2>3, FirstValue DEF TypeOK
    <2> QED
        BY <2>2, <2>3
<1>2. Wanted(p) = [k \in Keys |-> Wanted(p)[k]]
    BY DEF Wanted
<1> QED
    BY <1>1, <1>2

-----------------------------------------------------------------------------
(* A request that rolls back, or that has done what it had to, is gone.    *)
LEMMA TypeStep == ASSUME IInv, [Next]_vars PROVE TypeOK'
<1> USE DEF IInv, bounds
<1>1. ASSUME NEW p \in Requests, Send(p) PROVE TypeOK'
    <2>1. PICK data \in Changes :
              req' = [req EXCEPT ![p] = [NoRequest EXCEPT !.pc = "select", !.data = data]]
        BY <1>1 DEF Send
    <2>2. [NoRequest EXCEPT !.pc = "select", !.data = data] \in RequestRecords
        BY NoRequestTyped DEF RequestRecords
    <2> QED
        BY <1>1, <2>1, <2>2 DEF Send, TypeOK, RequestRecords
<1>2. ASSUME NEW p \in Requests, Select(p) PROVE TypeOK'
    <2> DEFINE next == req[p].at + 1
               k == req[p].data[next][1]
    <2>1. Flush(p) /\ req[p].pc = "select" /\ next \in Nat
        BY <1>2, Typed DEF Select
    <2>2. k \in Keys
        BY <2>1, Typed, Bodies DEF Progress
    <2>3. /\ draft' \in [Keys -> Values] /\ memory' \in [Keys -> Values]
          /\ writer' \in Requests \cup {Nobody}
        BY <2>1, FlushEffect
    <2>4. <<IF writer' = p THEN draft'[k] ELSE stored[k]>> \in Seq(Values)
        BY <2>2, <2>3 DEF TypeOK
    <2>5. req' \in [Requests -> RequestRecords]
        BY <1>2, <2>1, <2>4, Typed DEF Select, RequestRecords
    <2> QED
        BY <1>2, <2>3, <2>5 DEF Select, TypeOK, RequestRecords
<1>3. ASSUME NEW p \in Requests, Accept(p) PROVE TypeOK'
    BY <1>3 DEF Accept, TypeOK
<1>4. ASSUME NEW p \in Requests, RollBack(p) PROVE TypeOK'
    BY <1>4, NoRequestTyped DEF RollBack, TypeOK, RequestRecords
<1>5. ASSUME NEW p \in Requests, FlushLast(p) PROVE TypeOK'
    <2>1. Flush(p) /\ req[p].pc = "flush"
        BY <1>5 DEF FlushLast
    <2>2. /\ draft' \in [Keys -> Values] /\ memory' \in [Keys -> Values]
          /\ writer' \in Requests \cup {Nobody}
        BY <2>1, FlushEffect
    <2> QED
        BY <1>5, <2>2 DEF FlushLast, TypeOK
<1>6. ASSUME NEW p \in Requests, Commit(p) PROVE TypeOK'
    BY <1>6 DEF Commit, TypeOK
<1>7. ASSUME NEW p \in Requests, Schedule(p) PROVE TypeOK'
    <2>1. Wanted(p) \in [Keys -> Values]
        BY <1>7, WantedTyped DEF Schedule
    <2> QED
        BY <1>7, <2>1, NoRequestTyped, KeysAssumption
           DEF Schedule, ScheduledWith, TypeOK, RequestRecords
<1>8. CASE Restart
    <2>1. [p \in Requests |-> NoRequest] \in [Requests -> RequestRecords]
        BY NoRequestTyped
    <2>2. ScheduledWith(stored) \in [Crontabs -> Values \X Values]
        BY KeysAssumption DEF ScheduledWith, TypeOK
    <2>3. req' \in [Requests -> RequestRecords] /\ jobs' \in [Crontabs -> Values \X Values]
        BY <1>8, <2>1, <2>2 DEF Restart
    <2>4. /\ stored' = stored /\ draft' = stored /\ memory' = stored /\ writer' = Nobody
          /\ sent' = sent /\ restarts' = restarts + 1 /\ rolledBack' = FALSE /\ mixed' = FALSE
        BY <1>8 DEF Restart
    <2>5. /\ stored' \in [Keys -> Values] /\ draft' \in [Keys -> Values]
          /\ writer' \in Requests \cup {Nobody} /\ memory' \in [Keys -> Values]
          /\ sent' \in Nat /\ restarts' \in Nat /\ rolledBack' \in BOOLEAN /\ mixed' \in BOOLEAN
        <3>1. stored \in [Keys -> Values] /\ sent \in Nat /\ restarts \in Nat
            BY DEF TypeOK
        <3>2. sent' \in Nat /\ restarts' \in Nat
            BY <2>4, <3>1
        <3>3. rolledBack' \in BOOLEAN /\ mixed' \in BOOLEAN
            BY <2>4
        <3>4. writer' \in Requests \cup {Nobody}
            BY <2>4
        <3> QED
            BY <2>4, <3>1, <3>2, <3>3, <3>4
    <2> QED
        BY <2>3, <2>5 DEF TypeOK, RequestRecords
<1>9. CASE UNCHANGED vars
    BY <1>9 DEF vars, TypeOK
<1> QED
    BY <1>1, <1>2, <1>3, <1>4, <1>5, <1>6, <1>7, <1>8, <1>9 DEF Next, Reject, Fail

-----------------------------------------------------------------------------
(* One request moves; what the others hold is as before.                   *)

LEMMA Others ==
    ASSUME TypeOK, NEW p \in Requests, NEW x, req' = [req EXCEPT ![p] = x]
    PROVE  req'[p] = x /\ \A q \in Requests : q # p => req'[q] = req[q]
BY DEF TypeOK

(* The other requests still hold what is true of them if the committed     *)
(* values stay and the transaction is not theirs.                          *)
LEMMA OthersAssigned ==
    ASSUME IInv, NEW p \in Requests, NEW q \in Requests, q # p,
           req'[q] = req[q], stored' = stored, ~mixed,
           (writer' = writer /\ draft' = draft) \/ {writer, writer'} \subseteq {Nobody, p}
    PROVE  Found(q)'
<1>1. View(q)' = View(q)
    BY NobodyAssumption DEF View
<1>2. Key(q)' = Key(q) /\ Writes(q)' = Writes(q) /\ Repeats(q)' = Repeats(q)
    BY DEF Key, Writes, Repeats
<1> QED
    BY <1>1, <1>2 DEF IInv, Assigned, Found

LEMMA WriterWrites ==
    ASSUME IInv, writer # Nobody
    PROVE  writer \in Requests /\ req[writer].pc \in {"select", "validate", "flush", "commit"}
BY DEF IInv, TypeOK, Drafts, Writes

(* What is flushed is found again.                                         *)
LEMMA FlushAssigns ==
    ASSUME IInv, NEW p \in Requests, req[p].pc \in {"select", "flush"}, Flush(p),
           stored' = stored, ~mixed, ~Repeats(p)
    PROVE  \A i \in 1..req[p].at :
               (IF writer' = p THEN draft' ELSE stored')[req[p].data[i][1]] = req[p].data[i][2]
<1>1. TypeOK /\ Progress /\ Drafts /\ Writes(p) /\ req[p].pc # "commit" /\ req[p].at \in Nat
    BY Typed DEF IInv, Writes
<1>2. /\ req[p].at > 0 => req[p].loaded = <<View(p)[Key(p)]>>
      /\ \A i \in 1..req[p].at : i < req[p].at =>
            View(p)[req[p].data[i][1]] = req[p].data[i][2]
    BY <1>1 DEF IInv, Assigned, Found
<1>3. SUFFICES ASSUME NEW i \in 1..req[p].at
      PROVE  (IF writer' = p THEN draft' ELSE stored')[req[p].data[i][1]] = req[p].data[i][2]
    OBVIOUS
<1>4. /\ req[p].at > 0 /\ i \in 1..Len(req[p].data) /\ req[p].data \in Changes
      /\ req[p].at \in 1..Len(req[p].data)
      /\ Key(p) = req[p].data[req[p].at][1] /\ Value(p) = req[p].data[req[p].at][2]
      /\ req[p].data[i][1] \in Keys
    BY <1>1, <1>3, InHand, Bodies DEF Progress
<1>5. CASE ~Dirty(p)
    <2>1. View(p)[Key(p)] = Value(p)
        BY <1>2, <1>4, <1>5 DEF Dirty
    <2>2. (IF writer' = p THEN draft' ELSE stored') = View(p)
        BY <1>1, <1>5, FlushEffect DEF View
    <2>3. View(p)[req[p].data[i][1]] = req[p].data[i][2]
        BY <1>1, <1>2, <1>3, <1>4, <2>1
    <2> QED
        BY <2>2, <2>3
<1>6. CASE Dirty(p)
    <2>1. /\ writer \in {Nobody, p} /\ writer' = p /\ draft \in [Keys -> Values]
          /\ draft' = [draft EXCEPT ![Key(p)] = Value(p)]
        BY <1>1, <1>6, FlushEffect DEF TypeOK
    <2>2. View(p) = draft
        BY <1>1, <2>1 DEF View, Drafts
    <2>3. CASE req[p].data[i][1] = Key(p)
        <3>1. req[p].data[i][2] = Value(p)
            BY <1>4, <2>3 DEF Repeats
        <3> QED
            BY <1>4, <2>1, <2>3, <3>1
    <2>4. CASE req[p].data[i][1] # Key(p)
        <3>1. i # req[p].at
            BY <1>4, <2>4
        <3>2. draft[req[p].data[i][1]] = req[p].data[i][2]
            BY <1>1, <1>2, <1>3, <2>2, <3>1
        <3> QED
            BY <1>4, <2>1, <2>4, <3>2
    <2> QED
        BY <2>3, <2>4
<1> QED
    BY <1>5, <1>6

-----------------------------------------------------------------------------
LEMMA SendInv == ASSUME IInv, NEW p \in Requests, Send(p) PROVE IInv'
<1>1. PICK data \in Changes :
          req' = [req EXCEPT ![p] = [NoRequest EXCEPT !.pc = "select", !.data = data]]
    BY DEF Send
<1>2. TypeOK /\ TypeOK' /\ Progress /\ Drafts
    BY TypeStep DEF Next, IInv
<1>3. /\ req[p].pc = "off" /\ req'[p].pc = "select" /\ req'[p].data = data /\ req'[p].at = 0
      /\ \A q \in Requests : q # p => req'[q] = req[q]
      /\ UNCHANGED <<stored, draft, writer, memory, jobs, rolledBack, mixed>>
    BY <1>1, <1>2 DEF Send, TypeOK, NoRequest
<1>4. Progress'
    BY <1>2, <1>3, Bodies DEF Progress
<1>5. Drafts'
    BY <1>3, WriterWrites DEF IInv, Drafts, Writes
<1>6. Assigned'
    <2> SUFFICES ASSUME ~mixed, NEW q \in Requests PROVE Found(q)'
        BY <1>3 DEF Assigned
    <2>1. CASE q = p
        BY <1>3, <2>1 DEF Found, Writes
    <2>2. CASE q # p
        BY <1>3, <2>2, OthersAssigned
    <2> QED
        BY <2>1, <2>2
<1>7. JobsCatchUp'
    BY <1>3 DEF IInv, JobsCatchUp
<1> QED
    BY <1>2, <1>4, <1>5, <1>6, <1>7 DEF IInv

LEMMA SelectInv == ASSUME IInv, NEW p \in Requests, Select(p) PROVE IInv'
<1> DEFINE next == req[p].at + 1
           k == req[p].data[next][1]
<1>1. /\ TypeOK /\ TypeOK' /\ Progress /\ Drafts /\ req[p].pc = "select" /\ Flush(p)
      /\ UNCHANGED <<stored, jobs, rolledBack, mixed>>
    BY TypeStep DEF Next, IInv, Select
<1>2. /\ req'[p].pc = "validate" /\ req'[p].data = req[p].data /\ req'[p].at = next
      /\ req'[p].loaded = <<IF writer' = p THEN draft'[k] ELSE stored[k]>>
      /\ \A q \in Requests : q # p => req'[q] = req[q]
    BY <1>1, Typed DEF Select, RequestRecords
<1>3. /\ req[p].data \in Changes /\ req[p].at \in Nat /\ Len(req[p].data) \in Nat
      /\ req[p].at < Len(req[p].data)
    BY <1>1, Typed, Bodies DEF Progress
<1>4. Progress'
    BY <1>1, <1>2, <1>3 DEF Progress
<1>5. /\ ~rolledBack => memory' = draft'
      /\ \/ UNCHANGED <<writer, draft, memory>>
         \/ writer \in {Nobody, p} /\ writer' = p
    BY <1>1, FlushEffect
<1>6. Drafts'
    BY <1>1, <1>2, <1>5, WriterWrites, NobodyAssumption DEF Drafts, Writes
<1>7. Assigned'
    <2> SUFFICES ASSUME ~mixed, NEW q \in Requests PROVE Found(q)'
        BY <1>1 DEF Assigned
    <2>1. CASE q = p
        <3>1. ~Repeats(p)' => ~Repeats(p)
            BY <1>2 DEF Repeats
        <3>2. View(p)' = (IF writer' = p THEN draft' ELSE stored') /\ Key(p)' = k
            BY <1>2 DEF View, Key
        <3>3. req'[p].loaded = <<View(p)'[Key(p)']>>
            BY <1>1, <1>2, <3>2
        <3>4. ~Repeats(p)' => \A i \in 1..req'[p].at : i < req'[p].at =>
                  View(p)'[req'[p].data[i][1]] = req'[p].data[i][2]
            BY <1>1, <1>2, <1>3, <3>1, <3>2, FlushAssigns
        <3> QED
            BY <1>2, <2>1, <3>3, <3>4 DEF Found
    <2>2. CASE q # p
        BY <1>1, <1>2, <1>5, <2>2, OthersAssigned
    <2> QED
        BY <2>1, <2>2
<1>8. JobsCatchUp'
    BY <1>1, <1>2, <1>5, NobodyAssumption DEF IInv, JobsCatchUp
<1> QED
    BY <1>1, <1>4, <1>6, <1>7, <1>8 DEF IInv

LEMMA AcceptInv == ASSUME IInv, NEW p \in Requests, Accept(p) PROVE IInv'
<1>1. /\ TypeOK /\ TypeOK' /\ Progress /\ req[p].pc = "validate"
      /\ UNCHANGED <<stored, draft, writer, memory, jobs, rolledBack, mixed>>
    BY TypeStep DEF Next, IInv, Accept
<1>2. /\ req'[p].pc = IF req[p].at < Len(req[p].data) THEN "select" ELSE "flush"
      /\ req'[p].data = req[p].data /\ req'[p].at = req[p].at /\ req'[p].loaded = req[p].loaded
      /\ \A q \in Requests : q # p => req'[q] = req[q]
    BY <1>1, Typed DEF Accept, RequestRecords
<1>3. /\ req[p].data \in Changes /\ req[p].at \in Nat /\ Len(req[p].data) \in Nat
      /\ req[p].at <= Len(req[p].data) /\ req[p].at > 0
    BY <1>1, Typed, Bodies DEF Progress
<1>4. Progress'
    BY <1>1, <1>2, <1>3 DEF Progress
<1>5. Drafts'
    BY <1>1, <1>2, WriterWrites DEF IInv, Drafts, Writes
<1>6. Assigned'
    <2> SUFFICES ASSUME ~mixed, NEW q \in Requests PROVE Found(q)'
        BY <1>1 DEF Assigned
    <2>1. CASE q = p
        <3>1. Found(p)
            BY DEF IInv, Assigned
        <3>2. View(p)' = View(p) /\ Key(p)' = Key(p) /\ Repeats(p)' = Repeats(p)
            BY <1>1, <1>2 DEF View, Key, Repeats
        <3> QED
            BY <1>1, <1>2, <2>1, <3>1, <3>2 DEF Found, Writes
    <2>2. CASE q # p
        BY <1>1, <1>2, <2>2, OthersAssigned
    <2> QED
        BY <2>1, <2>2
<1>7. JobsCatchUp'
    BY <1>1, <1>2 DEF IInv, JobsCatchUp
<1> QED
    BY <1>1, <1>4, <1>5, <1>6, <1>7 DEF IInv

LEMMA RollBackInv ==
    ASSUME IInv, NEW p \in Requests, Reject(p) \/ Fail(p)
    PROVE  IInv'
<1>1. RollBack(p) /\ Writes(p) /\ req[p].pc # "schedule"
    BY DEF Reject, Fail, Writes
<1>2. /\ TypeOK /\ TypeOK' /\ Progress /\ Drafts
      /\ UNCHANGED <<stored, memory, jobs, mixed>>
      /\ rolledBack' = (rolledBack \/ writer = p)
      /\ writer' = (IF writer = p THEN Nobody ELSE writer)
      /\ draft' = (IF writer = p THEN stored ELSE draft)
    BY <1>1, TypeStep DEF Next, IInv, RollBack
<1>3. req'[p] = NoRequest /\ \A q \in Requests : q # p => req'[q] = req[q]
    BY <1>1, <1>2, Others DEF RollBack
<1>4. Progress'
    BY <1>2, <1>3, NoRequestTyped DEF Progress
<1>5. Drafts'
    BY <1>2, <1>3, WriterWrites DEF Drafts, Writes
<1>6. Assigned'
    <2> SUFFICES ASSUME ~mixed, NEW q \in Requests PROVE Found(q)'
        BY <1>2 DEF Assigned
    <2>1. CASE q = p
        BY <1>3, <2>1, NoRequestTyped DEF Found, Writes
    <2>2. CASE q # p
        BY <1>2, <1>3, <2>2, OthersAssigned
    <2> QED
        BY <2>1, <2>2
<1>7. JobsCatchUp'
    BY <1>1, <1>2, <1>3 DEF IInv, JobsCatchUp, ScheduledWith
<1> QED
    BY <1>2, <1>4, <1>5, <1>6, <1>7 DEF IInv

LEMMA FlushLastInv == ASSUME IInv, NEW p \in Requests, FlushLast(p) PROVE IInv'
<1>1. /\ TypeOK /\ TypeOK' /\ Progress /\ Drafts /\ req[p].pc = "flush" /\ Flush(p)
      /\ UNCHANGED <<stored, jobs, rolledBack, mixed>>
    BY TypeStep DEF Next, IInv, FlushLast
<1>2. /\ req'[p].pc = "commit" /\ req'[p].data = req[p].data /\ req'[p].at = req[p].at
      /\ \A q \in Requests : q # p => req'[q] = req[q]
    BY <1>1, Typed DEF FlushLast, RequestRecords
<1>3. Progress'
    BY <1>1, <1>2 DEF Progress
<1>4. /\ ~rolledBack => memory' = draft'
      /\ \/ UNCHANGED <<writer, draft, memory>>
         \/ writer \in {Nobody, p} /\ writer' = p
    BY <1>1, FlushEffect
<1>5. Drafts'
    BY <1>1, <1>2, <1>4, WriterWrites, NobodyAssumption DEF Drafts, Writes
<1>6. Assigned'
    <2> SUFFICES ASSUME ~mixed, NEW q \in Requests PROVE Found(q)'
        BY <1>1 DEF Assigned
    <2>1. CASE q = p
        <3>1. ~Repeats(p)' => ~Repeats(p)
            BY <1>2 DEF Repeats
        <3>2. View(p)' = (IF writer' = p THEN draft' ELSE stored')
            BY DEF View
        <3>3. ~Repeats(p)' => \A i \in 1..req'[p].at :
                  View(p)'[req'[p].data[i][1]] = req'[p].data[i][2]
            BY <1>1, <1>2, <3>1, <3>2, FlushAssigns
        <3> QED
            BY <1>2, <2>1, <3>3 DEF Found
    <2>2. CASE q # p
        BY <1>1, <1>2, <1>4, <2>2, OthersAssigned
    <2> QED
        BY <2>1, <2>2
<1>7. JobsCatchUp'
    BY <1>1, <1>2, <1>4, NobodyAssumption DEF IInv, JobsCatchUp
<1> QED
    BY <1>1, <1>3, <1>5, <1>6, <1>7 DEF IInv

LEMMA CommitInv == ASSUME IInv, NEW p \in Requests, Commit(p) PROVE IInv'
<1>1. /\ TypeOK /\ TypeOK' /\ Progress /\ Drafts /\ req[p].pc = "commit"
      /\ UNCHANGED <<draft, memory, jobs, rolledBack>>
      /\ stored' = (IF writer = p THEN draft ELSE stored)
      /\ writer' = (IF writer = p THEN Nobody ELSE writer)
      /\ ~mixed' => /\ ~mixed /\ ~Repeats(p)
                    /\ \A q \in Requests : q # p => req[q].pc = "off"
    BY TypeStep DEF Next, IInv, Commit
<1>2. /\ req'[p].pc = "schedule" /\ req'[p].data = req[p].data /\ req'[p].at = req[p].at
      /\ \A q \in Requests : q # p => req'[q] = req[q]
    BY <1>1, Typed DEF Commit, RequestRecords
<1>3. Progress'
    BY <1>1, <1>2 DEF Progress
<1>4. Drafts'
    BY <1>1, <1>2, WriterWrites DEF Drafts, Writes
<1>5. Assigned'
    <2> SUFFICES ASSUME ~mixed', NEW q \in Requests PROVE Found(q)'
        BY DEF Assigned
    <2>1. CASE q = p
        <3>1. Found(p) /\ Writes(p) /\ ~Repeats(p) /\ View(p) = stored'
            BY <1>1 DEF IInv, Assigned, Writes, View
        <3>2. \A i \in 1..Len(req[p].data) : stored'[req[p].data[i][1]] = req[p].data[i][2]
            BY <1>1, <3>1 DEF Found, Progress
        <3>3. ~Repeats(p)'
            BY <1>2, <3>1 DEF Repeats
        <3> QED
            BY <1>2, <2>1, <3>2, <3>3 DEF Found, Writes
    <2>2. CASE q # p
        BY <1>1, <1>2, <2>2 DEF Found, Writes
    <2> QED
        BY <2>1, <2>2
<1>6. JobsCatchUp'
    BY <1>2 DEF JobsCatchUp
<1> QED
    BY <1>1, <1>3, <1>4, <1>5, <1>6 DEF IInv

LEMMA ScheduleInv == ASSUME IInv, NEW p \in Requests, Schedule(p) PROVE IInv'
<1>1. /\ TypeOK /\ TypeOK' /\ Progress /\ Drafts /\ req[p].pc = "schedule"
      /\ UNCHANGED <<stored, draft, writer, memory, rolledBack, mixed>>
      /\ jobs' = ScheduledWith(Wanted(p))
    BY TypeStep DEF Next, IInv, Schedule
<1>2. req'[p] = NoRequest /\ \A q \in Requests : q # p => req'[q] = req[q]
    BY <1>1, Others DEF Schedule
<1>3. Progress'
    BY <1>1, <1>2, NoRequestTyped DEF Progress
<1>4. Drafts'
    BY <1>1, <1>2, WriterWrites DEF Drafts, Writes
<1>5. Assigned'
    <2> SUFFICES ASSUME ~mixed, NEW q \in Requests PROVE Found(q)'
        BY <1>1 DEF Assigned
    <2>1. CASE q = p
        BY <1>2, <2>1, NoRequestTyped DEF Found, Writes
    <2>2. CASE q # p
        BY <1>1, <1>2, <2>2, OthersAssigned
    <2> QED
        BY <2>1, <2>2
(* When nobody has flushed, memory is as stored, and so is what was sent.  *)
<1>6. JobsCatchUp'
    <2> SUFFICES ASSUME ~rolledBack, ~mixed, writer = Nobody
                 PROVE  jobs' = ScheduledWith(stored')
        BY <1>1 DEF JobsCatchUp
    <2>1. memory = stored
        BY <1>1 DEF Drafts
    <2>2. \A i \in 1..Len(req[p].data) : stored[req[p].data[i][1]] = req[p].data[i][2]
        BY <1>1 DEF IInv, Assigned, Found
    <2>3. \A k \in Keys : Wanted(p)[k] = stored[k]
        BY <1>1, <2>1, <2>2, FirstValue
    <2> QED
        BY <1>1, <2>3, KeysAssumption DEF ScheduledWith
<1> QED
    BY <1>1, <1>3, <1>4, <1>5, <1>6 DEF IInv

LEMMA RestartInv == ASSUME IInv, Restart PROVE IInv'
<1>1. TypeOK' /\ \A p \in Requests : req'[p] = NoRequest
    BY TypeStep DEF Next, Restart
<1>2. /\ writer' = Nobody /\ draft' = stored' /\ memory' = stored'
      /\ jobs' = ScheduledWith(stored')
    BY DEF Restart, ScheduledWith
<1>3. Progress' /\ Drafts' /\ Assigned' /\ JobsCatchUp'
    BY <1>1, <1>2, NoRequestTyped
       DEF Progress, Drafts, Assigned, Found, Writes, JobsCatchUp
<1> QED
    BY <1>1, <1>3 DEF IInv

LEMMA InitInv == ASSUME Init PROVE IInv
<1>1. TypeOK
    <2>1. stored \in [Keys -> Values] /\ draft = stored /\ memory = stored
        BY DEF Init
    <2>2. [p \in Requests |-> NoRequest] \in [Requests -> RequestRecords]
        BY NoRequestTyped
    <2>3. ScheduledWith(stored) \in [Crontabs -> Values \X Values]
        BY <2>1, KeysAssumption DEF ScheduledWith
    <2> QED
        BY <2>1, <2>2, <2>3 DEF Init, TypeOK, RequestRecords
<1>2. Progress /\ Drafts /\ Assigned /\ JobsCatchUp
    BY NoRequestTyped DEF Init, Progress, Drafts, Assigned, Found, Writes, JobsCatchUp
<1> QED
    BY <1>1, <1>2 DEF IInv

(* The invariant of overlapping requests, whatever they change and at      *)
(* whatever statement the process dies.                                    *)
THEOREM InductiveInvariant == Spec => []IInv
<1>1. Init => IInv
    BY InitInv
<1>2. IInv /\ [Next]_vars => IInv'
    <2> SUFFICES ASSUME IInv, [Next]_vars PROVE IInv'
        OBVIOUS
    <2>1. CASE UNCHANGED vars
        BY <2>1 DEF vars, bounds, IInv, TypeOK, Progress, Drafts, Assigned, Found, JobsCatchUp, Writes,
                    View, Key, Repeats, ScheduledWith
    <2>2. CASE Next
        BY <2>2, SendInv, SelectInv, AcceptInv, RollBackInv, FlushLastInv, CommitInv,
           ScheduleInv, RestartInv DEF Next
    <2> QED
        BY <2>1, <2>2
<1> QED
    BY <1>1, <1>2, PTL DEF Spec

(* MemoryFollowsStored: the values that update_setting_value writes into   *)
(* memory at a flush are those the database holds once nobody writes,      *)
(* unless some of them were rolled back.                                   *)
THEOREM MemoryIsAsStored == Spec => []MemoryFollowsStored
<1>1. IInv => MemoryFollowsStored
    BY DEF IInv, Drafts, MemoryFollowsStored
<1> QED
    BY <1>1, InductiveInvariant, PTL

(* JobsFollowStored: once the requests are over, the jobs that             *)
(* change_system_settings has made of a request and of the memory are      *)
(* those that a restart would make, but for the exceptions the property    *)
(* names.                                                                  *)
THEOREM JobsAreAsStored == Spec => []JobsFollowStored
<1>1. IInv => JobsFollowStored
    BY WriterWrites DEF IInv, JobsCatchUp, JobsFollowStored, Quiet
<1> QED
    BY <1>1, InductiveInvariant, PTL
=============================================================================
