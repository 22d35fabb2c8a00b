-------------------------- MODULE ContainerProofs --------------------------
(***************************************************************************)
(* What the application knows of a container, and what an update makes of  *)
(* its settings.                                                           *)
(*                                                                         *)
(* The first part is about ContainerCheck.  IInv is an invariant of any    *)
(* number of checks, updates and patches, of any images and rows.  The     *)
(* steps that write no row keep most of it by the frame lemmas CheckMoves  *)
(* and UpdateMoves; a step that writes one is taken apart into the row it  *)
(* writes (FlushedRow, InsertedRow) and what becomes of it when it is the  *)
(* only one (FlushedAlone, InsertedAlone).                                 *)
(*                                                                         *)
(* The second part is about ContainerConfig.  ConfigIInv is an invariant   *)
(* of any number of updates, for any images, networks and users.  An       *)
(* update and a roll-back make a container in the same way (Renewed), from *)
(* which the words, the labels and the networks follow apart.              *)
(***************************************************************************)
EXTENDS ContainerCheck, ContainerConfig, WellFoundedInduction, SequenceTheorems, TLAPS

USE DEF registry, counters, history

-----------------------------------------------------------------------------
(* Types.                                                                  *)

Updates == [pc : {"idle", "pulled", "replaced", "ending"}, row : RowIds \cup {0},
            object : Rows, pulled : Remotes]
Patches == [pc : {"idle", "commit"}, row : RowIds \cup {0}, object : Rows]

LEMMA NothingTyped ==
    /\ NoRow \in Rows /\ ~NoRow.update /\ ~NoRow.exists
    /\ NoRow.remote = None /\ NoRow.setting = Default
    /\ NoCheck \in CheckRecords /\ Idle \in Patches /\ NoUpdate \in Updates
    /\ NoLookup \in Lookups /\ None \in Remotes
BY DefaultAssumption, MaxDigestAssumption
   DEF NoRow, NoCheck, NoUpdate, Idle, NoLookup, Rows, CheckRecords, Updates, Patches, Lookups,
       Remotes, None

LEMMA DigestsAreRemotes == Digests \subseteq Remotes /\ Remotes \subseteq Nat
BY MaxDigestAssumption DEF Digests, Remotes

(* What TypeOK says of the numbers and of the parts of records.            *)
LEMMA Typed ==
    ASSUME TypeOK
    PROVE  /\ served \in Nat /\ image \in Nat /\ seen \in Nat /\ failures \in Nat
           /\ ask.since \in Remotes /\ ask.found \in Remotes
           /\ check.local \in Remotes /\ check.object \in Rows
           /\ check.row \in RowIds \cup {0}
           /\ update.pulled \in Remotes /\ update.object \in Rows
           /\ update.row \in RowIds \cup {0}
           /\ patch.object \in Rows /\ patch.row \in RowIds \cup {0}
           /\ \A r \in RowIds : rows[r] \in Rows
BY DigestsAreRemotes DEF TypeOK, Lookups, CheckRecords

LEMMA SelectsTyped ==
    ASSUME TypeOK, NEW r \in RowIds \cup {0},
           NEW object \in {rows[q] : q \in RowIds} \cup {NoRow}
    PROVE  object \in Rows
BY NothingTyped DEF TypeOK

LEMMA FlushedRow ==
    ASSUME TypeOK, NEW r \in RowIds, NEW object \in Rows, NEW changed \in Rows,
           Flushed(r, object, changed)
    PROVE  /\ rows' \in [RowIds -> Rows]
           /\ \A q \in RowIds : q # r => rows'[q] = rows[q]
           /\ rows'[r].exists = rows[r].exists
           /\ rows'[r].update = IF changed.update # object.update THEN changed.update
                                                                  ELSE rows[r].update
           /\ rows'[r].remote = IF changed.remote # object.remote THEN changed.remote
                                                                  ELSE rows[r].remote
           /\ rows'[r].setting = IF changed.setting # object.setting THEN changed.setting
                                                                     ELSE rows[r].setting
BY DEF Flushed, Column, TypeOK, Rows

LEMMA InsertedRow ==
    ASSUME TypeOK, NEW object \in Rows, Inserted(object)
    PROVE  /\ rows' \in [RowIds -> Rows]
           /\ \E r \in RowIds \ Existing :
                /\ \A q \in RowIds : q # r => rows'[q] = rows[q]
                /\ rows'[r].exists /\ rows'[r].update = object.update
                /\ rows'[r].remote = object.remote /\ rows'[r].setting = object.setting
<1>1. PICK r \in RowIds \ Existing : rows' = [rows EXCEPT ![r] = [object EXCEPT !.exists = TRUE]]
    BY DEF Inserted
<1> QED
    BY <1>1 DEF TypeOK, Rows

(* Whoever commits a row leaves rows behind.                               *)
LEMMA CommitsTyped ==
    ASSUME TypeOK, NEW r \in RowIds \cup {0}, NEW object \in Rows, NEW changed \in Rows,
           Commits(r, object, changed)
    PROVE  rows' \in [RowIds -> Rows]
BY RowIdsAssumption, FlushedRow, InsertedRow DEF Commits

LEMMA CheckedTyped ==
    ASSUME TypeOK
    PROVE  /\ Checked \in Rows /\ Flag \in BOOLEAN
           /\ Checked.update = Flag /\ Checked.remote = ask.found
           /\ Checked.setting = check.object.setting
<1>1. check.object \in Rows /\ ask.found \in Remotes
    BY Typed
<1>2. Flag \in BOOLEAN
    BY <1>1 DEF Flag, Rows
<1> QED
    BY <1>1, <1>2 DEF Checked, Rows

LEMMA StartLookupTyped ==
    ASSUME TypeOK,
           NEW locals \in {<<check.local>>, <<None, check.local>>, <<check.local, None>>},
           StartLookup(locals)
    PROVE  ask' \in Lookups /\ locals # <<>> /\ Head(locals) \in Remotes
<1>1. check.local \in Remotes /\ served \in Remotes
    BY Typed, DigestsAreRemotes DEF TypeOK
<1>2. locals \in Seq(Remotes)
    <2>1. CASE locals = <<check.local>>
        BY <1>1, <2>1
    <2>2. CASE locals = <<None, check.local>>
        BY <1>1, <2>2, NothingTyped
    <2>3. CASE locals = <<check.local, None>>
        BY <1>1, <2>3, NothingTyped
    <2> QED
        BY <2>1, <2>2, <2>3
<1>3. locals # <<>> /\ Head(locals) \in Remotes
    BY <1>2
<1> QED
    BY <1>1, <1>2, <1>3, NothingTyped DEF StartLookup, NoLookup, Lookups

LEMMA LeftTyped ==
    ASSUME TypeOK, ask.left # <<>>
    PROVE  /\ ask.left \in Seq(Remotes) /\ Head(ask.left) \in Remotes
           /\ Tail(ask.left) \in Seq(Remotes)
           /\ Len(ask.left) > 1 =>
                 Tail(ask.left) # <<>> /\ Head(Tail(ask.left)) \in Remotes
<1>1. ask.left \in Seq(Remotes)
    BY DEF TypeOK, Lookups
<1>2. /\ Head(ask.left) \in Remotes /\ Tail(ask.left) \in Seq(Remotes)
      /\ Len(Tail(ask.left)) = Len(ask.left) - 1 /\ Len(ask.left) \in Nat
    BY <1>1, HeadTailProperties, LenProperties
<1>3. ASSUME Len(ask.left) > 1
      PROVE  Tail(ask.left) # <<>> /\ Head(Tail(ask.left)) \in Remotes
    <2> DEFINE n == Len(ask.left)
               t == Tail(ask.left)
    <2>1. n \in Nat /\ n > 1 /\ Len(t) = n - 1
        BY <1>2, <1>3
    <2>2. Len(<<>>) = 0
        BY EmptySeq
    <2>3. t # <<>>
        <3> HIDE DEF n, t
        <3> QED
            BY <2>1, <2>2
    <2> QED
        BY <1>2, <2>3, HeadTailProperties
<1> QED
    BY <1>1, <1>2, <1>3

LEMMA LookupStepTyped == ASSUME TypeOK, LookupIsNew, LookupStep PROVE ask' \in Lookups
<1>1. ask \in Lookups /\ served \in Remotes /\ None \in Remotes
    BY DigestsAreRemotes, NothingTyped DEF TypeOK
<1>2. ASSUME ask.left # <<>>, NextDigest PROVE ask' \in Lookups
    <2>1. CASE Len(ask.left) > 1
        <3> DEFINE t == Tail(ask.left)
                   h == Head(Tail(ask.left))
        <3>1. t \in Seq(Remotes) /\ h \in Remotes
            BY <1>2, <2>1, LeftTyped
        <3>2. ask' = [ask EXCEPT !.pc = "head", !.left = t, !.scheme = "https", !.named = h]
            BY <1>2, <2>1 DEF NextDigest
        <3> HIDE DEF t, h
        <3> QED
            BY <1>1, <3>1, <3>2 DEF Lookups
    <2>2. CASE ~(Len(ask.left) > 1)
        <3>1. NoLookup \in Lookups
            BY NothingTyped
        <3> QED
            BY <1>1, <1>2, <2>2, <3>1 DEF NextDigest, Returns, Lookups
    <2> QED
        BY <2>1, <2>2
<1>3. ask.pc \in {"head", "token", "again", "answer"} => ask.left # <<>>
    BY DEF LookupIsNew, AnswerIsNew, Asking
<1>4. CASE Unreachable
    BY <1>1, <1>2, <1>3, <1>4 DEF Unreachable, Lookups
<1>5. CASE Challenged
    BY <1>1, <1>2, <1>3, <1>5 DEF Challenged, Lookups
<1>6. CASE Token
    BY <1>1, <1>2, <1>3, <1>6 DEF Token, Lookups
<1>7. CASE Responds
    <2>1. CASE ask' = [ask EXCEPT !.pc = "answer", !.status = "not modified", !.header = None]
        BY <1>1, <2>1 DEF Lookups
    <2>2. ASSUME NEW header \in {None, served},
                 ask' = [ask EXCEPT !.pc = "answer", !.status = "ok", !.header = header]
          PROVE  ask' \in Lookups
        BY <1>1, <2>2 DEF Lookups
    <2> QED
        BY <1>7, <2>1, <2>2 DEF Responds
<1>8. CASE Refuses
    BY <1>2, <1>3, <1>8 DEF Refuses
<1>9. CASE Concludes
    <2>1. Head(ask.left) \in Remotes /\ ask.header \in Remotes
        BY <1>1, <1>3, <1>9, LeftTyped DEF Concludes, Lookups
    <2>2. ASSUME NEW d \in Remotes, Returns(d) PROVE ask' \in Lookups
        <3>1. NoLookup \in Lookups
            BY NothingTyped
        <3> QED
            BY <1>1, <2>2, <3>1 DEF Returns, Lookups
    <2> QED
        BY <1>2, <1>3, <1>9, <2>1, <2>2 DEF Concludes
<1> QED
    BY <1>4, <1>5, <1>6, <1>7, <1>8, <1>9 DEF LookupStep

LEMMA TypeStep == ASSUME IInv, [Next]_vars PROVE TypeOK'
<1> USE DigestsAreRemotes
<1>0. TypeOK
    BY DEF IInv
<1> USE <1>0
<1>1. CASE Publish
    BY <1>1, MaxDigestAssumption DEF Publish, TypeOK, Digests
<1>2. CASE StartCheck
    BY <1>2, NothingTyped DEF StartCheck, TypeOK, CheckRecords
<1>3. CASE GiveUp
    BY <1>3, NothingTyped DEF GiveUp, TypeOK
<1>4. CASE ReadRow
    <2>1. PICK r \in RowIds \cup {0}, object \in Rows :
              check' = [check EXCEPT !.pc = "look", !.row = r, !.object = object]
        BY <1>4, SelectsTyped DEF ReadRow
    <2> QED
        BY <1>4, <2>1 DEF ReadRow, TypeOK, CheckRecords
<1>5. CASE Look
    <2>1. ask' \in Lookups
        BY <1>5, StartLookupTyped DEF Look
    <2> QED
        BY <1>5, <2>1 DEF Look, TypeOK, CheckRecords
<1>6. CASE Lookup
    BY <1>6, LookupStepTyped DEF IInv, Lookup, LookupStep, TypeOK
<1>7. CASE Judge
    <2>1. ask' \in Lookups
        BY <1>7, NothingTyped DEF Judge, TypeOK, Lookups
    <2>2. PICK r \in RowIds \cup {0}, object \in Rows :
              check' = [check EXCEPT
                !.pc = "commit", !.verdict = Verdict(ask.found), !.row = r,
                !.object = IF r = check.row /\ r # 0 THEN @ ELSE object]
        BY <1>7, SelectsTyped DEF Judge
    <2>3. check' \in CheckRecords
        BY <2>2 DEF TypeOK, CheckRecords, Verdict
    <2> QED
        BY <1>7, <2>1, <2>3 DEF Judge, TypeOK
<1>8. ASSUME EndCheck PROVE check' \in CheckRecords
    BY <1>8, NothingTyped DEF EndCheck, CheckRecords
<1>9. ASSUME Reports PROVE reported' \in [Digests -> Nat]
    <2>1. reported \in [Digests -> Nat]
        BY DEF TypeOK
    <2>2. ASSUME NEW f \in [Digests -> Nat], NEW d PROVE [f EXCEPT ![d] = @ + 1] \in [Digests -> Nat]
        <3>1. CASE d \in Digests
            BY <3>1
        <3>2. CASE d \notin Digests
            <4>1. [f EXCEPT ![d] = @ + 1] = f
                BY <3>2
            <4> QED
                BY <4>1
        <3> QED
            BY <3>1, <3>2
    <2> QED
        BY <1>9, <2>1, <2>2 DEF Reports
<1>10. CASE CommitCheck
    <2>1. rows' \in [RowIds -> Rows]
        BY <1>10, Typed, CheckedTyped, CommitsTyped DEF CommitCheck
    <2>2. seen' \in Remotes /\ failures' \in Nat
        BY <1>10, Typed DEF CommitCheck, TypeOK
    <2>3. crossed' \in BOOLEAN /\ unrecorded' \in BOOLEAN
        BY <1>10 DEF CommitCheck, TypeOK
    <2> QED
        BY <1>8, <1>9, <1>10, <2>1, <2>2, <2>3 DEF CommitCheck, EndCheck, TypeOK
<1>11. CASE CommitFails
    BY <1>8, <1>9, <1>11 DEF CommitFails, EndCheck, TypeOK
<1>12. CASE Notify
    BY <1>12, NothingTyped, Typed DEF Notify, TypeOK
<1>13. CASE StartUpdate
    <2>1. check' \in CheckRecords
        BY <1>13 DEF StartUpdate, TypeOK, CheckRecords
    <2>2. update' \in Updates
        BY <1>13 DEF StartUpdate, TypeOK, Updates
    <2> QED
        BY <1>13, <2>1, <2>2 DEF StartUpdate, TypeOK, Updates
<1>14. CASE Replace
    <2>1. update' \in Updates
        BY <1>14 DEF Replace, TypeOK, Updates
    <2>2. image' \in Remotes
        BY <1>14, Typed DEF Replace, TypeOK
    <2> QED
        BY <1>14, <2>1, <2>2 DEF Replace, TypeOK, Updates
<1>20. ASSUME NoMoreUpdate PROVE update' \in Updates
    BY <1>20, NothingTyped, Typed DEF NoMoreUpdate, Updates
<1>21. CASE NotReplaced
    <2>1. image' \in Remotes /\ unrecorded' \in BOOLEAN
        BY <1>21, Typed DEF NotReplaced, TypeOK
    <2> QED
        BY <1>20, <1>21, <2>1 DEF NotReplaced, TypeOK, Updates
<1>22. CASE NotRecorded
    BY <1>20, <1>22 DEF NotRecorded, TypeOK, Updates
<1>23. CASE Crash
    BY <1>20, <1>23, NothingTyped DEF Crash, TypeOK, Updates, Patches
<1>15. CASE EndUpdate
    <2>1. PICK r \in RowIds :
              update' = [update EXCEPT !.pc = "ending", !.row = r, !.object = rows[r]]
        BY <1>15 DEF EndUpdate, Existing
    <2>2. rows[r] \in Rows
        BY Typed
    <2> QED
        BY <1>15, <2>1, <2>2 DEF EndUpdate, TypeOK
<1>16. CASE CommitUpdate
    <2>1. update.row \in RowIds
        BY <1>16, Typed DEF CommitUpdate, IInv, ReadIsKept
    <2>2. [update.object EXCEPT !.update = FALSE] \in Rows
        BY Typed DEF Rows
    <2>3. rows' \in [RowIds -> Rows]
        BY <1>16, <2>1, <2>2, Typed, FlushedRow DEF CommitUpdate
    <2>4. update' \in Updates
        BY <1>16, <1>20 DEF CommitUpdate
    <2> QED
        BY <1>16, <2>3, <2>4 DEF CommitUpdate, TypeOK, Updates
<1>17. CASE SelectPatch
    <2>1. PICK r \in RowIds \cup {0}, object \in Rows :
              patch' = [pc |-> "commit", row |-> r, object |-> object]
        BY <1>17, SelectsTyped DEF SelectPatch
    <2> QED
        BY <1>17, <2>1 DEF SelectPatch, TypeOK
<1>18. CASE CommitPatch
    <2>1. PICK s \in Settings :
              /\ Commits(patch.row, patch.object, [patch.object EXCEPT !.setting = s])
              /\ setting' = s
        BY <1>18 DEF CommitPatch
    <2>2. [patch.object EXCEPT !.setting = s] \in Rows
        BY Typed DEF Rows
    <2>3. rows' \in [RowIds -> Rows]
        BY <2>1, <2>2, Typed, CommitsTyped
    <2> QED
        BY <1>18, <2>1, <2>3, NothingTyped DEF CommitPatch, TypeOK, Patches
<1>19. CASE UNCHANGED vars
    BY <1>19 DEF vars, TypeOK
<1> QED
    BY <1>1, <1>2, <1>3, <1>4, <1>5, <1>6, <1>7, <1>10, <1>11, <1>12, <1>13, <1>14, <1>15,
       <1>16, <1>17, <1>18, <1>19, <1>21, <1>22, <1>23 DEF Next

-----------------------------------------------------------------------------
(* The steps that write no row.                                            *)

LEMMA Facts ==
    ASSUME IInv
    PROVE  /\ TypeOK /\ FoundIsServed /\ PatchKept /\ ReportedOnce /\ NothingAhead /\ LookupIsNew
           /\ ReadIsKept /\ OverlapIsKnown /\ NothingBeforeRows /\ FlagHeld /\ ReportsHeld
           /\ None = 0 /\ 0 \notin RowIds
           /\ served \in Nat /\ image \in Nat /\ seen \in Nat /\ failures \in Nat
           /\ ask.since \in Nat /\ ask.found \in Nat
           /\ check.local \in Nat /\ check.object \in Rows /\ check.row \in RowIds \cup {0}
           /\ update.pulled \in Nat /\ update.object \in Rows
           /\ update.row \in RowIds \cup {0}
           /\ patch.object \in Rows /\ patch.row \in RowIds \cup {0}
           /\ rows \in [RowIds -> Rows]
<1>1. TypeOK
    BY DEF IInv
<1> QED
    BY <1>1, Typed, DigestsAreRemotes, RowIdsAssumption DEF IInv, None, TypeOK

LEMMA AnswerStands ==
    ASSUME IInv, served' \in Nat, served' >= served, ask' = ask \/ ask'.pc = "off"
    PROVE  AnswerIsNew'
<1>1. CASE ask' = ask
    <2>1. AnswerIsNew /\ served \in Nat /\ ask.since \in Nat
        BY Facts DEF LookupIsNew
    <2>2. ask.since..served \subseteq ask.since..served'
        BY <2>1
    <2> QED
        BY <1>1, <2>1, <2>2 DEF AnswerIsNew
<1>2. CASE ask'.pc = "off"
    BY <1>2 DEF AnswerIsNew, Asking
<1> QED
    BY <1>1, <1>2

LEMMA PublishInv == ASSUME IInv, Publish PROVE IInv'
<1>1. TypeOK'
    BY TypeStep DEF Next
<1>2. FoundIsServed' /\ NothingAhead' /\ LookupIsNew'
    BY Facts, AnswerStands DEF Publish, FoundIsServed, NothingAhead, LookupIsNew, UnderWay
<1>3. UNCHANGED <<rows, check, update, patch, setting, history, ask, image>>
    BY DEF Publish
<1>4. PatchKept' /\ ReportedOnce' /\ ReadIsKept' /\ OverlapIsKnown' /\ NothingBeforeRows'
      /\ FlagHeld' /\ ReportsHeld'
    BY <1>3, Facts DEF PatchKept, ReportedOnce, ReadIsKept, OverlapIsKnown, NothingBeforeRows, FlagHeld, ReportsHeld,
                       OneRow, Existing, UnderWay, HasRead
<1> QED
    BY <1>1, <1>2, <1>4 DEF IInv

(* A check moves on, gives up or fails: what it holds stays true.          *)
LEMMA CheckMoves ==
    ASSUME IInv, TypeOK', LookupIsNew', FoundIsServed', ask'.since <= served',
           UNCHANGED <<served, image, rows, update, patch, setting, seen, crossed, unrecorded>>,
           \/ failures' = failures /\ reported' = reported
           \/ failures' = failures + 1 /\ \A d \in Digests : reported'[d] \in {reported[d], reported[d] + 1},
           UnderWay' => check'.overlaps \/ ~(update.pc # "idle" \/ image # check'.local),
           HasRead' => IF check'.row = 0 THEN check'.object = NoRow
                       ELSE /\ rows[check'.row].exists
                            /\ check'.object.remote = rows[check'.row].remote
                            /\ rows[check'.row].update => check'.object.update,
           HasRead' /\ seen = None => ~check'.object.update,
           OneRow /\ HasRead' /\ check'.row # 0 /\ check'.object.update
              /\ ~rows[check'.row].update =>
                 check'.overlaps /\ update.pc = "idle" /\ image = update.pulled,
           OneRow /\ HasRead' /\ check'.row = 0 => \A r \in Existing : rows[r].remote = None,
           OneRow /\ check'.pc = "commit" /\ check'.verdict = "available" =>
              check'.object.remote # ask'.found
    PROVE  IInv'
<1>1. PatchKept'
    BY Facts DEF PatchKept, OneRow, Existing
<1>2. ReportedOnce' /\ ReportsHeld'
    <2>1. OneRow' = OneRow /\ Existing' = Existing
        BY DEF OneRow, Existing
    <2>2. reported \in [Digests -> Nat] /\ failures \in Nat /\ seen \in Nat
        BY Facts DEF TypeOK
    <2>3. OneRow => \A d \in Digests : reported[d] <= 1 + failures
        BY Facts DEF ReportedOnce
    <2>4. OneRow => \A d \in Digests :
              reported[d] <= failures \/ d < seen \/ (\E r \in Existing : rows[r].remote = d)
        BY Facts DEF ReportsHeld
    <2>5. ReportedOnce'
        BY <2>1, <2>2, <2>3 DEF ReportedOnce
    <2>6. ReportsHeld'
        BY <2>1, <2>2, <2>4 DEF ReportsHeld
    <2> QED
        BY <2>5, <2>6
<1>3. NothingAhead'
    BY Facts DEF NothingAhead
<1>4. ReadIsKept'
    BY Facts DEF ReadIsKept, HasRead
<1>5. OverlapIsKnown'
    BY DEF OverlapIsKnown
<1>6. NothingBeforeRows'
    BY Facts DEF NothingBeforeRows, Existing
<1>7. FlagHeld'
    BY Facts DEF FlagHeld, OneRow, Existing
<1> QED
    BY <1>1, <1>2, <1>3, <1>4, <1>5, <1>6, <1>7 DEF IInv

LEMMA StartCheckInv == ASSUME IInv, StartCheck PROVE IInv'
<1>1. PICK all \in BOOLEAN :
          check' = [pc |-> "inspect", row |-> 0, object |-> NoRow, local |-> image, all |-> all,
                    verdict |-> "none", overlaps |-> update.pc # "idle"]
    BY DEF StartCheck
<1>2. TypeOK'
    BY TypeStep DEF Next
<1>3. LookupIsNew' /\ FoundIsServed'
    BY <1>1, Facts, AnswerStands DEF StartCheck, LookupIsNew, FoundIsServed, UnderWay, NothingAhead
<1> QED
    BY <1>1, <1>2, <1>3, Facts, CheckMoves DEF StartCheck, HasRead, NothingAhead

LEMMA GiveUpInv == ASSUME IInv, GiveUp PROVE IInv'
<1>1. TypeOK' /\ check' = NoCheck /\ check'.pc = "idle"
    BY TypeStep DEF Next, GiveUp, NoCheck
<1>2. LookupIsNew' /\ FoundIsServed'
    BY <1>1, Facts, AnswerStands DEF GiveUp, LookupIsNew, FoundIsServed, UnderWay
<1> QED
    BY <1>1, <1>2, Facts, CheckMoves DEF GiveUp, UnderWay, HasRead, NothingAhead

(* What a SELECT hands out is the only row, or one of several.             *)
LEMMA SelectsRow ==
    ASSUME NEW r \in RowIds \cup {0}, NEW object, Selects(r, object)
    PROVE  IF r = 0 THEN object = NoRow /\ Existing = {}
                    ELSE rows[r].exists /\ object = rows[r]
BY RowIdsAssumption DEF Selects, Existing

LEMMA ReadRowInv == ASSUME IInv, ReadRow PROVE IInv'
<1>1. PICK r \in RowIds \cup {0}, object \in Rows :
          /\ Selects(r, object)
          /\ check' = [check EXCEPT !.pc = "look", !.row = r, !.object = object]
    BY Facts, SelectsTyped DEF ReadRow
<1>2. /\ TypeOK' /\ check.pc = "inspect"
      /\ check'.pc = "look" /\ check'.row = r /\ check'.object = object
      /\ check'.local = check.local /\ check'.overlaps = check.overlaps
    BY <1>1, Facts, TypeStep DEF Next, ReadRow, TypeOK, CheckRecords
<1>3. LookupIsNew' /\ FoundIsServed'
    BY <1>2, Facts, AnswerStands DEF ReadRow, LookupIsNew, FoundIsServed, UnderWay
<1>4. IF r = 0 THEN object = NoRow /\ Existing = {} ELSE rows[r].exists /\ object = rows[r]
    BY <1>1, SelectsRow
<1>5. seen = None => ~object.update
    BY <1>4, Facts, NothingTyped DEF NothingBeforeRows, Existing
<1>6. UnderWay' => check'.overlaps \/ ~(update.pc # "idle" \/ image # check'.local)
    BY <1>2, Facts DEF UnderWay, OverlapIsKnown
<1>7. HasRead' /\ check'.row = 0 => Existing = {}
    BY <1>2, <1>4
<1> QED
    BY <1>2, <1>3, <1>4, <1>5, <1>6, <1>7, Facts, CheckMoves
       DEF ReadRow, NothingAhead

LEMMA LookInv == ASSUME IInv, Look PROVE IInv'
<1>1. PICK locals \in {<<check.local>>, <<None, check.local>>, <<check.local, None>>} :
          StartLookup(locals)
    BY DEF Look
<1>2. /\ ask'.pc = "head" /\ ask'.found = None /\ ask'.since = served
      /\ ask'.left # <<>> /\ ask'.named = Head(ask'.left)
    BY <1>1, Facts, StartLookupTyped DEF StartLookup, NoLookup
<1>3. /\ TypeOK' /\ check.pc = "look" /\ check'.pc = "lookup"
      /\ check'.row = check.row /\ check'.object = check.object
      /\ check'.local = check.local /\ check'.overlaps = check.overlaps
    BY Facts, TypeStep DEF Next, Look, TypeOK, CheckRecords
<1>4. AnswerIsNew' /\ FoundIsServed'
    BY <1>2 DEF AnswerIsNew, FoundIsServed, Asking
<1>5. LookupIsNew'
    BY <1>2, <1>3, <1>4, Facts DEF Look, LookupIsNew, UnderWay, NothingAhead
<1>6. UnderWay /\ HasRead
    BY <1>3 DEF UnderWay, HasRead
<1> QED
    BY <1>2, <1>3, <1>4, <1>6, <1>5, Facts, CheckMoves
       DEF Look, NothingAhead, OverlapIsKnown, ReadIsKept, NothingBeforeRows, FlagHeld,
           ReportsHeld

LEMMA LookupInv == ASSUME IInv, Lookup PROVE IInv'
<1>1. /\ ask \in Lookups /\ ask.since <= served /\ served \in Nat
      /\ ask.pc = "over" /\ ask.found # None => ask.found \in ask.since..served
      /\ served \in ask.since..served
    BY Facts DEF TypeOK, NothingAhead, FoundIsServed
<1> DEFINE Good(x) ==
        /\ x.since = ask.since /\ x.pc # "off"
        /\ x.pc \in Asking \cup {"answer"} => x.found = None /\ x.left # <<>>
        /\ x.pc \in Asking => x.named = Head(x.left)
        /\ x.pc = "answer" =>
              /\ x.status = "not modified" => Head(x.left) \in x.since..served
              /\ x.status = "ok" => x.header \in {None} \cup x.since..served
              /\ x.status # "none"
        /\ x.pc = "over" /\ x.found # None => x.found \in x.since..served
<1>2. Good(ask')
    <2> USE <1>1 DEF Lookups, Asking
    <2>1. /\ ask.since \in Nat /\ served \in Nat /\ None = 0
          /\ ask.pc \notin {"off", "over"} => Good(ask)
        BY Facts DEF LookupIsNew, AnswerIsNew
    <2>2. ASSUME ask.pc # "off", ask.pc # "over", NextDigest PROVE Good(ask')
        <3>1. CASE Len(ask.left) > 1
            <4>1. ask.left # <<>>
                BY <2>1, <2>2
            <4>2. Tail(ask.left) # <<>>
                BY <3>1, <4>1, Facts, LeftTyped
            <4>3. /\ ask'.since = ask.since /\ ask'.pc = "head" /\ ask'.found = ask.found
                  /\ ask'.left = Tail(ask.left) /\ ask'.named = Head(Tail(ask.left))
                BY <2>2, <3>1 DEF NextDigest
            <4> QED
                BY <2>1, <2>2, <4>2, <4>3
        <3>2. CASE ~(Len(ask.left) > 1)
            BY <2>2, <3>2 DEF NextDigest, Returns, NoLookup
        <3> QED
            BY <3>1, <3>2
    <2>3. CASE Unreachable
        BY <2>1, <2>2, <2>3 DEF Unreachable
    <2>4. CASE Challenged
        BY <2>1, <2>2, <2>4 DEF Challenged
    <2>5. CASE Token
        BY <2>1, <2>2, <2>5 DEF Token
(* What the request names is at the head of what is left.                  *)
    <2>6. CASE Responds
        <3>1. /\ ask'.since = ask.since /\ ask'.pc = "answer" /\ ask'.left = ask.left
              /\ ask'.found = ask.found
              /\ \/ ask'.status = "not modified" /\ ask.named = served
                 \/ ask'.status = "ok" /\ ask'.header \in {None, served}
            BY <2>6 DEF Responds
        <3>2. ask.named = Head(ask.left) /\ ask.left # <<>> /\ ask.found = None
            BY <2>1, <2>6 DEF Responds
        <3>3. served \in ask.since..served
            BY <1>1
        <3> QED
            BY <3>1, <3>2, <3>3
    <2>7. CASE Refuses
        BY <2>2, <2>7 DEF Refuses
    <2>8. CASE Concludes
        BY <2>1, <2>2, <2>8 DEF Concludes, Returns, NoLookup
    <2> QED
        BY <2>3, <2>4, <2>5, <2>6, <2>7, <2>8 DEF Lookup, LookupStep
<1>3. TypeOK' /\ check.pc = "lookup" /\ ask.pc # "off"
    BY TypeStep, Facts DEF Next, Lookup, LookupIsNew
<1>4. LookupIsNew' /\ FoundIsServed'
    BY <1>2, <1>3, Facts DEF Lookup, LookupStep, LookupIsNew, AnswerIsNew, FoundIsServed, UnderWay
<1>5. UnderWay /\ HasRead
    BY <1>3 DEF UnderWay, HasRead
<1> QED
    BY <1>1, <1>2, <1>3, <1>4, <1>5, Facts, CheckMoves
       DEF Lookup, LookupStep, OverlapIsKnown, ReadIsKept, NothingBeforeRows, FlagHeld,
           ReportsHeld

LEMMA JudgeInv == ASSUME IInv, Judge PROVE IInv'
<1>1. PICK r \in RowIds \cup {0}, object \in Rows :
          /\ Selects(r, object)
          /\ check' = [check EXCEPT
                !.pc = "commit", !.verdict = Verdict(ask.found), !.row = r,
                !.object = IF r = check.row /\ r # 0 THEN @ ELSE object]
    BY Facts, SelectsTyped DEF Judge
<1>2. /\ TypeOK' /\ check.pc = "lookup" /\ ask.pc = "over" /\ UnderWay /\ HasRead
      /\ check'.pc = "commit" /\ check'.verdict = Verdict(ask.found) /\ check'.row = r
      /\ check'.object = IF r = check.row /\ r # 0 THEN check.object ELSE object
      /\ check'.local = check.local /\ check'.overlaps = check.overlaps
    BY <1>1, Facts, TypeStep DEF Next, Judge, TypeOK, CheckRecords, UnderWay, HasRead
<1>3. /\ ask'.pc = "off" /\ ask'.found = ask.found /\ ask'.since = None
      /\ ask.found # None => ask.found \in ask.since..served
    BY <1>2, Facts DEF Judge, NoLookup, FoundIsServed
<1>4. /\ check'.verdict = "unknown" <=> ask.found = None
      /\ check'.verdict = "not_available" <=> ask.found = check.local
      /\ check'.verdict # "none"
      /\ check'.verdict = "available" => check.object.remote # ask.found
    <2>1. check.local # None /\ Verdict(ask.found) = check'.verdict
        BY <1>2, Facts DEF LookupIsNew
    <2>2. CASE ask.found = None
        BY <2>1, <2>2 DEF Verdict
    <2>3. CASE ask.found # None /\ ask.found = check.local
        BY <2>1, <2>3 DEF Verdict
    <2>4. CASE ask.found # None /\ ask.found # check.local
        BY <2>1, <2>4 DEF Verdict
    <2> QED
        BY <2>2, <2>3, <2>4
<1>5. LookupIsNew' /\ FoundIsServed'
    BY <1>2, <1>3, <1>4, Facts, AnswerStands DEF Judge, LookupIsNew, FoundIsServed, UnderWay
<1>6. IF r = 0 THEN object = NoRow /\ Existing = {} ELSE rows[r].exists /\ object = rows[r]
    BY <1>1, SelectsRow
(* The first and the second selection find the same row if there is one.   *)
<1>7. OneRow /\ check.row # 0 => r = check.row
    <2> SUFFICES ASSUME OneRow, check.row # 0 PROVE r = check.row
        OBVIOUS
    <2>1. check.row \in Existing
        BY <1>2, Facts DEF ReadIsKept, Existing
    <2>2. r \in Existing
        BY <2>1, <1>6 DEF Existing
    <2> QED
        BY <2>1, <2>2 DEF OneRow
<1>8. seen = None => ~check'.object.update
    BY <1>2, <1>6, Facts, NothingTyped DEF NothingBeforeRows, Existing
<1>9. IF check'.row = 0 THEN check'.object = NoRow
      ELSE /\ rows[check'.row].exists
           /\ check'.object.remote = rows[check'.row].remote
           /\ rows[check'.row].update => check'.object.update
    BY <1>2, <1>6, Facts DEF ReadIsKept
<1>10. OneRow /\ check'.row # 0 /\ check'.object.update /\ ~rows[check'.row].update =>
          check'.overlaps /\ update.pc = "idle" /\ image = update.pulled
    BY <1>2, <1>6, <1>7, Facts DEF FlagHeld
<1>11. OneRow /\ check'.verdict = "available" => check'.object.remote # ask'.found
    <2> SUFFICES ASSUME OneRow, check'.verdict = "available"
                 PROVE  check'.object.remote # ask.found
        BY <1>3
    <2>1. CASE check.row # 0
        BY <2>1, <1>2, <1>4, <1>7
    <2>2. CASE check.row = 0
        BY <2>2, <1>2, <1>4, <1>6, Facts, NothingTyped DEF ReportsHeld, Existing
    <2> QED
        BY <2>1, <2>2
<1>12. UnderWay' => check'.overlaps \/ ~(update.pc # "idle" \/ image # check'.local)
    BY <1>2, Facts DEF OverlapIsKnown
<1>13. check'.row = 0 => Existing = {}
    BY <1>2, <1>6
<1> QED
    BY <1>2, <1>3, <1>5, <1>8, <1>9, <1>10, <1>11, <1>12, <1>13, Facts, CheckMoves
       DEF Judge, NothingAhead

(* What a check reports of a digest, and the failure that covers it.       *)
LEMMA ReportsCount ==
    ASSUME IInv, Reports
    PROVE  \A d \in Digests :
               reported'[d] = IF check.verdict = "available" /\ d = ask.found
                              THEN reported[d] + 1 ELSE reported[d]
BY Facts DEF Reports, TypeOK

LEMMA CommitFailsInv == ASSUME IInv, CommitFails PROVE IInv'
<1>1. TypeOK' /\ check'.pc \in {"idle", "notify"}
    BY TypeStep DEF Next, CommitFails, EndCheck, NoCheck
<1>2. LookupIsNew' /\ FoundIsServed'
    BY <1>1, Facts, AnswerStands DEF CommitFails, EndCheck, LookupIsNew, FoundIsServed, UnderWay
<1>3. \A d \in Digests : reported'[d] \in {reported[d], reported[d] + 1}
    BY ReportsCount DEF CommitFails
<1>4. \/ failures' = failures /\ reported' = reported
      \/ failures' = failures + 1 /\ \A d \in Digests : reported'[d] \in {reported[d], reported[d] + 1}
    BY <1>3 DEF CommitFails, Reports
<1> QED
    BY <1>1, <1>2, <1>4, Facts, CheckMoves
       DEF CommitFails, EndCheck, UnderWay, HasRead, NothingAhead

LEMMA NotifyInv == ASSUME IInv, Notify PROVE IInv'
<1>1. TypeOK' /\ check'.pc = "idle"
    BY TypeStep DEF Next, Notify, NoCheck
<1>2. LookupIsNew' /\ FoundIsServed'
    BY <1>1, Facts, AnswerStands DEF Notify, LookupIsNew, FoundIsServed, UnderWay
<1> QED
    BY <1>1, <1>2, Facts, CheckMoves DEF Notify, UnderWay, HasRead, NothingAhead

-----------------------------------------------------------------------------
(* The steps of an update that write no row.                               *)

(* An update moves on: all but what is known of it and of the image stays. *)
LEMMA UpdateMoves ==
    ASSUME IInv, TypeOK', NothingAhead', LookupIsNew', OverlapIsKnown', FlagHeld',
           update'.pc = "ending" => update'.row # 0 /\ rows[update'.row].exists,
           UNCHANGED <<registry, ask, rows, patch, setting, seen, failures, reported>>,
           /\ check'.pc = check.pc /\ check'.row = check.row /\ check'.object = check.object
           /\ check'.verdict = check.verdict
    PROVE  IInv'
<1>1. OneRow' = OneRow /\ Existing' = Existing /\ HasRead' = HasRead
    BY DEF OneRow, Existing, HasRead
<1>2. FoundIsServed' /\ PatchKept' /\ ReportedOnce'
    BY <1>1, Facts DEF FoundIsServed, PatchKept, ReportedOnce
<1>3. ReadIsKept'
    BY <1>1, Facts DEF ReadIsKept
<1>4. NothingBeforeRows'
    BY <1>1, Facts DEF NothingBeforeRows
<1>5. ReportsHeld'
    BY <1>1, Facts DEF ReportsHeld
<1> QED
    BY <1>2, <1>3, <1>4, <1>5 DEF IInv

LEMMA StartUpdateInv == ASSUME IInv, StartUpdate PROVE IInv'
<1>1. /\ TypeOK' /\ update.pc = "idle"
      /\ update'.pc = "pulled" /\ update'.pulled = served
      /\ check'.pc = check.pc /\ check'.row = check.row /\ check'.object = check.object
      /\ check'.verdict = check.verdict /\ check'.local = check.local
      /\ check'.overlaps
    BY Facts, TypeStep DEF Next, StartUpdate, TypeOK, CheckRecords
<1>2. NothingAhead'
    BY <1>1, Facts DEF StartUpdate, NothingAhead
<1>3. LookupIsNew'
    BY <1>1, Facts, AnswerStands DEF StartUpdate, LookupIsNew, UnderWay
<1>4. OverlapIsKnown'
    BY <1>1 DEF OverlapIsKnown
(* The flag of the row for which the update was begun is the only flag.    *)
<1>5. OneRow => \A r \in Existing : rows[r].update
    BY DEF StartUpdate, OneRow
<1>6. HasRead /\ check.row # 0 => check.row \in Existing
    BY Facts DEF ReadIsKept, Existing
<1>7. OneRow' = OneRow /\ Existing' = Existing /\ HasRead' = HasRead /\ rows' = rows
    BY <1>1 DEF StartUpdate, OneRow, Existing, HasRead
<1>8. FlagHeld'
    BY <1>1, <1>5, <1>6, <1>7, Facts DEF StartUpdate, FlagHeld, NothingAhead
<1> QED
    BY <1>1, <1>2, <1>3, <1>4, <1>8, UpdateMoves DEF StartUpdate

LEMMA ReplaceInv == ASSUME IInv, Replace PROVE IInv'
<1>1. /\ TypeOK' /\ update.pc = "pulled" /\ update'.pulled = update.pulled
      /\ image' = update.pulled /\ update'.pc = "replaced"
    BY Facts, TypeStep DEF Next, Replace, TypeOK
<1>2. NothingAhead'
    BY <1>1, Facts DEF Replace, NothingAhead
<1>3. LookupIsNew'
    BY <1>1, Facts, AnswerStands DEF Replace, LookupIsNew, UnderWay, NothingAhead
<1>4. OverlapIsKnown'
    BY <1>1, Facts DEF Replace, OverlapIsKnown, UnderWay
<1>5. FlagHeld'
    BY <1>1, Facts DEF Replace, FlagHeld, OneRow, Existing, HasRead
<1> QED
    BY <1>1, <1>2, <1>3, <1>4, <1>5, UpdateMoves DEF Replace

(* An update ends without writing the row: it has left the image as it was,*)
(* or it is known not to be recorded.                                      *)
LEMMA UpdateEnds ==
    ASSUME IInv, TypeOK', NoMoreUpdate, update.pc # "idle",
           UNCHANGED <<registry, ask, rows, check, patch, setting, seen, crossed, failures,
                       reported>>,
           \/ update.pc = "pulled" /\ image' = image /\ unrecorded' = unrecorded
           \/ image' = update.pulled /\ unrecorded' = TRUE
    PROVE  IInv'
<1>1. update'.pc = "idle" /\ update'.pulled = update.pulled
    BY DEF NoMoreUpdate, NoUpdate
<1>2. NothingAhead'
    BY <1>1, Facts DEF NothingAhead
<1>3. LookupIsNew'
    BY <1>1, Facts, AnswerStands DEF LookupIsNew, UnderWay, NothingAhead
<1>4. OverlapIsKnown'
    BY <1>1, Facts DEF OverlapIsKnown, UnderWay
<1>5. FlagHeld'
    BY <1>1, Facts DEF FlagHeld, OneRow, Existing, HasRead
<1> QED
    BY <1>1, <1>2, <1>3, <1>4, <1>5, UpdateMoves

LEMMA NotReplacedInv == ASSUME IInv, NotReplaced PROVE IInv'
<1>1. TypeOK'
    BY TypeStep DEF Next
<1> QED
    BY <1>1, UpdateEnds DEF NotReplaced

LEMMA NotRecordedInv == ASSUME IInv, NotRecorded PROVE IInv'
<1>1. TypeOK' /\ image = update.pulled
    BY TypeStep, Facts DEF Next, NotRecorded, NothingAhead
<1> QED
    BY <1>1, UpdateEnds DEF NotRecorded

LEMMA CrashInv == ASSUME IInv, Crash PROVE IInv'
<1>1. /\ TypeOK' /\ check'.pc = "idle" /\ patch'.pc = "idle" /\ ask'.pc = "off"
      /\ update'.pc = "idle" /\ update'.pulled = update.pulled
      /\ ask'.since = None
    BY TypeStep DEF Next, Crash, NoMoreUpdate, NoUpdate, NoCheck, NoLookup, Idle
<1>2. UNCHANGED <<served, image, rows, setting, seen, crossed, failures, reported>>
    BY DEF Crash
<1>3. FoundIsServed' /\ PatchKept' /\ ReportedOnce' /\ LookupIsNew' /\ OverlapIsKnown'
    BY <1>1, <1>2, Facts, AnswerStands
       DEF FoundIsServed, PatchKept, ReportedOnce, LookupIsNew, OverlapIsKnown, OneRow, Existing,
           UnderWay
<1>4. NothingAhead' /\ ReadIsKept' /\ NothingBeforeRows' /\ ReportsHeld'
    BY <1>1, <1>2, Facts
       DEF NothingAhead, ReadIsKept, NothingBeforeRows, ReportsHeld, OneRow, Existing, HasRead
<1>5. FlagHeld'
    <2>1. update.pc \in {"replaced", "ending"} => unrecorded' /\ image = update.pulled
        BY Facts DEF Crash, NothingAhead
    <2>2. update.pc \notin {"replaced", "ending"} =>
              unrecorded' = unrecorded /\ update.pc \in {"idle", "pulled"}
        BY Facts DEF Crash, TypeOK
    <2> QED
        BY <1>1, <1>2, <2>1, <2>2, Facts DEF FlagHeld, OneRow, Existing, HasRead
<1> QED
    BY <1>1, <1>3, <1>4, <1>5 DEF IInv

LEMMA EndUpdateInv == ASSUME IInv, EndUpdate PROVE IInv'
<1>1. PICK r \in Existing :
          update' = [update EXCEPT !.pc = "ending", !.row = r, !.object = rows[r]]
    BY DEF EndUpdate
<1>2. /\ TypeOK' /\ update.pc = "replaced" /\ update'.pc = "ending"
      /\ update'.pulled = update.pulled /\ update'.row = r /\ update'.object = rows[r]
      /\ r \in RowIds /\ rows[r].exists
    BY <1>1, Facts, TypeStep DEF Next, EndUpdate, TypeOK, Existing
<1>3. NothingAhead'
    BY <1>2, Facts DEF EndUpdate, NothingAhead
<1>4. LookupIsNew'
    BY <1>2, Facts, AnswerStands DEF EndUpdate, LookupIsNew, UnderWay
<1>5. OverlapIsKnown'
    BY <1>2, Facts DEF EndUpdate, OverlapIsKnown, UnderWay
<1>6. FlagHeld'
    BY <1>2, Facts DEF EndUpdate, FlagHeld, OneRow, Existing, HasRead, Rows
<1> QED
    BY <1>2, <1>3, <1>4, <1>5, <1>6, Facts, UpdateMoves DEF EndUpdate

LEMMA SelectPatchInv == ASSUME IInv, SelectPatch PROVE IInv'
<1>1. PICK r \in RowIds \cup {0}, object \in Rows :
          Selects(r, object) /\ patch' = [pc |-> "commit", row |-> r, object |-> object]
    BY Facts, SelectsTyped DEF SelectPatch
<1>2. IF r = 0 THEN object = NoRow /\ Existing = {} ELSE rows[r].exists /\ object = rows[r]
    BY <1>1, SelectsRow
<1>3. TypeOK'
    BY TypeStep DEF Next
<1>4. UNCHANGED <<served, ask, image, rows, check, update, setting, history>>
    BY DEF SelectPatch
<1>5. ReadIsKept'
    BY <1>1, <1>2, <1>4, Facts DEF ReadIsKept, HasRead
<1>6. FoundIsServed' /\ PatchKept' /\ ReportedOnce' /\ NothingAhead' /\ LookupIsNew'
    BY <1>4, Facts, AnswerStands DEF FoundIsServed, PatchKept, ReportedOnce, NothingAhead, LookupIsNew,
       OneRow, Existing, UnderWay
<1>7. OverlapIsKnown' /\ NothingBeforeRows' /\ FlagHeld' /\ ReportsHeld'
    BY <1>4, Facts DEF OverlapIsKnown, NothingBeforeRows, FlagHeld, ReportsHeld,
       OneRow, Existing, UnderWay, HasRead
<1> QED
    BY <1>3, <1>5, <1>6, <1>7 DEF IInv

-----------------------------------------------------------------------------
(* The steps that write a row.                                             *)

(* A row that is written stays, and if it is the only one, all there is.   *)
LEMMA FlushedAlone ==
    ASSUME TypeOK, NEW r \in RowIds, rows[r].exists, NEW object \in Rows, NEW changed \in Rows,
           Flushed(r, object, changed)
    PROVE  /\ Existing' = Existing /\ OneRow' = OneRow /\ r \in Existing
           /\ OneRow => \A q \in Existing : q = r
<1>1. Existing' = Existing
    BY FlushedRow DEF Existing
<1> QED
    BY <1>1 DEF OneRow, Existing

(* A new row that is the only one is the first.                            *)
LEMMA InsertedAlone ==
    ASSUME TypeOK, NEW object \in Rows, Inserted(object)
    PROVE  \E r \in RowIds \ Existing :
             /\ \A q \in RowIds : q # r => rows'[q] = rows[q]
             /\ rows'[r].exists /\ rows'[r].update = object.update
             /\ rows'[r].remote = object.remote /\ rows'[r].setting = object.setting
             /\ r \in Existing'
             /\ OneRow' => OneRow /\ Existing = {} /\ \A q \in Existing' : q = r
<1>1. PICK r \in RowIds \ Existing :
        /\ \A q \in RowIds : q # r => rows'[q] = rows[q]
        /\ rows'[r].exists /\ rows'[r].update = object.update
        /\ rows'[r].remote = object.remote /\ rows'[r].setting = object.setting
    BY InsertedRow
<1>2. r \in Existing'
    BY <1>1 DEF Existing
<1>3. \A q \in Existing : q \in Existing' /\ q # r
    BY <1>1 DEF Existing
<1>4. OneRow' => Existing = {} /\ \A q \in Existing' : q = r
    BY <1>2, <1>3 DEF OneRow
<1>5. Existing = {} => OneRow
    BY DEF OneRow
<1> QED
    BY <1>1, <1>2, <1>4, <1>5

LEMMA CommitUpdateInv == ASSUME IInv, CommitUpdate PROVE IInv'
<1> DEFINE r == update.row
<1>1. /\ TypeOK /\ TypeOK' /\ update.pc = "ending" /\ r \in RowIds /\ rows[r].exists
      /\ update'.pc = "idle" /\ update'.pulled = update.pulled
    BY Facts, TypeStep DEF Next, CommitUpdate, NoMoreUpdate, NoUpdate, ReadIsKept
<1>2. /\ [update.object EXCEPT !.update = FALSE] \in Rows
      /\ Flushed(r, update.object, [update.object EXCEPT !.update = FALSE])
    BY Facts DEF CommitUpdate, Rows
<1>3. /\ \A q \in RowIds : q # r => rows'[q] = rows[q]
      /\ rows'[r].exists = rows[r].exists /\ rows'[r].remote = rows[r].remote
      /\ rows'[r].setting = rows[r].setting
      /\ rows'[r].update => rows[r].update /\ ~update.object.update
    <2> DEFINE changed == [update.object EXCEPT !.update = FALSE]
    <2>1. /\ changed.remote = update.object.remote /\ changed.setting = update.object.setting
          /\ changed.exists = update.object.exists /\ changed.update = FALSE
        BY Facts DEF Rows
    <2>2. update.object \in Rows /\ changed \in Rows /\ Flushed(r, update.object, changed)
        BY <1>2, Facts
    <2> HIDE DEF changed, r
    <2>3. /\ \A q \in RowIds : q # r => rows'[q] = rows[q]
          /\ rows'[r].exists = rows[r].exists /\ rows'[r].remote = rows[r].remote
          /\ rows'[r].setting = rows[r].setting
        BY <1>1, <2>1, <2>2, FlushedRow
    <2>4. rows'[r].update = IF changed.update # update.object.update THEN changed.update
                                                                    ELSE rows[r].update
        BY <1>1, <2>2, FlushedRow
    <2>5. rows'[r].update => rows[r].update /\ ~update.object.update
        BY <2>1, <2>2, <2>4 DEF Rows
    <2> QED
        BY <2>3, <2>5
<1>4. /\ Existing' = Existing /\ OneRow' = OneRow /\ r \in Existing
      /\ OneRow => \A q \in Existing : q = r
    BY <1>1, <1>2, Facts, FlushedAlone
<1>5. \A q \in RowIds :
          /\ rows'[q].exists = rows[q].exists /\ rows'[q].remote = rows[q].remote
          /\ rows'[q].setting = rows[q].setting
          /\ rows'[q].update => rows[q].update
    <2> TAKE q \in RowIds
    <2>1. CASE q = r
        BY <2>1, <1>3
    <2>2. CASE q # r
        BY <2>2, <1>3
    <2> QED
        BY <2>1, <2>2
<1>6. UNCHANGED <<served, ask, image, check, patch, setting, seen, crossed, failures, reported>>
    BY DEF CommitUpdate
<1>7. FoundIsServed' /\ PatchKept' /\ ReportedOnce' /\ NothingAhead' /\ LookupIsNew'
    BY <1>1, <1>4, <1>5, <1>6, Facts, AnswerStands
       DEF FoundIsServed, PatchKept, ReportedOnce, NothingAhead, LookupIsNew, Existing, UnderWay
<1>8. ReadIsKept' /\ OverlapIsKnown' /\ NothingBeforeRows'
    BY <1>1, <1>4, <1>5, <1>6, Facts
       DEF ReadIsKept, OverlapIsKnown, NothingBeforeRows, Existing, UnderWay, HasRead
<1>9. ReportsHeld'
    BY <1>4, <1>5, <1>6, Facts DEF ReportsHeld, Existing, HasRead
<1>10. FlagHeld'
    <2> SUFFICES ASSUME OneRow PROVE FlagHeld'
        BY <1>4 DEF FlagHeld
    <2>1. ASSUME ~crossed, seen # None, NEW q \in Existing
          PROVE  ~rows'[q].update /\ ~(seen > image)
        <3>1. q = r /\ ~rows'[r].update
            BY <1>1, <1>3, <1>4, <2>1, Facts DEF FlagHeld
        <3>2. seen <= image
            BY <1>1, <2>1, Facts DEF FlagHeld, NothingAhead
        <3> QED
            BY <3>1, <3>2, <1>1, Facts DEF Rows, TypeOK
    <2>2. HasRead => check.overlaps
        BY <1>1, Facts DEF OverlapIsKnown, UnderWay, HasRead
    <2>3. image = update.pulled
        BY <1>1, Facts DEF NothingAhead
    <2> QED
        BY <1>1, <1>4, <1>6, <2>1, <2>2, <2>3 DEF FlagHeld, HasRead
<1> QED
    BY <1>1, <1>7, <1>8, <1>9, <1>10 DEF IInv

LEMMA CommitPatchInv == ASSUME IInv, CommitPatch PROVE IInv'
<1> DEFINE r == patch.row
<1>1. PICK s \in Settings :
          Commits(r, patch.object, [patch.object EXCEPT !.setting = s]) /\ setting' = s
    BY DEF CommitPatch
<1> DEFINE changed == [patch.object EXCEPT !.setting = s]
<1>2. /\ TypeOK /\ TypeOK' /\ patch'.pc = "idle"
      /\ r = 0 => patch.object = NoRow
      /\ r # 0 => /\ r \in RowIds /\ rows[r].exists
                  /\ patch.object.setting = rows[r].setting
    BY Facts, TypeStep DEF Next, CommitPatch, Idle, ReadIsKept
<1>3. /\ changed \in Rows /\ changed.setting = s
      /\ changed.update = patch.object.update /\ changed.remote = patch.object.remote
    BY Facts DEF Rows
<1>4. UNCHANGED <<served, ask, image, check, update, seen, crossed, unrecorded, failures,
                  reported>>
    BY DEF CommitPatch
<1>5. Commits(r, patch.object, changed) /\ setting' = s
    BY <1>1
<1> HIDE DEF r, changed
<1>6. CASE r # 0
    <2>1. Flushed(r, patch.object, changed) /\ r \in RowIds /\ patch.object \in Rows
        BY <1>2, <1>5, <1>6, Facts DEF Commits
    <2>2. /\ \A q \in RowIds : q # r => rows'[q] = rows[q]
          /\ rows'[r].exists /\ rows'[r].remote = rows[r].remote
          /\ rows'[r].update = rows[r].update
          /\ rows'[r].setting = s
        BY <2>1, <1>2, <1>3, <1>6, FlushedRow
    <2>3. /\ Existing' = Existing /\ OneRow' = OneRow
          /\ OneRow => \A q \in Existing : q = r
        BY <2>1, <1>2, <1>3, <1>6, FlushedAlone
    <2>4. Existing # {} /\ \A q \in RowIds :
              /\ rows'[q].exists = rows[q].exists /\ rows'[q].remote = rows[q].remote
              /\ rows'[q].update = rows[q].update
        <3>1. Existing # {} /\ rows'[r].exists = rows[r].exists
            BY <1>2, <1>6, <2>2 DEF Existing
        <3> QED
            BY <2>2, <3>1
    <2>5. FoundIsServed' /\ PatchKept' /\ ReportedOnce' /\ NothingAhead' /\ LookupIsNew'
        BY <1>4, <1>5, <2>2, <2>3, <2>4, Facts, AnswerStands
           DEF FoundIsServed, PatchKept, ReportedOnce, NothingAhead, LookupIsNew, Existing, UnderWay
    <2>6. ReadIsKept' /\ OverlapIsKnown' /\ NothingBeforeRows'
        BY <1>2, <1>4, <2>3, <2>4, Facts
           DEF ReadIsKept, OverlapIsKnown, NothingBeforeRows, Existing, UnderWay, HasRead
    <2>7. FlagHeld'
        BY <1>4, <2>3, <2>4, Facts DEF FlagHeld, Existing, HasRead, ReadIsKept
    <2>8. ReportsHeld'
        BY <1>4, <2>3, <2>4, Facts DEF ReportsHeld, Existing, HasRead
    <2> QED
        BY <1>2, <2>5, <2>6, <2>7, <2>8 DEF IInv
<1>7. CASE r = 0
    <2>1. Inserted(changed) /\ ~changed.update /\ changed.remote = None
        BY <1>2, <1>3, <1>5, <1>7, NothingTyped DEF Commits
    <2>2. PICK n \in RowIds \ Existing :
             /\ \A q \in RowIds : q # n => rows'[q] = rows[q]
             /\ rows'[n].exists /\ ~rows'[n].update
             /\ rows'[n].remote = None /\ rows'[n].setting = s
             /\ n \in Existing'
             /\ OneRow' => OneRow /\ Existing = {} /\ \A q \in Existing' : q = n
        BY <2>1, <1>2, <1>3, InsertedAlone
    <2>3. \A q \in RowIds : rows[q].exists => rows'[q] = rows[q]
        BY <2>2 DEF Existing
    <2>4. FoundIsServed' /\ PatchKept' /\ ReportedOnce' /\ NothingAhead' /\ LookupIsNew'
        BY <1>4, <1>5, <2>2, Facts, AnswerStands
           DEF FoundIsServed, PatchKept, ReportedOnce, NothingAhead, LookupIsNew, UnderWay
    <2>5. ReadIsKept' /\ OverlapIsKnown'
        BY <1>2, <1>4, <2>3, Facts DEF ReadIsKept, OverlapIsKnown, UnderWay, HasRead
    <2>6. NothingBeforeRows'
        BY <1>4, <2>2, Facts DEF NothingBeforeRows, Existing, HasRead
    <2>7. OneRow' => (seen = None /\ Existing = {} /\ check.row = 0) \/ ~HasRead
        BY <2>2, Facts DEF NothingBeforeRows, ReadIsKept, Existing
    <2>8. FlagHeld'
        BY <1>4, <2>2, <2>7, Facts DEF FlagHeld, HasRead, NothingBeforeRows
    <2>9. ReportsHeld'
        BY <1>4, <2>2, Facts DEF ReportsHeld, HasRead
    <2> QED
        BY <1>2, <2>4, <2>5, <2>6, <2>8, <2>9 DEF IInv
<1> QED
    BY <1>6, <1>7

(* What a check writes.  Without a digest the flag stays as the check has  *)
(* read it; with one it is set exactly if the digest is another than that  *)
(* of the image the check was given.                                       *)
LEMMA CheckedValues ==
    ASSUME IInv, check.pc = "commit"
    PROVE  /\ ask.found = None => Checked.update = check.object.update
           /\ ask.found # None => /\ Checked.update = (ask.found # check.local)
                                  /\ ask.found <= served /\ seen <= ask.found
                                  /\ check.local <= ask.found
<1>1. /\ Checked.update = Flag /\ check.object.update \in BOOLEAN
      /\ check.verdict \in {"none", "unknown", "not_available", "available",
                            "available(notified)"}
    BY CheckedTyped, Facts DEF TypeOK, CheckRecords, Rows
<1>2. check.local # None
    BY Facts DEF LookupIsNew, UnderWay
<1> QED
    BY <1>1, <1>2, Facts DEF LookupIsNew, Flag

(* The facts of a commit that do not depend on the row being the only one. *)
LEMMA CommitCheckFacts ==
    ASSUME IInv, CommitCheck
    PROVE  /\ TypeOK /\ TypeOK' /\ check.pc = "commit" /\ HasRead /\ UnderWay
           /\ ~HasRead' /\ ~UnderWay' /\ check'.pc # "lookup" /\ check'.pc # "commit"
           /\ UNCHANGED <<served, insecure, ask, image, update, patch, setting>>
           /\ seen' = IF ask.found = None THEN seen ELSE ask.found
           /\ seen <= seen' /\ ask.found <= seen'
           /\ failures' = IF ask.found = None THEN failures + 1 ELSE failures
           /\ Commits(check.row, check.object, Checked) /\ Checked \in Rows
           /\ Reports
           /\ check.row = 0 => check.object = NoRow
           /\ check.row # 0 => /\ check.row \in RowIds /\ rows[check.row].exists
                               /\ check.object.remote = rows[check.row].remote
                               /\ rows[check.row].update => check.object.update
<1>1. /\ TypeOK /\ TypeOK' /\ check.pc = "commit" /\ Checked \in Rows
    BY Facts, TypeStep, CheckedTyped DEF Next, CommitCheck
<1>2. check'.pc \in {"idle", "notify"}
    BY DEF CommitCheck, EndCheck, NoCheck
<1>3. HasRead /\ UnderWay
    BY <1>1 DEF HasRead, UnderWay
<1>4. ~HasRead' /\ ~UnderWay'
    BY <1>2 DEF HasRead, UnderWay
<1>5. seen' = (IF ask.found = None THEN seen ELSE ask.found) /\ seen <= seen' /\ ask.found <= seen'
    BY <1>1, Facts, CheckedValues DEF CommitCheck
<1> QED
    BY <1>1, <1>2, <1>3, <1>4, <1>5, Facts DEF CommitCheck, EndCheck, ReadIsKept

LEMMA CheckInserts ==
    ASSUME IInv, CommitCheck, check.row = 0
    PROVE  \E n \in RowIds \ Existing :
             /\ \A q \in RowIds : q # n => rows'[q] = rows[q]
             /\ rows'[n].exists /\ rows'[n].update = Checked.update
             /\ rows'[n].remote = ask.found /\ rows'[n].setting = Default
             /\ n \in Existing'
             /\ OneRow' => OneRow /\ Existing = {} /\ \A q \in Existing' : q = n
<1>1. Inserted(Checked) /\ TypeOK /\ Checked \in Rows
    BY CommitCheckFacts DEF Commits
<1>2. Checked.remote = ask.found /\ Checked.setting = Default
    BY CommitCheckFacts, CheckedTyped, NothingTyped
<1> QED
    BY <1>1, <1>2, InsertedAlone

LEMMA CheckFlushes ==
    ASSUME IInv, CommitCheck, check.row # 0
    PROVE  /\ \A q \in RowIds : q # check.row => rows'[q] = rows[q]
           /\ rows'[check.row].exists = rows[check.row].exists
           /\ rows'[check.row].remote = ask.found
           /\ rows'[check.row].setting = rows[check.row].setting
           /\ rows'[check.row].update = IF Checked.update # check.object.update
                                        THEN Checked.update ELSE rows[check.row].update
           /\ Existing' = Existing /\ OneRow' = OneRow /\ check.row \in Existing
           /\ OneRow => \A q \in Existing : q = check.row
<1>1. /\ Flushed(check.row, check.object, Checked) /\ TypeOK /\ Checked \in Rows
      /\ check.row \in RowIds /\ check.object \in Rows /\ rows[check.row].exists
      /\ check.object.remote = rows[check.row].remote
    BY Facts, CommitCheckFacts DEF Commits
<1>2. Checked.remote = ask.found /\ Checked.setting = check.object.setting
    BY <1>1, CheckedTyped
<1>3. /\ \A q \in RowIds : q # check.row => rows'[q] = rows[q]
      /\ rows'[check.row].exists = rows[check.row].exists
      /\ rows'[check.row].remote = ask.found
      /\ rows'[check.row].setting = rows[check.row].setting
      /\ rows'[check.row].update = IF Checked.update # check.object.update
                                   THEN Checked.update ELSE rows[check.row].update
    <2> DEFINE r == check.row
               changed == Checked
    <2>1. /\ \A q \in RowIds : q # r => rows'[q] = rows[q]
          /\ rows'[r].exists = rows[r].exists
          /\ rows'[r].update = IF changed.update # check.object.update
                               THEN changed.update ELSE rows[r].update
        BY <1>1, FlushedRow
    <2>2. /\ rows'[r].remote = IF changed.remote # check.object.remote
                               THEN changed.remote ELSE rows[r].remote
          /\ rows'[r].setting = IF changed.setting # check.object.setting
                                THEN changed.setting ELSE rows[r].setting
        BY <1>1, FlushedRow
    <2>3. rows'[r].remote = ask.found /\ rows'[r].setting = rows[r].setting
        BY <1>1, <1>2, <2>2
    <2> QED
        BY <2>1, <2>3
<1>4. /\ Existing' = Existing /\ OneRow' = OneRow /\ check.row \in Existing
      /\ OneRow => \A q \in Existing : q = check.row
    BY <1>1, FlushedAlone
<1> QED
    BY <1>3, <1>4

(* What holds of every row after the commit.                               *)
LEMMA CheckedRows ==
    ASSUME IInv, CommitCheck
    PROVE  /\ \A q \in RowIds : rows[q].exists => /\ rows'[q].exists
                                                  /\ rows'[q].setting = rows[q].setting
           /\ \A q \in RowIds : rows'[q].remote <= seen'
           /\ Existing' # {}
           /\ OneRow' => OneRow /\ \A q \in Existing' : rows'[q].remote = ask.found
<1>1. /\ seen <= seen' /\ ask.found <= seen' /\ seen \in Nat /\ seen' \in Nat
      /\ \A q \in RowIds : rows[q].remote <= seen /\ rows[q].remote \in Nat
    BY Facts, CommitCheckFacts DEF NothingAhead, Rows, Remotes
<1>2. CASE check.row = 0
    <2>1. PICK n \in RowIds \ Existing :
             /\ \A q \in RowIds : q # n => rows'[q] = rows[q]
             /\ rows'[n].exists /\ rows'[n].remote = ask.found
             /\ n \in Existing'
             /\ OneRow' => OneRow /\ \A q \in Existing' : q = n
        BY <1>2, CheckInserts
    <2>2. \A q \in RowIds : rows[q].exists => q # n
        BY DEF Existing
    <2> QED
        BY <1>1, <2>1, <2>2
<1>3. CASE check.row # 0
    BY <1>1, <1>3, CheckFlushes
<1> QED
    BY <1>2, <1>3

LEMMA CommitCheckReports == ASSUME IInv, CommitCheck PROVE ReportedOnce' /\ ReportsHeld'
<1> SUFFICES ASSUME OneRow' PROVE ReportedOnce' /\ ReportsHeld'
    BY DEF ReportedOnce, ReportsHeld
<1> DEFINE d == ask.found
<1>1. /\ OneRow /\ check.pc = "commit" /\ HasRead /\ ~HasRead' /\ check'.pc # "commit"
      /\ reported \in [Digests -> Nat] /\ failures \in Nat /\ d \in Nat
      /\ failures' = IF d = None THEN failures + 1 ELSE failures
      /\ seen \in Nat /\ seen' \in Nat /\ seen <= seen' /\ (d # None => seen' = d)
      /\ d = None => check.verdict # "available"
      /\ Digests \subseteq Nat
      /\ \A q \in Existing' : rows'[q].remote = d
      /\ Existing' # {}
    BY Facts, CommitCheckFacts, CheckedRows, DigestsAreRemotes DEF TypeOK, LookupIsNew
<1>2. \A e \in Digests : reported'[e] = IF check.verdict = "available" /\ e = d
                                        THEN reported[e] + 1 ELSE reported[e]
    BY ReportsCount, CommitCheckFacts
<1>3. \A e \in Digests : reported[e] <= 1 + failures
    BY <1>1, Facts DEF ReportedOnce
<1>4. \A e \in Digests : reported[e] <= failures \/ e < seen
                            \/ (\E q \in Existing : rows[q].remote = e)
    BY <1>1, Facts DEF ReportsHeld
<1>5. \A q \in Existing : rows[q].remote <= seen /\ rows[q].remote \in Nat
    BY Facts DEF NothingAhead, Existing, Rows, Remotes
(* What is available was not in the row, so it was not reported before, or *)
(* a failure makes up for it.                                              *)
<1>6. check.verdict = "available" => \A q \in Existing : rows[q].remote # d
    <2> SUFFICES ASSUME check.verdict = "available", NEW q \in Existing
                 PROVE  rows[q].remote # d
        OBVIOUS
    <2>1. check.object.remote # d
        BY <1>1, Facts DEF ReportsHeld
    <2>2. CASE check.row = 0
        BY <1>1, <2>2, Facts DEF ReportsHeld
    <2>3. CASE check.row # 0
        BY <1>1, <2>1, <2>3, CheckFlushes, CommitCheckFacts
    <2> QED
        BY <2>2, <2>3
<1>7. check.verdict = "available" => d # None /\ seen <= d
    BY <1>1
<1>8. ASSUME NEW e \in Digests PROVE reported'[e] <= 1 + failures'
    BY <1>1, <1>2, <1>3, <1>4, <1>6, <1>7
<1>9. ASSUME NEW e \in Digests
      PROVE  reported'[e] <= failures' \/ e < seen' \/ (\E q \in Existing' : rows'[q].remote = e)
    <2>1. CASE d = None
        BY <1>1, <1>2, <1>3, <2>1
    <2>2. CASE d # None /\ e = d
        BY <1>1, <2>2
    <2>3. CASE d # None /\ e # d
        BY <1>1, <1>2, <1>4, <1>5, <2>3
    <2> QED
        BY <2>1, <2>2, <2>3
<1> QED
    BY <1>1, <1>8, <1>9 DEF ReportedOnce, ReportsHeld

(* The flag after a commit.                                                *)
LEMMA CommitCheckFlag == ASSUME IInv, CommitCheck PROVE FlagHeld'
<1> SUFFICES ASSUME OneRow' PROVE FlagHeld'
    BY DEF FlagHeld
<1> DEFINE d == ask.found
           u == check.object.update
           r == check.row
           v == rows[r].update
           w == rows'[r].update
<1>1. /\ OneRow /\ HasRead /\ UnderWay /\ ~HasRead' /\ Existing' # {}
      /\ UNCHANGED <<image, update>>
      /\ seen' = IF d = None THEN seen ELSE d
      /\ crossed' = IF d = None THEN crossed
                    ELSE \/ image # check.local /\ (crossed \/ ~u)
                         \/ check.overlaps /\ d > update.pulled
      /\ unrecorded' = (unrecorded /\ (d = None \/ image # check.local))
    BY CommitCheckFacts, CheckedRows DEF CommitCheck
<1>2. /\ None = 0 /\ d \in Nat /\ seen \in Nat /\ image \in Nat /\ check.local \in Nat
      /\ update.pulled \in Nat /\ u \in BOOLEAN /\ Checked.update \in BOOLEAN
      /\ update.object.update \in BOOLEAN
    BY Facts, CheckedTyped DEF Rows
<1>3. /\ d = None => Checked.update = u
      /\ d # None => /\ Checked.update = (d # check.local) /\ seen <= d /\ check.local <= d
    BY CommitCheckFacts, CheckedValues
<1>4. check.local <= image
    BY <1>1, Facts DEF LookupIsNew
<1>5. /\ update.pc # "idle" => image <= update.pulled
      /\ update.pc \in {"replaced", "ending"} => image = update.pulled
    BY Facts DEF NothingAhead
<1>6. update.pc # "idle" \/ image # check.local => check.overlaps
    BY <1>1, Facts DEF OverlapIsKnown
<1>7. seen = None => ~u
    BY <1>1, Facts DEF NothingBeforeRows
<1>8. update.pc # "idle" /\ ~crossed => seen <= update.pulled
    BY <1>1, Facts DEF FlagHeld
<1>9. /\ \A q \in Existing : rows[q].update \in BOOLEAN
      /\ r \in Existing => v \in BOOLEAN
    BY Facts DEF Existing, Rows
(* What an update has not pulled, it is excused for.                       *)
<1>10. update.pc # "idle" /\ ~crossed' => seen' <= update.pulled
    BY <1>1, <1>2, <1>6, <1>8
<1>11. CASE r = 0
    <2>1. /\ Existing = {} /\ ~u
          /\ \A q \in Existing' : rows'[q].update = Checked.update
        BY <1>1, <1>11, CheckInserts, CommitCheckFacts, NothingTyped
    <2>2. seen = None
        BY <2>1, Facts DEF NothingBeforeRows
    <2>3. ASSUME ~crossed', seen' # None, NEW q \in Existing'
          PROVE  rows'[q].update = (seen' > image)
        <3>1. d # None /\ image = check.local
            BY <1>1, <2>1, <2>2, <2>3
        <3> QED
            BY <1>1, <1>2, <1>3, <2>1, <2>3, <3>1
    <2>4. update.pc # "ending"
        BY <2>1, Facts DEF ReadIsKept, Existing
    <2> QED
        BY <1>1, <1>10, <2>3, <2>4 DEF FlagHeld
<1>12. CASE r # 0
    <2>1. /\ Existing' = Existing /\ r \in Existing /\ v \in BOOLEAN
          /\ \A q \in Existing' : q = r
          /\ w = IF Checked.update # u THEN Checked.update ELSE v
          /\ v => u
        BY <1>1, <1>9, <1>12, CheckFlushes, CommitCheckFacts
    <2>2. u /\ ~v => check.overlaps /\ update.pc = "idle" /\ image = update.pulled
        BY <1>1, <1>12, Facts DEF FlagHeld
    <2>3. update.pc \in {"idle", "pulled"} /\ ~crossed /\ seen # None =>
              (seen > image => v) /\ (v /\ ~unrecorded => seen > image)
        BY <1>1, <2>1, Facts DEF FlagHeld
    <2>4. update.pc = "ending" => update.row = r
        BY <2>1, Facts DEF ReadIsKept, Existing
    <2>5. update.pc = "ending" /\ ~crossed /\ seen # None => update.object.update \/ ~v
        BY <1>1, <2>4, Facts DEF FlagHeld
    <2> HIDE DEF d, u, r, v, w
    <2>6. ASSUME d = None PROVE w = v
        BY <1>2, <1>3, <2>1, <2>6
    <2>7. ASSUME d # None, ~crossed', image = check.local
          PROVE  update.pc # "idle" \/ ~(u /\ ~v) => w = (d > image)
        BY <1>1, <1>2, <1>3, <1>4, <2>1, <2>2, <2>7
    <2>8. ASSUME d # None, ~crossed', image = check.local, u, ~v
          PROVE  w = (d > image)
        <3>1. check.overlaps /\ image = update.pulled
            BY <2>2, <2>8
        <3>2. d <= image
            BY <1>1, <1>2, <2>8, <3>1
        <3>3. d = check.local /\ (d > image) = FALSE
            BY <1>2, <1>3, <2>8, <3>2
        <3>4. Checked.update = FALSE
            BY <1>3, <2>8, <3>3
        <3>5. w = FALSE
            BY <2>1, <2>8, <3>4
        <3> QED
            BY <1>2, <3>3, <3>5
    <2>9. ASSUME d # None, ~crossed', image # check.local,
                 update.pc \in {"idle", "pulled"}
          PROVE  (d > image => w) /\ (w /\ ~unrecorded => d > image)
        <3>1. ~crossed /\ u /\ check.overlaps /\ d <= update.pulled /\ seen # None
            BY <1>1, <1>2, <1>6, <1>7, <2>9
        <3>2. CASE d = check.local
            <4>1. Checked.update = FALSE /\ ~(d > image)
                BY <1>2, <1>3, <1>4, <2>9, <3>2
            <4>2. ~w
                BY <2>1, <3>1, <4>1
            <4> QED
                BY <4>1, <4>2
        <3>3. CASE d # check.local
            <4>1. w = v
                BY <1>2, <1>3, <2>1, <2>9, <3>1, <3>3
            <4>2. CASE v
                <5>1. w
                    BY <4>1, <4>2
                <5>2. ~unrecorded => d > image
                    BY <1>2, <1>3, <2>3, <2>9, <3>1, <4>2
                <5> QED
                    BY <5>1, <5>2
            <4>3. CASE ~v
                <5>1. ~w
                    BY <2>1, <4>1, <4>3
                <5>2. ~(d > image)
                    BY <1>2, <2>2, <3>1, <4>3
                <5> QED
                    BY <5>1, <5>2
            <4> QED
                BY <4>2, <4>3
        <3> QED
            BY <3>2, <3>3
    <2>10. ASSUME update.pc = "ending", ~crossed', seen' # None
           PROVE  update.object.update \/ ~w
        <3>1. CASE d = None
            BY <1>1, <2>5, <2>6, <2>10, <3>1
        <3>2. CASE d # None /\ image = check.local
            <4>1. d = check.local
                BY <1>1, <1>2, <1>3, <1>5, <1>6, <2>10, <3>2
            <4>2. ~Checked.update
                BY <1>3, <3>2, <4>1
            <4> QED
                BY <1>2, <2>1, <4>2
        <3>3. CASE d # None /\ image # check.local
            <4>1. ~crossed /\ u /\ seen # None
                BY <1>1, <1>7, <2>10, <3>3
            <4>2. CASE Checked.update
                BY <1>2, <2>1, <2>5, <2>10, <4>1, <4>2
            <4>3. CASE ~Checked.update
                BY <1>2, <2>1, <4>1, <4>3
            <4> QED
                BY <4>2, <4>3
        <3> QED
            BY <3>1, <3>2, <3>3
    <2>11. ASSUME update.pc \in {"idle", "pulled"}, ~crossed', seen' # None
           PROVE  (seen' > image => w) /\ (w /\ ~unrecorded' => seen' > image)
        <3>1. CASE d = None
            <4>1. ~crossed /\ seen' = seen /\ seen # None
                BY <1>1, <2>11, <3>1
            <4>2. unrecorded => unrecorded'
                BY <1>1, <3>1
            <4>3. (seen > image => v) /\ (v /\ ~unrecorded => seen > image)
                BY <2>3, <2>11, <4>1
            <4>4. w = v
                BY <2>6, <3>1
            <4> QED
                BY <4>1, <4>2, <4>3, <4>4
        <3>2. CASE d # None /\ image = check.local
            <4>1. w = (d > image) /\ seen' = d
                BY <1>1, <2>7, <2>8, <2>11, <3>2
            <4> QED
                BY <4>1
        <3>3. CASE d # None /\ image # check.local
            BY <1>1, <2>9, <2>11, <3>3
        <3> QED
            BY <3>1, <3>2, <3>3
    <2>12. \A q \in Existing' : rows'[q].update = w
        BY <2>1 DEF r, w
    <2>13. update.pc = "ending" => rows'[update.row].update = w
        BY <2>4 DEF r, w
    <2> QED
        BY <1>1, <1>10, <2>10, <2>11, <2>12, <2>13 DEF FlagHeld
<1> QED
    BY <1>11, <1>12

LEMMA CommitCheckInv == ASSUME IInv, CommitCheck PROVE IInv'
<1>1. /\ TypeOK' /\ check.pc = "commit" /\ HasRead /\ UnderWay /\ ~HasRead' /\ ~UnderWay'
      /\ check'.pc # "lookup" /\ check'.pc # "commit"
      /\ UNCHANGED <<served, insecure, ask, image, update, patch, setting>>
      /\ seen' = IF ask.found = None THEN seen ELSE ask.found
    BY CommitCheckFacts
<1>2. /\ \A q \in RowIds : rows[q].exists => /\ rows'[q].exists
                                             /\ rows'[q].setting = rows[q].setting
      /\ \A q \in RowIds : rows'[q].remote <= seen'
      /\ Existing' # {}
    BY CheckedRows
<1>3. FoundIsServed' /\ LookupIsNew' /\ OverlapIsKnown'
    BY <1>1, Facts, AnswerStands DEF FoundIsServed, LookupIsNew, OverlapIsKnown
<1>4. NothingAhead'
    BY <1>1, <1>2, Facts, CheckedValues DEF NothingAhead
<1>5. ReadIsKept'
    BY <1>1, <1>2, Facts DEF ReadIsKept
<1>6. PatchKept'
    <2> SUFFICES ASSUME OneRow', NEW q \in Existing' PROVE rows'[q].setting = setting
        BY <1>1 DEF PatchKept
    <2>1. OneRow
        BY CheckedRows
    <2>2. CASE check.row = 0
        BY <2>2, CheckInserts, Facts DEF NothingBeforeRows
    <2>3. CASE check.row # 0
        BY <2>1, <2>3, CheckFlushes, Facts DEF PatchKept
    <2> QED
        BY <2>2, <2>3
<1>7. NothingBeforeRows'
    <2> SUFFICES ASSUME seen' = None, NEW q \in Existing' PROVE ~rows'[q].update
        BY <1>1, <1>2 DEF NothingBeforeRows
    <2>1. seen = None /\ ask.found = None
        BY <1>1
    <2>2. /\ ~Checked.update /\ ~check.object.update
          /\ \A p \in Existing : ~rows[p].update
        BY <1>1, <2>1, Facts, CheckedValues DEF NothingBeforeRows
    <2>3. CASE check.row = 0
        <3>1. PICK n \in RowIds \ Existing :
                /\ \A p \in RowIds : p # n => rows'[p] = rows[p]
                /\ rows'[n].update = Checked.update
            BY <2>3, CheckInserts
        <3> QED
            BY <2>2, <3>1 DEF Existing
    <2>4. CASE check.row # 0
        BY <2>2, <2>4, CheckFlushes DEF Existing
    <2> QED
        BY <2>3, <2>4
<1> QED
    BY <1>1, <1>3, <1>4, <1>5, <1>6, <1>7, CommitCheckReports, CommitCheckFlag DEF IInv

-----------------------------------------------------------------------------
LEMMA InitInv == ASSUME Init PROVE IInv
<1>1. /\ served \in Nat /\ None = 0 /\ image \in Nat /\ image # 0 /\ image <= served
      /\ image \in Remotes
    BY MaxDigestAssumption DEF Init, Digests, None, Remotes
<1>2. TypeOK
    BY <1>1, NothingTyped, DefaultAssumption, DigestsAreRemotes
       DEF Init, TypeOK, Updates, Patches
<1>3. /\ Existing = {} /\ ~HasRead /\ ~UnderWay /\ check.pc = "idle" /\ update.pc = "idle"
      /\ patch.pc = "idle" /\ ask.pc = "off" /\ ask.since = None /\ update.pulled = None
      /\ \A r \in RowIds : rows[r].remote = None
    BY NothingTyped
       DEF Init, Existing, HasRead, UnderWay, NoCheck, NoUpdate, Idle, NoLookup, NoRow
<1>4. FoundIsServed /\ PatchKept /\ ReportedOnce
    BY <1>3 DEF FoundIsServed, PatchKept, ReportedOnce, Init
<1>5. NothingAhead /\ LookupIsNew /\ ReadIsKept /\ OverlapIsKnown
    BY <1>1, <1>3 DEF NothingAhead, LookupIsNew, AnswerIsNew, Asking, ReadIsKept, OverlapIsKnown, Init
<1>6. NothingBeforeRows /\ FlagHeld /\ ReportsHeld
    BY <1>1, <1>3 DEF NothingBeforeRows, FlagHeld, ReportsHeld, Init
<1> QED
    BY <1>2, <1>4, <1>5, <1>6 DEF IInv

LEMMA StepInv == ASSUME IInv, [Next]_vars PROVE IInv'
<1>1. CASE UNCHANGED vars
    <2>1. TypeOK'
        BY TypeStep
    <2>2. FoundIsServed' /\ AnswerIsNew' /\ LookupIsNew' /\ NothingAhead' /\ OverlapIsKnown'
        BY <1>1, Facts, AnswerStands
           DEF vars, FoundIsServed, LookupIsNew, NothingAhead, OverlapIsKnown, UnderWay
    <2>3. /\ PatchKept' /\ ReportedOnce' /\ ReadIsKept' /\ NothingBeforeRows' /\ FlagHeld'
          /\ ReportsHeld'
        BY <1>1, Facts
           DEF vars, PatchKept, ReportedOnce, ReadIsKept, NothingBeforeRows, FlagHeld, ReportsHeld,
               OneRow, Existing, HasRead
    <2> QED
        BY <2>1, <2>2, <2>3 DEF IInv
<1>2. CASE Next
    BY <1>2, PublishInv, StartCheckInv, GiveUpInv, ReadRowInv, LookInv, LookupInv, JudgeInv,
       CommitCheckInv, CommitFailsInv, NotifyInv, StartUpdateInv, ReplaceInv, EndUpdateInv,
       NotReplacedInv, CommitUpdateInv, NotRecordedInv, CrashInv, SelectPatchInv,
       CommitPatchInv DEF Next
<1> QED
    BY <1>1, <1>2

(* The parts of the invariant hold whatever checks, updates and patches of *)
(* a container interleave in their sessions.                               *)
THEOREM InductiveInvariant == Spec => []IInv
<1>1. Init => IInv
    BY InitInv
<1>2. IInv /\ [Next]_vars => IInv'
    BY StepInv
<1> QED
    BY <1>1, <1>2, PTL DEF Spec

(* FoundIsServed, of every number of local digests and of published        *)
(* images: what a lookup (get_image_remote_digest) finds was served since  *)
(* it began.  The request always names the digest that the code will take  *)
(* "not modified" for (LookupIsNew), whatever call, scheme or challenge it *)
(* belongs to.                                                             *)
THEOREM LookupsFindWhatIsServed == Spec => []FoundIsServed
<1>1. IInv => FoundIsServed
    BY DEF IInv
<1> QED
    BY <1>1, InductiveInvariant, PTL

(* PatchKept: neither a check nor the end of an update that has read the   *)
(* row before a patch of its settings takes the patch back.                *)
THEOREM SettingsStay == Spec => []PatchKept
<1>1. IInv => PatchKept
    BY DEF IInv
<1> QED
    BY <1>1, InductiveInvariant, PTL

(* ReportedOnce: one digest is reported as "available" at most once more   *)
(* than there were lookups that found nothing and reports whose commit     *)
(* failed.                                                                 *)
THEOREM NewImagesAreReportedOnce == Spec => []ReportedOnce
<1>1. IInv => ReportedOnce
    BY DEF IInv
<1> QED
    BY <1>1, InductiveInvariant, PTL

(* VerdictStands: between checks and updates, and after failed writes and  *)
(* crashes, the flag of a container that has one row is set if the newest  *)
(* lookup found more than the image that runs, and only then, unless a     *)
(* check and an update have crossed, or an update that brought the image   *)
(* was not recorded; each until the next check that finds a digest.        *)
THEOREM FlagSaysWhatIsKnown == Spec => []VerdictStands
<1>1. IInv => VerdictStands
    BY DEF IInv, FlagHeld, VerdictStands
<1> QED
    BY <1>1, InductiveInvariant, PTL

-----------------------------------------------------------------------------
(* Words, networks and labels.                                             *)

LEMMA WordsMove ==
    ASSUME NEW e \in Seq(STRING), NEW c \in Seq(STRING), e # <<>>
    PROVE  /\ <<Head(e)>> \in Seq(STRING) /\ Tail(e) \o c \in Seq(STRING)
           /\ <<Head(e)>> # <<>>
           /\ <<Head(e)>> \o (Tail(e) \o c) = e \o c
OBVIOUS

LEMMA NothingIsASeq == <<>> \in Seq(STRING)
OBVIOUS

LEMMA NothingAround ==
    ASSUME NEW e \in Seq(STRING)
    PROVE  <<>> \o e = e /\ e \o <<>> = e
OBVIOUS

LEMMA FirstIsOne ==
    ASSUME NEW nets, nets \subseteq Range(Networks), nets # {}
    PROVE  First(nets) \in nets
<1> DEFINE places == {i \in DOMAIN Networks : Networks[i] \in nets}
<1>1. /\ DOMAIN Networks \subseteq Nat
      /\ places # {} /\ places \subseteq Nat
    BY ConfigAssumption DEF Range
<1>2. \E i \in places : \A j \in places : ~(<<j, i>> \in OpToRel(<, Nat))
    <2> HIDE DEF places
    <2> QED
        BY <1>1, NatLessThanWellFounded, WFMin
<1>3. PICK i \in places : \A j \in places : ~(<<j, i>> \in OpToRel(<, Nat))
    BY <1>2
<1>4. \A j \in places : ~(j < i)
    BY <1>1, <1>3 DEF OpToRel
<1>5. \A j \in places : i <= j
    <2> HIDE DEF places
    <2> QED
        BY <1>1, <1>4
<1> QED
    BY <1>5 DEF First

(* The main network is one of the container's, if it has any, and that of  *)
(* the mode if that is one of them.                                        *)
LEMMA MainIsOne ==
    ASSUME ConfigTypeOK, DOMAIN container.nets # {}
    PROVE  MainOf(container) \in DOMAIN container.nets
BY FirstIsOne DEF MainOf, ConfigTypeOK

LEMMA MergeTyped ==
    ASSUME NEW S, NEW f, NEW g, Dictionary(f, S), Dictionary(g, S)
    PROVE  /\ Dictionary(Merge(f, g), S)
           /\ DOMAIN Merge(f, g) = DOMAIN f \cup DOMAIN g
BY DEF Dictionary, Merge

LEMMA WithoutTyped ==
    ASSUME NEW S, NEW f, NEW keys, Dictionary(f, S)
    PROVE  /\ Dictionary(Without(f, keys), S)
           /\ DOMAIN Without(f, keys) = DOMAIN f \ keys
           /\ \A k \in DOMAIN f \ keys : Without(f, keys)[k] = f[k]
BY DEF Dictionary, Without, Restrict

-----------------------------------------------------------------------------
(* What an update and a roll-back make of the container.                   *)

Labels(merged, img) ==
    IF merged THEN Without(Without(container.labels, Unsafe), DOMAIN img.labels)
              ELSE Without(container.labels, Unsafe)

Renewed(img, merged, done) ==
    /\ DOMAIN container' = DOMAIN container
    /\ container'.image = img
    /\ merged \/ img = container.image
    /\ container'.entry = Argv(ArgvKwargs(container), img).entry
    /\ container'.cmd = Argv(ArgvKwargs(container), img).cmd
    /\ container'.mode = MainOf(container)
    /\ container'.running \in BOOLEAN
    /\ container'.labels = Merge(Labels(merged, img), img.labels)
    /\ container'.nets = [n \in {MainOf(container)} \cup done |->
            IF n = MainOf(container)
            THEN [alias |-> NetKwargs(container).alias, fixed |-> NetKwargs(container).fixed,
                  mac |-> Mac(container)]
            ELSE [alias |-> container.nets[n].alias, fixed |-> container.nets[n].fixed,
                  mac |-> Generated]]

(* What the same step excuses: not everything was connected.               *)
Excused(img, done) ==
    /\ DOMAIN excused' = {"coincided", "shadowed", "missed", "moved"}
    /\ excused'.coincided = (\/ excused.coincided
                             \/ /\ container.entry = container.image.entry
                                /\ container.cmd = container.image.cmd)
    /\ excused'.shadowed = excused.shadowed \cup DOMAIN img.labels
    /\ excused'.missed \in BOOLEAN
    /\ excused.missed \/ DOMAIN container.nets = {} => excused'.missed
    /\ excused'.missed \/ done = Others(container)
    /\ excused'.moved = excused.moved \cup (DOMAIN container.nets \ {container.mode})
    /\ front' = IF front \o OwnEntry = <<>> THEN img.entry ELSE front
    /\ given' = given

LEMMA UpdateRenews ==
    ASSUME ConfigTypeOK, Update
    PROVE  \E img \in Images, merged \in BOOLEAN, done \in SUBSET Others(container) :
              Renewed(img, merged, done) /\ Excused(img, done)
<1> DEFINE Config(merged, img) == IF merged THEN Merged(GetConfig(container), img)
                                              ELSE GetConfig(container)
           New(merged, img) == Created(Config(merged, img), img)
<1>1. ASSUME NEW merged \in BOOLEAN, NEW img \in Images
      PROVE  /\ Config(merged, img).entry = ArgvKwargs(container).entry
             /\ Config(merged, img).cmd = ArgvKwargs(container).cmd
             /\ Config(merged, img).labels = Labels(merged, img)
             /\ Config(merged, img).network = MainOf(container)
             /\ Config(merged, img).mac = Mac(container)
             /\ Config(merged, img).alias = NetKwargs(container).alias
             /\ Config(merged, img).fixed = NetKwargs(container).fixed
    BY DEF Merged, GetConfig, Labels, NetKwargs
<1> DEFINE main == [alias |-> NetKwargs(container).alias,
                    fixed |-> NetKwargs(container).fixed, mac |-> Mac(container)]
<1>2. ASSUME NEW merged \in BOOLEAN, NEW img \in Images
      PROVE  New(merged, img) =
                [entry |-> Argv(ArgvKwargs(container), img).entry,
                 cmd |-> Argv(ArgvKwargs(container), img).cmd,
                 labels |-> Merge(Labels(merged, img), img.labels),
                 nets |-> [n \in {MainOf(container)} |-> main],
                 mode |-> MainOf(container), image |-> img, running |-> FALSE]
    <2> HIDE DEF Config
    <2> QED
        BY <1>1 DEF Created, Argv
<1>3. ASSUME NEW merged \in BOOLEAN, NEW img \in Images, merged \/ img = container.image,
             container' = New(merged, img)
      PROVE  Renewed(img, merged, {})
    <2>1. New(merged, img) =
                [entry |-> Argv(ArgvKwargs(container), img).entry,
                 cmd |-> Argv(ArgvKwargs(container), img).cmd,
                 labels |-> Merge(Labels(merged, img), img.labels),
                 nets |-> [n \in {MainOf(container)} |-> main],
                 mode |-> MainOf(container), image |-> img, running |-> FALSE]
        BY <1>2
    <2> HIDE DEF New
    <2> QED
        BY <1>3, <2>1 DEF Renewed, ConfigTypeOK
<1>4. ASSUME NEW merged \in BOOLEAN, NEW img \in Images, merged \/ img = container.image,
             NEW done \in SUBSET Others(container),
             container' = Connected(New(merged, img), container, done)
      PROVE  Renewed(img, merged, done)
    <2> DEFINE new == New(merged, img)
    <2>1. ASSUME NEW n \in done
          PROVE  [container.nets[n] EXCEPT !.mac = Generated] =
                 [alias |-> container.nets[n].alias, fixed |-> container.nets[n].fixed,
                  mac |-> Generated]
        BY DEF ConfigTypeOK, Dictionary, Endpoints, Others
    <2>2. /\ MainOf(container) \notin done
          /\ container' = [new EXCEPT !.nets =
                Merge([n \in {MainOf(container)} |-> main],
                      [n \in done |-> [container.nets[n] EXCEPT !.mac = Generated]]),
                                      !.running = TRUE]
        <3>1. New(merged, img) =
                [entry |-> Argv(ArgvKwargs(container), img).entry,
                 cmd |-> Argv(ArgvKwargs(container), img).cmd,
                 labels |-> Merge(Labels(merged, img), img.labels),
                 nets |-> [n \in {MainOf(container)} |-> main],
                 mode |-> MainOf(container), image |-> img, running |-> FALSE]
            BY <1>2
        <3>2. new.nets = [n \in {MainOf(container)} |-> main]
            <4> HIDE DEF New, main
            <4> QED
                BY <3>1
        <3> HIDE DEF New, main
        <3> QED
            BY <1>4, <3>2 DEF Connected, Others
    <2>3. container'.nets = Merge([n \in {MainOf(container)} |-> main],
                      [n \in done |-> [container.nets[n] EXCEPT !.mac = Generated]])
        <3> HIDE DEF New, main
        <3> QED
            BY <1>2, <2>2
    <2>4. container'.nets = [n \in {MainOf(container)} \cup done |->
            IF n = MainOf(container) THEN main
            ELSE [alias |-> container.nets[n].alias, fixed |-> container.nets[n].fixed,
                  mac |-> Generated]]
        <3> HIDE DEF main
        <3> QED
            BY <2>1, <2>2, <2>3 DEF Merge
    <2> HIDE DEF New
    <2> QED
        BY <1>2, <1>4, <2>2, <2>4 DEF Renewed, ConfigTypeOK
<1>5. PICK img \in Images, failing \in SUBSET Others(container) :
        /\ \/ img # container.image /\ Updated(img, Others(container) \ failing)
           \/ img = container.image /\ RolledBack(Others(container) \ failing)
        /\ Excuses(img, failing)
        /\ UNCHANGED given
    BY DEF Update
<1> DEFINE done == Others(container) \ failing
<1>6. failing # {} => excused'.missed
    BY <1>5 DEF Excuses
<1>7. /\ excused'.missed \in BOOLEAN
      /\ excused.missed \/ DOMAIN container.nets = {} => excused'.missed
    BY <1>5 DEF Excuses, ConfigTypeOK
<1>8. Excused(img, done)
    BY <1>5, <1>6, <1>7 DEF Excuses, Excused
<1>9. CASE img = container.image
    <2>1. container' = Connected(New(FALSE, img), container, done)
        BY <1>5, <1>9 DEF RolledBack
    <2>2. Renewed(img, FALSE, done)
        BY <1>4, <1>9, <2>1
    <2> QED
        BY <1>8, <2>2
<1>10. CASE img # container.image /\ container.running
    <2>1. container' = Connected(New(TRUE, img), container, done)
        BY <1>5, <1>10 DEF Updated
    <2>2. Renewed(img, TRUE, done)
        BY <1>4, <2>1
    <2> QED
        BY <1>8, <2>2
<1>11. CASE img # container.image /\ ~container.running
    <2>1. container' = New(TRUE, img)
        BY <1>5, <1>11 DEF Updated
    <2>2. Renewed(img, TRUE, {})
        BY <1>3, <2>1
    <2>3. excused'.missed \/ \A m, n \in DOMAIN container.nets : m = n
        BY <1>5, <1>11 DEF Excuses
    <2>4. excused'.missed \/ Others(container) = {}
        BY <1>7, <2>3, MainIsOne DEF Others
    <2>5. Excused(img, {})
        BY <1>8, <2>4 DEF Excused
    <2> QED
        BY <2>2, <2>5
<1> QED
    BY <1>9, <1>10, <1>11

-----------------------------------------------------------------------------
(* The steps.                                                              *)

LEMMA InitConfig ==
    ASSUME ConfigInit
    PROVE  ConfigIInv
<1>1. PICK user \in Users, img \in Images, running \in BOOLEAN :
      LET argv == IF user.entry = <<>> THEN Argv([entry |-> <<>>, cmd |-> user.cmd], img)
                  ELSE [entry |-> user.entry[1], cmd |-> user.cmd]
      IN
        /\ given = [entry |-> user.entry, cmd |-> user.cmd, labels |-> user.labels,
                    nets |-> user.nets]
        /\ container = [entry |-> argv.entry, cmd |-> argv.cmd,
                        labels |-> Merge(user.labels, img.labels),
                        nets |-> [n \in DOMAIN user.nets |-> Endpoint(n, user.nets[n])],
                        mode |-> user.mode, image |-> img, running |-> running]
        /\ front = IF user.entry = <<>> THEN img.entry ELSE <<>>
        /\ excused = [coincided |-> FALSE, shadowed |-> Unsafe, missed |-> FALSE, moved |-> {}]
    BY DEF ConfigInit
<1>2. /\ img.entry \in Seq(STRING) /\ img.cmd \in Seq(STRING)
      /\ Dictionary(img.labels, STRING) /\ Dictionary(user.labels, STRING)
      /\ Dictionary(user.nets, EndpointSettings)
      /\ DOMAIN user.nets \cup {user.mode} \subseteq Range(Networks)
      /\ OneIfBare(user.mode, user.nets)
      /\ user.cmd \in Seq(STRING)
      /\ user.entry # <<>> => /\ user.entry[1] \in Seq(STRING)
                              /\ user.entry[1] # <<>> \/ user.cmd # <<>>
    BY ConfigAssumption
<1>3. /\ container.nets = [n \in DOMAIN user.nets |-> Endpoint(n, user.nets[n])]
      /\ given.nets = user.nets
    BY <1>1
<1>4. \A n \in DOMAIN user.nets : /\ user.nets[n] \in EndpointSettings
                                  /\ Endpoint(n, user.nets[n]) \in Endpoints
                                  /\ SettingsOf(Endpoint(n, user.nets[n])) = user.nets[n]
                                  /\ SettingsOf(user.nets[n]) = user.nets[n]
    BY <1>2 DEF Dictionary, EndpointSettings, Endpoints, Endpoint, SettingsOf
<1>5. /\ Dictionary(container.nets, Endpoints)
      /\ [n \in DOMAIN container.nets |-> SettingsOf(container.nets[n])] = given.nets
    BY <1>2, <1>3, <1>4 DEF Dictionary
<1>11. /\ container.image = img /\ ~excused.coincided
       /\ given.entry = user.entry /\ given.cmd = user.cmd
       /\ user.entry # <<>> => /\ container.entry = user.entry[1] /\ container.cmd = user.cmd
                               /\ front = <<>>
       /\ user.entry = <<>> => /\ container.entry = img.entry /\ front = img.entry
                               /\ container.cmd = IF user.cmd # <<>> THEN user.cmd ELSE img.cmd
    BY <1>1 DEF Argv
<1>6. ConfigTypeOK
    <2>1. /\ container.entry \in Seq(STRING) /\ container.cmd \in Seq(STRING)
          /\ front \in Seq(STRING)
        BY <1>2, <1>11, NothingIsASeq
    <2> QED
        BY <1>1, <1>2, <1>3, <1>5, <2>1, MergeTyped DEF ConfigTypeOK
<1>7. WordsHeld /\ ArgvKept
    <2>1. CASE user.entry # <<>>
        <3>1. /\ OwnEntry = user.entry[1] /\ front \o OwnEntry = user.entry[1] /\ Overridden
            BY <1>2, <1>11, <2>1, NothingAround DEF OwnEntry, Overridden
        <3> QED
            BY <1>11, <2>1, <3>1 DEF WordsHeld, ArgvKept
    <2>2. CASE user.entry = <<>>
        <3>1. /\ OwnEntry = <<>> /\ front \o OwnEntry = img.entry
              /\ Overridden <=> user.cmd # <<>>
            BY <1>2, <1>11, <2>2, NothingAround DEF OwnEntry, Overridden
        <3> QED
            BY <1>11, <2>2, <3>1 DEF WordsHeld, ArgvKept
    <2> QED
        BY <2>1, <2>2
<1>8. LabelsHeld /\ LabelsKept
    BY <1>1 DEF LabelsHeld, LabelsKept, Merge
<1>9. OneIfBare(container.mode, container.nets)
    BY <1>1, <1>2, <1>3, <1>4 DEF OneIfBare
<1>10. NetworksKept
    BY <1>1, <1>3, <1>5 DEF NetworksKept, Endpoint
<1> QED
    BY <1>6, <1>7, <1>8, <1>9, <1>10 DEF ConfigIInv

LEMMA ToggleKeeps ==
    ASSUME ConfigIInv, Toggle
    PROVE  ConfigIInv'
<1>1. /\ DOMAIN container' = DOMAIN container /\ container'.running \in BOOLEAN
      /\ container'.entry = container.entry /\ container'.cmd = container.cmd
      /\ container'.labels = container.labels /\ container'.nets = container.nets
      /\ container'.mode = container.mode /\ container'.image = container.image
      /\ given' = given /\ front' = front /\ excused' = excused
    BY DEF Toggle, ConfigIInv, ConfigTypeOK
<1> QED
    BY <1>1 DEF ConfigIInv, ConfigTypeOK, WordsHeld, LabelsHeld, ArgvKept, LabelsKept, NetworksKept,
                Overridden, OwnEntry

(* The user changes nothing but the networks.                              *)
LEMMA NetworksChange ==
    ASSUME ConfigIInv, Dictionary(container'.nets, Endpoints),
           Dictionary(given'.nets, EndpointSettings),
           DOMAIN container.nets' \subseteq Range(Networks),
           DOMAIN container' = DOMAIN container, DOMAIN given' = DOMAIN given,
           container'.entry = container.entry, container'.cmd = container.cmd,
           container'.labels = container.labels, container'.mode = container.mode,
           container'.image = container.image, container'.running = container.running,
           given'.entry = given.entry, given'.cmd = given.cmd, given'.labels = given.labels,
           front' = front, excused' = excused,
           OneIfBare(container.mode, container.nets)', NetworksKept'
    PROVE  ConfigIInv'
BY DEF ConfigIInv, ConfigTypeOK, WordsHeld, LabelsHeld, ArgvKept, LabelsKept, Overridden, OwnEntry

LEMMA ConnectKeeps ==
    ASSUME ConfigIInv, NEW n \in Range(Networks), Connect(n)
    PROVE  ConfigIInv'
<1>1. PICK e \in EndpointSettings :
         /\ container' = [container EXCEPT !.nets = Merge([m \in {n} |-> Endpoint(n, e)], @)]
         /\ given' = [given EXCEPT !.nets = Merge([m \in {n} |-> e], @)]
    BY DEF Connect
<1>2. /\ container'.nets = Merge([m \in {n} |-> Endpoint(n, e)], container.nets)
      /\ given'.nets = Merge([m \in {n} |-> e], given.nets)
      /\ DOMAIN container' = DOMAIN container /\ DOMAIN given' = DOMAIN given
      /\ container'.entry = container.entry /\ container'.cmd = container.cmd
      /\ container'.labels = container.labels /\ container'.mode = container.mode
      /\ container'.image = container.image /\ container'.running = container.running
      /\ given'.entry = given.entry /\ given'.cmd = given.cmd /\ given'.labels = given.labels
    BY <1>1 DEF ConfigIInv, ConfigTypeOK
<1>3. /\ Dictionary([m \in {n} |-> Endpoint(n, e)], Endpoints)
      /\ Dictionary([m \in {n} |-> e], EndpointSettings)
    BY DEF Dictionary, Endpoint, Endpoints, EndpointSettings
<1>4. /\ Dictionary(container.nets, Endpoints) /\ Dictionary(given.nets, EndpointSettings)
      /\ DOMAIN container.nets \subseteq Range(Networks)
    BY DEF ConfigIInv, ConfigTypeOK
<1>5. /\ Dictionary(container'.nets, Endpoints) /\ Dictionary(given'.nets, EndpointSettings)
      /\ DOMAIN container'.nets = {n} \cup DOMAIN container.nets
    BY <1>2, <1>3, <1>4 DEF Dictionary, Merge
<1>6. /\ container.mode \notin Bare /\ n \notin Bare /\ n \notin DOMAIN container.nets
      /\ excused' = excused /\ front' = front
    BY DEF Connect
<1>7. /\ container'.nets[n] = Endpoint(n, e)
      /\ \A m \in DOMAIN container.nets : container'.nets[m] = container.nets[m]
    BY <1>2, <1>6 DEF Merge
<1>8. OneIfBare(container.mode, container.nets)'
    BY <1>2, <1>5, <1>6, <1>7 DEF OneIfBare, ConfigIInv
<1>9. NetworksKept'
    <2>1. ASSUME ~excused.missed
          PROVE  [m \in DOMAIN container'.nets |-> SettingsOf(container'.nets[m])] = given'.nets
        <3>1. /\ [m \in DOMAIN container.nets |-> SettingsOf(container.nets[m])] = given.nets
            BY <2>1 DEF ConfigIInv, NetworksKept
        <3>2. SettingsOf(Endpoint(n, e)) = e
            BY DEF SettingsOf, Endpoint, EndpointSettings
        <3> QED
            BY <1>2, <1>5, <1>7, <3>1, <3>2 DEF Merge
    <2>2. ASSUME NEW m \in DOMAIN container'.nets \ (excused.moved \cup Bare), KeepsMac,
                 container'.nets[m].fixed
          PROVE  container'.nets[m].mac = m
        BY <1>5, <1>7, <2>2 DEF ConfigIInv, NetworksKept, Endpoint
    <2> QED
        BY <1>6, <2>1, <2>2 DEF NetworksKept
<1> QED
    BY <1>2, <1>4, <1>5, <1>6, <1>8, <1>9, NetworksChange

LEMMA DisconnectKeeps ==
    ASSUME ConfigIInv, NEW n \in Range(Networks), Disconnect(n)
    PROVE  ConfigIInv'
<1>1. /\ container'.nets = Without(container.nets, {n})
      /\ given'.nets = Without(given.nets, {n})
      /\ DOMAIN container' = DOMAIN container /\ DOMAIN given' = DOMAIN given
      /\ container'.entry = container.entry /\ container'.cmd = container.cmd
      /\ container'.labels = container.labels /\ container'.mode = container.mode
      /\ container'.image = container.image /\ container'.running = container.running
      /\ given'.entry = given.entry /\ given'.cmd = given.cmd /\ given'.labels = given.labels
      /\ front' = front /\ excused' = excused
    BY DEF Disconnect, ConfigIInv, ConfigTypeOK
<1>2. /\ Dictionary(container.nets, Endpoints) /\ Dictionary(given.nets, EndpointSettings)
      /\ DOMAIN container.nets \subseteq Range(Networks)
    BY DEF ConfigIInv, ConfigTypeOK
<1>3. /\ Dictionary(container'.nets, Endpoints) /\ Dictionary(given'.nets, EndpointSettings)
      /\ DOMAIN container'.nets = DOMAIN container.nets \ {n}
      /\ \A m \in DOMAIN container'.nets : container'.nets[m] = container.nets[m]
    BY <1>1, <1>2 DEF Dictionary, Without, Restrict
<1>4. OneIfBare(container.mode, container.nets)'
    BY <1>1, <1>3 DEF OneIfBare, ConfigIInv
<1>5. NetworksKept'
    <2>1. ASSUME ~excused.missed
          PROVE  [m \in DOMAIN container'.nets |-> SettingsOf(container'.nets[m])] = given'.nets
        <3>1. /\ [m \in DOMAIN container.nets |-> SettingsOf(container.nets[m])] = given.nets
            BY <2>1 DEF ConfigIInv, NetworksKept
        <3> QED
            BY <1>1, <1>3, <3>1 DEF Without, Restrict
    <2> QED
        BY <1>1, <1>3, <2>1 DEF NetworksKept, ConfigIInv
<1> QED
    BY <1>1, <1>2, <1>3, <1>4, <1>5, NetworksChange

(* The words: none were passed, or a command after no entrypoint, or the   *)
(* same ones after an entrypoint.                                          *)
LEMMA UpdateWords ==
    ASSUME ConfigIInv,
           NEW img \in Images, NEW merged \in BOOLEAN, NEW done \in SUBSET Others(container),
           Renewed(img, merged, done), Excused(img, done)
    PROVE  /\ container'.entry \in Seq(STRING) /\ container'.cmd \in Seq(STRING)
           /\ front' \in Seq(STRING)
           /\ WordsHeld' /\ ArgvKept'
<1> DEFINE passed == ArgvKwargs(container)
           e == container.entry
           c == container.cmd
<1>1. /\ e \in Seq(STRING) /\ c \in Seq(STRING)
      /\ img.entry \in Seq(STRING) /\ img.cmd \in Seq(STRING)
      /\ front \in Seq(STRING) /\ front' \in Seq(STRING)
      /\ OwnEntry \in Seq(STRING) /\ given.cmd \in Seq(STRING)
      /\ Overridden => given.cmd # <<>> \/ OwnEntry # <<>>
    BY ConfigAssumption, NothingIsASeq
       DEF ConfigIInv, ConfigTypeOK, Excused, OwnEntry, Overridden
<1>2. /\ OwnEntry' = OwnEntry /\ Overridden' = Overridden /\ given'.cmd = given.cmd
      /\ excused.coincided => excused'.coincided
      /\ container'.image = img
    BY DEF Excused, Renewed, OwnEntry, Overridden
<1>3. CASE e = container.image.entry /\ c = container.image.cmd
    <2>1. passed.entry = <<>> /\ passed.cmd = <<>>
        BY <1>3 DEF ArgvKwargs
    <2>2. container'.entry = img.entry /\ container'.cmd = img.cmd
        BY <2>1 DEF Renewed, Argv
    <2>3. excused'.coincided
        BY <1>3 DEF Excused
    <2> QED
        BY <1>1, <1>2, <2>2, <2>3 DEF WordsHeld, ArgvKept
<1>4. CASE ~(e = container.image.entry /\ c = container.image.cmd)
    <2>1. /\ Overridden /\ ~excused.coincided /\ ~excused'.coincided
          /\ e = <<>> <=> front \o OwnEntry = <<>>
          /\ e \o c = front \o OwnEntry \o given.cmd
        BY <1>4 DEF ConfigIInv, WordsHeld, ArgvKept, Excused
    <2>2. CASE e = <<>>
        <3>1. passed.entry = <<>> /\ passed.cmd = c
            BY <1>4, <2>2 DEF ArgvKwargs
        <3>2. front \o OwnEntry = <<>> /\ front' = img.entry
            BY <2>1, <2>2 DEF Excused
        <3>3. OwnEntry = <<>>
            BY <1>1, <3>2, ConcatEqualIffEmpty
        <3>4. c = given.cmd
            <4>1. e \o c = c /\ <<>> \o given.cmd = given.cmd
                BY <1>1, <2>2, NothingAround
            <4> QED
                BY <2>1, <3>2, <4>1
        <3>5. container'.entry = img.entry /\ container'.cmd = given.cmd
            BY <1>1, <2>1, <3>1, <3>3, <3>4 DEF Renewed, Argv
        <3>6. front' \o OwnEntry' = img.entry
            BY <1>1, <1>2, <3>2, <3>3, NothingAround
        <3> QED
            BY <1>1, <1>2, <2>1, <3>5, <3>6 DEF WordsHeld, ArgvKept
    <2>3. CASE e # <<>>
        <3>1. passed.entry = <<Head(e)>> /\ passed.cmd = Tail(e) \o c
            BY <1>4, <2>3 DEF ArgvKwargs
        <3>2. /\ <<Head(e)>> \in Seq(STRING) /\ Tail(e) \o c \in Seq(STRING)
              /\ <<Head(e)>> # <<>>
              /\ <<Head(e)>> \o (Tail(e) \o c) = e \o c
            <4> HIDE DEF e, c
            <4> QED
                BY <1>1, <2>3, WordsMove
        <3>3. container'.entry = <<Head(e)>> /\ container'.cmd = Tail(e) \o c
            BY <3>1, <3>2 DEF Renewed, Argv
        <3>4. /\ container'.entry \o container'.cmd = e \o c
              /\ container'.entry # <<>>
              /\ container'.entry \in Seq(STRING) /\ container'.cmd \in Seq(STRING)
            <4> HIDE DEF e, c
            <4> QED
                BY <3>2, <3>3
        <3>5. front' = front /\ front \o OwnEntry # <<>>
            BY <2>1, <2>3 DEF Excused
        <3> QED
            BY <1>1, <1>2, <2>1, <3>4, <3>5 DEF WordsHeld, ArgvKept
    <2> QED
        BY <2>2, <2>3
<1> QED
    BY <1>3, <1>4

(* The labels: an image's own ones win in an update, the container's in a  *)
(* roll-back, where the image is the same.                                 *)
LEMMA UpdateLabels ==
    ASSUME ConfigIInv,
           NEW img \in Images, NEW merged \in BOOLEAN, NEW done \in SUBSET Others(container),
           Renewed(img, merged, done), Excused(img, done)
    PROVE  Dictionary(container'.labels, STRING) /\ LabelsHeld' /\ LabelsKept'
<1> DEFINE passed == Labels(merged, img)
<1>1. /\ Dictionary(container.labels, STRING) /\ Dictionary(img.labels, STRING)
      /\ container.image \in Images
    BY ConfigAssumption DEF ConfigIInv, ConfigTypeOK
<1>2. /\ Dictionary(passed, STRING)
      /\ DOMAIN passed = (DOMAIN container.labels \ Unsafe)
                           \ (IF merged THEN DOMAIN img.labels ELSE {})
      /\ \A k \in DOMAIN passed : passed[k] = container.labels[k]
    BY <1>1 DEF Labels, Dictionary, Without, Restrict
<1>3. /\ container'.labels = Merge(passed, img.labels)
      /\ container'.image = img /\ (merged \/ img = container.image)
    BY DEF Renewed
<1>4. /\ Dictionary(container'.labels, STRING)
      /\ DOMAIN container'.labels = DOMAIN passed \cup DOMAIN img.labels
      /\ \A k \in DOMAIN passed : container'.labels[k] = container.labels[k]
      /\ \A k \in DOMAIN img.labels \ DOMAIN passed : container'.labels[k] = img.labels[k]
    <2> HIDE DEF passed
    <2> QED
        BY <1>1, <1>2, <1>3 DEF Dictionary, Merge
<1>5. /\ excused'.shadowed = excused.shadowed \cup DOMAIN img.labels
      /\ given' = given
    BY <1>3 DEF Excused
<1> HIDE DEF passed
<1>6. LabelsHeld'
    BY <1>3, <1>4, <1>5 DEF LabelsHeld, ConfigIInv
<1>7. ASSUME NEW k \in DOMAIN given.labels \ excused'.shadowed
      PROVE  k \in DOMAIN container'.labels /\ container'.labels[k] = given.labels[k]
    BY <1>2, <1>4, <1>5 DEF ConfigIInv, LabelsKept, LabelsHeld
<1>8. ASSUME NEW k \in DOMAIN img.labels \ DOMAIN given.labels
      PROVE  container'.labels[k] = img.labels[k]
    BY <1>2, <1>3, <1>4 DEF ConfigIInv, LabelsKept
<1> QED
    BY <1>3, <1>4, <1>5, <1>6, <1>7, <1>8 DEF LabelsKept

(* The networks: the endpoint of the main one is passed to create, unless  *)
(* the mode is a bare one, which has nothing to pass.                      *)
LEMMA UpdateNetworks ==
    ASSUME ConfigIInv,
           NEW img \in Images, NEW merged \in BOOLEAN, NEW done \in SUBSET Others(container),
           Renewed(img, merged, done), Excused(img, done)
    PROVE  /\ Dictionary(container'.nets, Endpoints)
           /\ DOMAIN container'.nets \cup {container'.mode} \subseteq Range(Networks)
           /\ OneIfBare(container.mode, container.nets)' /\ NetworksKept'
<1> DEFINE main == MainOf(container)
           old  == container.nets
           new  == container'.nets
<1>1. /\ \A n \in DOMAIN old : old[n] \in Endpoints
      /\ DOMAIN old \cup {container.mode} \subseteq Range(Networks)
      /\ done \subseteq DOMAIN old \ {main}
    BY DEF ConfigIInv, ConfigTypeOK, Dictionary, Others
<1>2. /\ main \in Range(Networks)
      /\ DOMAIN old # {} => main \in DOMAIN old
      /\ container.mode \in DOMAIN old \/ DOMAIN old = {} => main = container.mode
    BY <1>1, MainIsOne DEF ConfigIInv, MainOf
<1>3. /\ NetKwargs(container).alias \in BOOLEAN /\ NetKwargs(container).fixed \in BOOLEAN
      /\ container.mode \in Bare \/ main \notin DOMAIN old =>
            NetKwargs(container).alias = FALSE /\ NetKwargs(container).fixed = FALSE
      /\ container.mode \notin Bare /\ main \in DOMAIN old =>
            /\ NetKwargs(container).alias = old[main].alias
            /\ NetKwargs(container).fixed = old[main].fixed
    <2> DEFINE kept == container.mode \notin Bare /\ main \in DOMAIN old
    <2>1. /\ NetKwargs(container).alias = (kept /\ old[main].alias)
          /\ NetKwargs(container).fixed = (kept /\ old[main].fixed)
        BY DEF NetKwargs
    <2>2. CASE kept
        <3>1. old[main].alias \in BOOLEAN /\ old[main].fixed \in BOOLEAN
            BY <1>1, <2>2 DEF Endpoints
        <3> QED
            BY <2>1, <2>2, <3>1
    <2>3. CASE ~kept
        BY <2>1, <2>3
    <2> QED
        BY <2>2, <2>3
<1>4. /\ DOMAIN new = {main} \cup done
      /\ new[main] = [alias |-> NetKwargs(container).alias,
                      fixed |-> NetKwargs(container).fixed, mac |-> Mac(container)]
      /\ \A n \in done : new[n] = [alias |-> old[n].alias, fixed |-> old[n].fixed,
                                   mac |-> Generated]
      /\ container'.mode = main
      /\ new = [n \in DOMAIN new |-> new[n]]
    BY <1>1 DEF Renewed
<1> HIDE DEF main, old, new
<1>5. Mac(container) \in Range(Networks) \cup {Generated}
    <2> DEFINE fixed == {n \in DOMAIN old : old[n].fixed}
    <2>1. fixed # {} => First(fixed) \in fixed
        BY <1>1, FirstIsOne
    <2>2. Mac(container) = IF KeepsMac /\ container.mode \notin Bare /\ fixed # {}
                           THEN old[IF main \in fixed THEN main ELSE First(fixed)].mac
                           ELSE Generated
        BY DEF Mac, old, main
    <2>3. \A n \in fixed : old[n].mac \in Range(Networks) \cup {Generated}
        BY <1>1 DEF Endpoints
    <2> QED
        BY <2>1, <2>2, <2>3
<1>6. \A n \in DOMAIN new : new[n] \in Endpoints
    <2>1. NetKwargs(container).alias \in BOOLEAN /\ NetKwargs(container).fixed \in BOOLEAN
        BY <1>1, <1>3 DEF Endpoints
    <2>2. new[main] \in Endpoints
        BY <1>4, <1>5, <2>1 DEF Endpoints
    <2>3. \A n \in done : new[n] \in Endpoints
        BY <1>1, <1>4 DEF Endpoints
    <2> QED
        BY <1>4, <2>2, <2>3
<1>7. Dictionary(new, Endpoints) /\ DOMAIN new \cup {container'.mode} \subseteq Range(Networks)
    BY <1>1, <1>2, <1>4, <1>6 DEF Dictionary
<1>8. OneIfBare(container.mode, old)
    BY DEF ConfigIInv, old
<1>9. ASSUME container.mode \in Bare
       PROVE  SettingsOf(new[main]) = Plain
    <2>1. NetKwargs(container).alias = FALSE /\ NetKwargs(container).fixed = FALSE
        BY <1>3, <1>9
    <2>2. new[main].alias = FALSE /\ new[main].fixed = FALSE
        BY <1>4, <2>1
    <2> QED
        BY <2>2 DEF SettingsOf, Plain
(* The settings of every endpoint are as they were.                        *)
<1>10. ASSUME NEW n \in DOMAIN new \cap DOMAIN old
      PROVE  SettingsOf(new[n]) = SettingsOf(old[n])
    <2>1. CASE n \in done
        BY <1>4, <2>1 DEF SettingsOf
    <2>2. CASE n = main /\ container.mode \notin Bare
        BY <1>1, <1>3, <1>4, <2>2 DEF SettingsOf, Endpoints
    <2>3. CASE n = main /\ container.mode \in Bare
        <3>1. SettingsOf(new[n]) = Plain
            BY <1>9, <2>3
        <3>2. SettingsOf(old[n]) = Plain
            BY <1>8, <2>3 DEF OneIfBare
        <3> QED
            BY <3>1, <3>2
    <2> QED
        BY <1>4, <2>1, <2>2, <2>3
<1>11. OneIfBare(container'.mode, new)
    <2>1. CASE container.mode \in Bare
        <3>1. main = container.mode /\ done = {}
            BY <1>1, <1>2, <1>8, <2>1 DEF OneIfBare
        <3>2. SettingsOf(new[main]) = Plain
            BY <1>9, <2>1
        <3> QED
            BY <1>4, <2>1, <3>1, <3>2 DEF OneIfBare
    <2>2. CASE container.mode \notin Bare
        BY <1>1, <1>2, <1>4, <1>8, <2>2 DEF OneIfBare
    <2> QED
        BY <2>1, <2>2
<1>12. /\ excused.missed \/ DOMAIN old = {} => excused'.missed
       /\ excused'.missed \/ done = DOMAIN old \ {main}
       /\ excused'.moved = excused.moved \cup (DOMAIN old \ {container.mode})
       /\ given' = given
    BY DEF Excused, Others, old, main
<1>13. ASSUME ~excused'.missed
       PROVE  [n \in DOMAIN new |-> SettingsOf(new[n])] = given.nets
    <2>1. [n \in DOMAIN old |-> SettingsOf(old[n])] = given.nets
        BY <1>12, <1>13 DEF ConfigIInv, NetworksKept, old
    <2>2. DOMAIN new = DOMAIN old
        BY <1>2, <1>4, <1>12, <1>13
    <2> QED
        BY <1>10, <2>1, <2>2
(* An endpoint that is excused of nothing is the main one, and was before. *)
<1>14. ASSUME NEW n \in DOMAIN new \ (excused'.moved \cup Bare), KeepsMac, new[n].fixed
       PROVE  new[n].mac = n
    <2>1. n = main /\ n \in DOMAIN old /\ n = container.mode
        <3>1. n \notin done
            BY <1>1, <1>2, <1>12
        <3>2. n = main
            BY <1>4, <3>1
        <3>3. n \in DOMAIN old
            BY <1>3, <1>4, <1>6, <1>14, <3>2 DEF Endpoints
        <3> QED
            BY <1>12, <3>2, <3>3
    <2>2. old[n].fixed /\ container.mode \notin Bare
        BY <1>1, <1>3, <1>4, <1>6, <1>14, <2>1 DEF Endpoints
    <2>3. Mac(container) = old[n].mac
        BY <1>14, <2>1, <2>2 DEF Mac, old, main
    <2>4. old[n].mac = n
        BY <1>12, <1>14, <2>1, <2>2 DEF ConfigIInv, NetworksKept, old
    <2> QED
        BY <1>4, <2>1, <2>3, <2>4
<1> QED
    BY <1>7, <1>11, <1>12, <1>13, <1>14 DEF NetworksKept, new

LEMMA UpdateKeeps ==
    ASSUME ConfigIInv, Update
    PROVE  ConfigIInv'
<1>1. ConfigTypeOK
    BY DEF ConfigIInv
<1>2. PICK img \in Images, merged \in BOOLEAN, done \in SUBSET Others(container) :
         Renewed(img, merged, done) /\ Excused(img, done)
    BY <1>1, UpdateRenews
<1>3. /\ container'.entry \in Seq(STRING) /\ container'.cmd \in Seq(STRING)
      /\ front' \in Seq(STRING) /\ WordsHeld' /\ ArgvKept'
    BY <1>2, UpdateWords
<1>4. Dictionary(container'.labels, STRING) /\ LabelsHeld' /\ LabelsKept'
    BY <1>2, UpdateLabels
<1>5. /\ Dictionary(container'.nets, Endpoints)
      /\ DOMAIN container'.nets \cup {container'.mode} \subseteq Range(Networks)
      /\ OneIfBare(container.mode, container.nets)' /\ NetworksKept'
    BY <1>2, UpdateNetworks
<1>6. /\ DOMAIN container' = DOMAIN container /\ container'.image \in Images
      /\ container'.running \in BOOLEAN
    BY <1>2 DEF Renewed
<1>7. /\ DOMAIN excused' = {"coincided", "shadowed", "missed", "moved"}
      /\ excused'.coincided \in BOOLEAN /\ excused'.missed \in BOOLEAN
      /\ given' = given
    BY <1>1, <1>2 DEF Excused, ConfigTypeOK
<1>8. ConfigTypeOK'
    BY <1>1, <1>3, <1>4, <1>5, <1>6, <1>7 DEF ConfigTypeOK
<1> QED
    BY <1>3, <1>4, <1>5, <1>8 DEF ConfigIInv

-----------------------------------------------------------------------------
(* However often a container is updated, rolled back, connected and        *)
(* disconnected: the invariant holds, whatever the images, the networks    *)
(* and the users are.                                                      *)
THEOREM ConfigInvariant == ConfigSpec => []ConfigIInv
<1>1. ConfigIInv /\ UNCHANGED configVars => ConfigIInv'
    <2> SUFFICES ASSUME ConfigIInv, UNCHANGED configVars PROVE ConfigIInv'
        OBVIOUS
    <2>1. ConfigTypeOK'
        BY DEF configVars, ConfigIInv, ConfigTypeOK
    <2>2. WordsHeld' /\ ArgvKept'
        BY DEF configVars, ConfigIInv, WordsHeld, ArgvKept, Overridden, OwnEntry
    <2>3. LabelsHeld' /\ LabelsKept' /\ OneIfBare(container.mode, container.nets)' /\ NetworksKept'
        BY DEF configVars, ConfigIInv, LabelsHeld, LabelsKept, NetworksKept, OneIfBare
    <2> QED
        BY <2>1, <2>2, <2>3 DEF ConfigIInv
<1>2. ConfigIInv /\ [ConfigNext]_configVars => ConfigIInv'
    BY <1>1, UpdateKeeps, ToggleKeeps, ConnectKeeps, DisconnectKeeps DEF ConfigNext
<1> QED
    BY InitConfig, <1>2, PTL DEF ConfigSpec

(* ArgvKept: the container runs exactly the words that its user gave, after*)
(* the entrypoint of the image they were given for or, where the user      *)
(* cleared it, that of the first image which has one; or those of its      *)
(* image, if the user gave none or they once equalled it at an update      *)
(* (container_config.py:99-112).                                           *)
THEOREM WordsAreKept == ConfigSpec => []ArgvKept
<1>1. ConfigIInv => ArgvKept
    BY DEF ConfigIInv
<1> QED
    BY ConfigInvariant, <1>1, PTL

(* LabelsKept: no label of the user's is lost that the CLI takes and no    *)
(* image brings too, and a label that the running image has shows this     *)
(* image's value and no older one's (container_config.py:37-59, 118-122).  *)
(* It does not say that the labels of older images go: they stay.          *)
THEOREM LabelsAreKept == ConfigSpec => []LabelsKept
<1>1. ConfigIInv => LabelsKept
    BY DEF ConfigIInv
<1> QED
    BY ConfigInvariant, <1>1, PTL

(* NetworksKept: the container stays in its networks, with its aliases and *)
(* addresses, unless a connect command failed or was not run, or it had no *)
(* network (get_container_net_kwargs.py:54-97,                             *)
(* update_actions_executor.py:218-232, 276-281).                           *)
THEOREM NetworksAreKept == ConfigSpec => []NetworksKept
<1>1. ConfigIInv => NetworksKept
    BY DEF ConfigIInv
<1> QED
    BY ConfigInvariant, <1>1, PTL
=============================================================================
