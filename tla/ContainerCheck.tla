--------------------------- MODULE ContainerCheck ---------------------------
(***************************************************************************)
(* What the application knows of one container: its row in the database,   *)
(* which says whether an update is available, and who writes it.  A check  *)
(* compares the digest of the image the container runs with the one the    *)
(* registry serves (check_one_container), the end of an update clears the  *)
(* flag, and a user changes the settings.  Each of them reads the row and  *)
(* writes it later, in a session of its own, if it gets there: a write may *)
(* fail, and the process may die between any two steps.  A session hands   *)
(* out the object it has read before, without reading it anew, and writes  *)
(* only the columns it has changed in that object.  The container shares   *)
(* its image spec with no other container that is updated (see             *)
(* PlanExecutor for those that do).                                        *)
(***************************************************************************)
EXTENDS RegistryLookup

CONSTANTS
    RowIds,       \* bound: rows the container may get
    Settings,     \* values of the columns a user sets
    Default,      \* what they are in a new row
    MaxChecks,    \* bound: checks
    MaxUpdates,   \* bound: updates
    MaxPatches    \* bound: changes of the settings

ASSUME DefaultAssumption == Default \in Settings
ASSUME RowIdsAssumption == 0 \notin RowIds

VARIABLES
    image,        \* host: digest of the image the container runs
    rows,         \* database: the container's rows
    check,        \* the check that is under way
    update,       \* the update that is under way
    patch,        \* the change of settings that is under way
    checks, updates, patches,
    setting,      \* the settings a user was last told to be in force
    seen,         \* digest found by the last lookup that found one
    crossed,      \* a check and an update have crossed, see VerdictStands
    unrecorded,   \* an update brought the image and did not clear the flag
    failures,     \* checks that stored no digest, or not the reported one
    reported,     \* digests that were reported as new, how often
    notified      \* digests a notification was sent of

registry == <<served, insecure>>
counters == <<checks, updates, patches>>
history  == <<seen, crossed, unrecorded, failures, reported, notified>>
vars     == <<registry, ask, image, rows, check, update, patch, counters,
              setting, history>>

NoRow == [update |-> FALSE, remote |-> None, setting |-> Default,
          exists |-> FALSE]

Existing == {r \in RowIds : rows[r].exists}
OneRow   == \A q, r \in Existing : q = r

Idle == [pc |-> "idle", row |-> 0, object |-> NoRow]

NoCheck == [pc |-> "idle", row |-> 0, object |-> NoRow, local |-> None,
            all |-> FALSE, verdict |-> "none", overlaps |-> FALSE]

NoUpdate == [pc |-> "idle", row |-> 0, object |-> NoRow, pulled |-> None]

Init ==
    /\ served \in Digests
    /\ insecure \in BOOLEAN
    /\ ask = NoLookup
    /\ image \in 1..served
    /\ rows = [r \in RowIds |-> NoRow]
    /\ check = NoCheck
    /\ update = NoUpdate
    /\ patch = Idle
    /\ checks = 0 /\ updates = 0 /\ patches = 0
    /\ setting = Default
    /\ seen = None
    /\ crossed = FALSE
    /\ unrecorded = FALSE
    /\ failures = 0
    /\ reported = [d \in Digests |-> 0]
    /\ notified = {}

Publish ==
    /\ served < MaxDigest
    /\ served' = served + 1
    /\ UNCHANGED <<insecure, ask, image, rows, check, update, patch, counters,
                   setting, history>>

-----------------------------------------------------------------------------
(* A statement "SELECT ... LIMIT 1" finds one of the rows, or none.        *)
Selects(r, object) ==
    \/ r \in Existing /\ object = rows[r]
    \/ r = 0 /\ Existing = {} /\ object = NoRow

(* Mutant of Flushed: the whole object is written.                         *)
FlushedWhole(r, object, changed) == rows' = [rows EXCEPT ![r] = changed]

(* A flush writes the columns in which the object was changed.             *)
Column(was, is, inRow) == IF is # was THEN is ELSE inRow

Flushed(r, object, changed) ==
    rows' = [rows EXCEPT ![r] =
        [update  |-> Column(object.update, changed.update, rows[r].update),
         remote  |-> Column(object.remote, changed.remote, rows[r].remote),
         setting |-> Column(object.setting, changed.setting, rows[r].setting),
         exists  |-> rows[r].exists]]

(* Nothing in the schema keeps a container from having two rows.           *)
Inserted(object) ==
    \E r \in RowIds \ Existing :
        rows' = [rows EXCEPT ![r] = [object EXCEPT !.exists = TRUE]]

(* insert_or_update_container, from its commit on.                         *)
Commits(r, object, changed) ==
    \/ r # 0 /\ Flushed(r, object, changed)
    \/ r = 0 /\ Inserted(changed)

-----------------------------------------------------------------------------
(* The container is listed or inspected before the check of it begins, in  *)
(* a check of all, which ends with a notification, or on its own.          *)
StartCheck ==
    /\ check.pc = "idle"
    /\ checks < MaxChecks
    /\ checks' = checks + 1
    /\ \E all \in BOOLEAN :
          check' = [pc |-> "inspect", row |-> 0, object |-> NoRow,
                    local |-> image, all |-> all, verdict |-> "none",
                    overlaps |-> update.pc # "idle"]
    /\ UNCHANGED <<registry, ask, image, rows, update, patch, updates,
                   patches, setting, history>>

(* No image spec, no digests, the image gone or no answer: the check ends  *)
(* with nothing written; so it does when the pull fails.                   *)
GiveUp ==
    /\ check.pc \in {"inspect", "look"}
    /\ check' = NoCheck
    /\ UNCHANGED <<registry, ask, image, rows, update, patch, counters,
                   setting, history>>

ReadRow ==
    /\ check.pc = "inspect"
    /\ \E r \in RowIds \cup {0}, object \in {rows[q] : q \in RowIds} \cup {NoRow} :
          /\ Selects(r, object)
          /\ check' = [check EXCEPT !.pc = "look", !.row = r, !.object = object]
    /\ UNCHANGED <<registry, ask, image, rows, update, patch, counters,
                   setting, history>>

Look ==
    /\ check.pc = "look"
    /\ check' = [check EXCEPT !.pc = "lookup"]
    /\ \E locals \in {<<check.local>>, <<None, check.local>>, <<check.local, None>>} :
          StartLookup(locals)
    /\ UNCHANGED <<registry, image, rows, update, patch, counters, setting,
                   history>>

Lookup ==
    /\ check.pc = "lookup"
    /\ LookupStep
    /\ UNCHANGED <<image, rows, check, update, patch, counters, setting,
                   history>>

(* Mutant of Verdict: what the row says of the last lookup is not compared.*)
VerdictForgets(found) ==
    CASE found = None        -> "unknown"
      [] found = check.local -> "not_available"
      [] OTHER               -> "available"

Verdict(found) ==
    CASE found = None        -> "unknown"
      [] found = check.local -> "not_available"
      [] found \notin {None, check.local, check.object.remote} -> "available"
      [] OTHER               -> "available(notified)"

(* The lookup is over: the digests are compared, and the row is selected   *)
(* once more; an object that the session holds comes back as it was.       *)
Judge ==
    /\ check.pc = "lookup"
    /\ ask.pc = "over"
    /\ ask' = [NoLookup EXCEPT !.found = ask.found]
    /\ \E r \in RowIds \cup {0}, object \in {rows[q] : q \in RowIds} \cup {NoRow} :
          /\ Selects(r, object)
          /\ check' = [check EXCEPT
                !.pc = "commit", !.verdict = Verdict(ask.found), !.row = r,
                !.object = IF r = check.row /\ r # 0 THEN @ ELSE object]
    /\ UNCHANGED <<registry, image, rows, update, patch, counters, setting,
                   history>>

(* A failed lookup leaves the flag as it is.                               *)
Flag ==
    \/ check.verdict \in {"available", "available(notified)"}
    \/ check.verdict = "unknown" /\ check.object.update

(* Without the times of checks and changes.                                *)
Checked == [check.object EXCEPT !.update = Flag, !.remote = ask.found]

(* What the check has found is reported whether or not the commit succeeds.*)
Reports ==
    reported' = IF check.verdict = "available"
                THEN [reported EXCEPT ![ask.found] = @ + 1] ELSE reported

EndCheck ==
    /\ check' = IF check.all /\ check.verdict = "available"
                THEN [NoCheck EXCEPT !.pc = "notify"] ELSE NoCheck
    /\ UNCHANGED <<registry, ask, image, update, patch, counters, setting,
                   notified>>

CommitCheck ==
    /\ check.pc = "commit"
    /\ Commits(check.row, check.object, Checked)
    /\ Reports
    /\ seen' = IF ask.found = None THEN seen ELSE ask.found
    /\ crossed' = IF ask.found = None THEN crossed
                  ELSE \/ image # check.local /\ (crossed \/ ~check.object.update)
                       \/ check.overlaps /\ ask.found > update.pulled
    /\ unrecorded' = (unrecorded /\ (ask.found = None \/ image # check.local))
    /\ failures' = IF ask.found = None THEN failures + 1 ELSE failures
    /\ EndCheck

CommitFails ==
    /\ check.pc = "commit"
    /\ Reports
    /\ failures' = IF check.verdict = "available" THEN failures + 1 ELSE failures
    /\ UNCHANGED <<rows, seen, crossed, unrecorded>>
    /\ EndCheck

(* The notification at the end of a check of all may fail.                 *)
Notify ==
    /\ check.pc = "notify"
    /\ check' = NoCheck
    /\ notified' \in {notified, notified \cup {ask.found}}
    /\ UNCHANGED <<registry, ask, image, rows, update, patch, counters,
                   setting, seen, crossed, unrecorded, failures, reported>>

-----------------------------------------------------------------------------
(* An update, for which the flag was set when the plan was built: it pulls *)
(* the image and recreates the container, or leaves it as it was.          *)
StartUpdate ==
    /\ update.pc = "idle"
    /\ updates < MaxUpdates
    /\ \E r \in Existing : rows[r].update
    /\ updates' = updates + 1
    /\ update' = [update EXCEPT !.pc = "pulled", !.pulled = served]
    /\ check' = [check EXCEPT !.overlaps = TRUE]
    /\ UNCHANGED <<registry, ask, image, rows, patch, checks, patches,
                   setting, history>>

NoMoreUpdate == update' = [NoUpdate EXCEPT !.pulled = update.pulled]

(* The container is recreated: "updated".                                  *)
Replace ==
    /\ update.pc = "pulled"
    /\ image' = update.pulled
    /\ update' = [update EXCEPT !.pc = "replaced"]
    /\ UNCHANGED <<registry, ask, rows, check, patch, counters, setting,
                   history>>

(* Without a result, "rolled_back" or "failed": the old image, or the new  *)
(* one when the roll-back could not tag the old image, or not remove the   *)
(* new container.  The flag is cleared for "updated" only.                 *)
NotReplaced ==
    /\ update.pc = "pulled"
    /\ NoMoreUpdate
    /\ \/ image' = image /\ UNCHANGED unrecorded
       \/ image' = update.pulled /\ unrecorded' = TRUE
    /\ UNCHANGED <<registry, ask, rows, check, patch, counters, setting, seen,
                   crossed, failures, reported, notified>>

(* update_containers_data_after_execution reads the row, then writes it.   *)
EndUpdate ==
    /\ update.pc = "replaced"
    /\ \E r \in Existing :
          update' = [update EXCEPT !.pc = "ending", !.row = r,
                                   !.object = rows[r]]
    /\ UNCHANGED <<registry, ask, image, rows, check, patch, counters,
                   setting, history>>

(* Mutant of CommitUpdate: the flag is left to the next check.             *)
CommitUpdateNothing ==
    /\ update.pc = "ending"
    /\ NoMoreUpdate
    /\ unrecorded' = FALSE
    /\ UNCHANGED <<registry, ask, image, rows, check, patch, counters, setting,
                   seen, crossed, failures, reported, notified>>

CommitUpdate ==
    /\ update.pc = "ending"
    /\ Flushed(update.row, update.object, [update.object EXCEPT !.update = FALSE])
    /\ NoMoreUpdate
    /\ unrecorded' = FALSE
    /\ UNCHANGED <<registry, ask, image, check, patch, counters, setting,
                   seen, crossed, failures, reported, notified>>

(* Nothing catches an exception of the database after an execution.        *)
NotRecorded ==
    /\ update.pc \in {"replaced", "ending"}
    /\ NoMoreUpdate
    /\ unrecorded' = TRUE
    /\ UNCHANGED <<registry, ask, image, rows, check, patch, counters, setting,
                   seen, crossed, failures, reported, notified>>

(* The process dies, and with it all that was under way.                   *)
Crash ==
    /\ check' = NoCheck /\ ask' = NoLookup /\ patch' = Idle
    /\ NoMoreUpdate
    /\ unrecorded' = (unrecorded \/ update.pc \in {"replaced", "ending"})
    /\ UNCHANGED <<registry, image, rows, counters, setting, seen, crossed,
                   failures, reported, notified>>

-----------------------------------------------------------------------------
(* The patch of a container's settings, for which a row is made if there   *)
(* is none.                                                                *)
SelectPatch ==
    /\ patch.pc = "idle"
    /\ patches < MaxPatches
    /\ patches' = patches + 1
    /\ \E r \in RowIds \cup {0}, object \in {rows[q] : q \in RowIds} \cup {NoRow} :
          /\ Selects(r, object)
          /\ patch' = [pc |-> "commit", row |-> r, object |-> object]
    /\ UNCHANGED <<registry, ask, image, rows, check, update, checks, updates,
                   setting, history>>

CommitPatch ==
    /\ patch.pc = "commit"
    /\ patch' = Idle
    /\ \E s \in Settings :
          /\ Commits(patch.row, patch.object, [patch.object EXCEPT !.setting = s])
          /\ setting' = s
    /\ UNCHANGED <<registry, ask, image, check, update, counters, history>>

Next ==
    \/ Publish
    \/ StartCheck \/ GiveUp \/ ReadRow \/ Look \/ Lookup \/ Judge
    \/ CommitCheck \/ CommitFails \/ Notify
    \/ StartUpdate \/ Replace \/ NotReplaced \/ EndUpdate \/ CommitUpdate
    \/ NotRecorded \/ Crash
    \/ SelectPatch \/ CommitPatch

Spec == Init /\ [][Next]_vars
-----------------------------------------------------------------------------
(* Between checks and updates the flag says what the last lookup showed:   *)
(* an update is available if the digest found is newer than the image, and *)
(* only then, although a check may have read the row before an update      *)
(* ended and written it after, and whatever failed or died on the way.     *)
(* Excepted is the flag that an update has left behind which brought the   *)
(* image and did not record it ("failed", "rolled_back", a failed write, a *)
(* crash), and two ways of crossing: a check that was given the container  *)
(* before it was recreated and read the row when the flag was not set, and *)
(* one that overlapped an update and found a still newer image than it     *)
(* pulled.  The next check that finds a digest and crosses no update puts  *)
(* the flag right in each case, and an unrecorded update never hides a     *)
(* newer image.                                                            *)
VerdictStands ==
    check.pc = "idle" /\ update.pc = "idle" /\ OneRow /\ ~crossed /\ seen # None
        => \A r \in Existing :
              /\ seen > image => rows[r].update
              /\ rows[r].update /\ ~unrecorded => seen > image

(* What a user has set stays set while checks and updates write the same   *)
(* row, however long ago they read it, unless two first writes have given  *)
(* the container two rows.                                                 *)
PatchKept == OneRow => \A r \in Existing : rows[r].setting = setting

(* A new image is reported as "available" once, and the next checks say    *)
(* "available(notified)", also after checks that were given up or died; it *)
(* is reported again only after a lookup that found nothing, which is      *)
(* stored as an empty digest, or after a report whose own commit failed.   *)
ReportedOnce ==
    OneRow => \A d \in Digests : reported[d] <= 1 + failures

(***************************************************************************)
(* The inductive invariant.                                                *)
(***************************************************************************)
Remotes == 0..MaxDigest

Rows == [update : BOOLEAN, remote : Remotes, setting : Settings, exists : BOOLEAN]

Lookups == [pc : {"off", "head", "token", "again", "answer", "over"}, left : Seq(Remotes),
            named : Remotes, scheme : {"https", "http"},
            status : {"none", "not modified", "ok"}, header : Remotes,
            found : Remotes, since : Remotes]

CheckRecords ==
    [pc : {"idle", "inspect", "look", "lookup", "commit", "notify"},
     row : RowIds \cup {0}, object : Rows, local : Remotes, all : BOOLEAN,
     verdict : {"none", "unknown", "not_available", "available",
                "available(notified)"},
     overlaps : BOOLEAN]

TypeOK ==
    /\ served \in Digests /\ insecure \in BOOLEAN /\ ask \in Lookups
    /\ image \in Remotes
    /\ rows \in [RowIds -> Rows]
    /\ check \in CheckRecords
    /\ update \in [pc : {"idle", "pulled", "replaced", "ending"},
                   row : RowIds \cup {0}, object : Rows, pulled : Remotes]
    /\ patch \in [pc : {"idle", "commit"}, row : RowIds \cup {0}, object : Rows]
    /\ checks \in Nat /\ updates \in Nat /\ patches \in Nat
    /\ setting \in Settings
    /\ seen \in Remotes /\ crossed \in BOOLEAN /\ unrecorded \in BOOLEAN /\ failures \in Nat
    /\ reported \in [Digests -> Nat]
    /\ notified \subseteq Remotes

UnderWay == check.pc \in {"inspect", "look", "lookup", "commit"}
HasRead  == check.pc \in {"look", "lookup", "commit"}

(* Digests only grow: nothing known is newer than what is served.          *)
NothingAhead ==
    /\ image # None /\ image <= served /\ seen <= served /\ update.pulled <= served
    /\ ask.since <= served
    /\ update.pc # "idle" => image <= update.pulled
    /\ update.pc \in {"replaced", "ending"} => image = update.pulled
    /\ \A r \in RowIds : rows[r].remote <= seen

Asking == {"head", "token", "again"}

(* A lookup names the digest it is at, and an answer holds nothing that    *)
(* was not served since the lookup began.                                  *)
AnswerIsNew ==
    /\ ask.pc \in Asking \cup {"answer"} => ask.found = None /\ ask.left # <<>>
    /\ ask.pc \in Asking => ask.named = Head(ask.left)
    /\ ask.pc = "answer" =>
          /\ ask.status = "not modified" => Head(ask.left) \in ask.since..served
          /\ ask.status = "ok" => ask.header \in {None} \cup ask.since..served
          /\ ask.status # "none"

(* A lookup finds nothing older than the check that began it knows of.     *)
LookupIsNew ==
    /\ AnswerIsNew
    /\ check.pc = "lookup" <=> ask.pc # "off"
    /\ UnderWay => check.local # None /\ check.local <= image
    /\ check.pc = "lookup" => seen <= ask.since /\ check.local <= ask.since
    /\ check.pc = "commit" =>
          /\ ask.found # None =>
                ask.found <= served /\ seen <= ask.found /\ check.local <= ask.found
          /\ check.verdict = "unknown" <=> ask.found = None
          /\ check.verdict = "not_available" <=> ask.found = check.local
          /\ check.verdict # "none"

(* What a check, an update and a patch have read of the row they will      *)
(* write: only they change the columns they write, but that the end of an  *)
(* update clears the flag.                                                 *)
ReadIsKept ==
    /\ HasRead =>
          IF check.row = 0 THEN check.object = NoRow
          ELSE /\ rows[check.row].exists
               /\ check.object.remote = rows[check.row].remote
               /\ rows[check.row].update => check.object.update
    /\ update.pc = "ending" => update.row # 0 /\ rows[update.row].exists
    /\ patch.pc = "commit" =>
          IF patch.row = 0 THEN patch.object = NoRow
          ELSE /\ rows[patch.row].exists
               /\ patch.object.setting = rows[patch.row].setting

(* An update that is under way, or has recreated the container, overlaps   *)
(* the check.                                                              *)
OverlapIsKnown ==
    UnderWay /\ (update.pc # "idle" \/ image # check.local) => check.overlaps

(* Before the first row nothing is known; without a lookup, no flag.       *)
NothingBeforeRows ==
    /\ Existing = {} => seen = None /\ setting = Default
    /\ seen = None => /\ \A r \in Existing : ~rows[r].update
                      /\ HasRead => ~check.object.update

(* The flag of the only row.  While an update is at the container, nothing *)
(* newer than its image has been found; when it ends, it clears the flag   *)
(* or the flag is not set; and only its end takes a flag from under a      *)
(* check.                                                                  *)
FlagHeld ==
    OneRow =>
      /\ update.pc \in {"idle", "pulled"} /\ ~crossed /\ seen # None =>
            \A r \in Existing :
                /\ seen > image => rows[r].update
                /\ rows[r].update /\ ~unrecorded => seen > image
      /\ update.pc # "idle" /\ ~crossed => seen <= update.pulled
      /\ update.pc = "ending" /\ ~crossed /\ seen # None =>
            update.object.update \/ ~rows[update.row].update
      /\ HasRead /\ check.row # 0 /\ check.object.update
            /\ ~rows[check.row].update =>
               check.overlaps /\ update.pc = "idle" /\ image = update.pulled

(* A digest that was reported once more than there were failures is in the *)
(* row, or the registry has moved on from it.                              *)
ReportsHeld ==
    OneRow =>
      /\ \A d \in Digests :
            reported[d] <= failures \/ d < seen
              \/ (\E r \in Existing : rows[r].remote = d)
      /\ HasRead /\ check.row = 0 => \A r \in Existing : rows[r].remote = None
      /\ check.pc = "commit" /\ check.verdict = "available" =>
            check.object.remote # ask.found

IInv ==
    /\ TypeOK /\ FoundIsServed /\ PatchKept /\ ReportedOnce
    /\ NothingAhead /\ LookupIsNew /\ ReadIsKept /\ OverlapIsKnown
    /\ NothingBeforeRows /\ FlagHeld /\ ReportsHeld

(* "available(notified)": it was in the previous notification (README,     *)
(* result options).                                                        *)
NotifiedWasSent ==
    check.pc = "commit" /\ check.verdict = "available(notified)"
        => ask.found \in notified
=============================================================================
