--------------------------- MODULE SessionsProofs ---------------------------
(***************************************************************************)
(* For any number of tabs, requests, logins and restarts, any life of a    *)
(* refresh token of at least two lives of an access token: the two cookies *)
(* come from one login, a logout that nothing crossed ends the session,    *)
(* and no request needlessly sends the user to the login page.             *)
(***************************************************************************)
EXTENDS Sessions, TLAPS

Cookies == [access : Tokens \cup {NoToken}, refresh : Tokens \cup {NoToken},
            state : Nat]

LEMMA TokenIsToken ==
    ASSUME now \in Nat, key \in Nat, NEW l \in Nat \ {0}, NEW p \in Providers,
           NEW life \in Nat
    PROVE  Token(l, p, life) \in Tokens
BY DEF Token, Tokens

(* What the backend grants is valid at the moment.                         *)
LEMMA GrantsAreValid ==
    ASSUME now \in Nat, key \in Nat, NEW l \in Nat \ {0}, NEW p \in Providers
    PROVE  Grants(l, p) \in Granted /\ Valid(Grants(l, p))
<1>1. Token(l, p, 1) \in Tokens /\ Token(l, p, RefreshLife) \in Tokens
    BY TokenIsToken, LifeAssumption
<1>2. Grants(l, p) \in Granted
    BY <1>1, LifeAssumption DEF Grants, Granted, Paired, Token
<1>3. Decodes(Grants(l, p).access) /\ Decodes(Grants(l, p).refresh)
    BY LifeAssumption DEF Grants, Token, Decodes, NoToken
<1> QED
    BY <1>2, <1>3 DEF Valid

LEMMA GrantedIsSomething == \A g \in Granted : g # Nothing
<1> SUFFICES ASSUME NEW g \in Granted, g = Nothing PROVE FALSE
    OBVIOUS
<1>1. "access" \in DOMAIN g
    BY DEF Granted
<1>2. DOMAIN g = {}
    BY DEF Nothing
<1> QED
    BY <1>1, <1>2

LEMMA RefreshedIsValid ==
    ASSUME TypeOK
    PROVE  /\ Refreshed(jar) \in {Nothing} \cup Granted
           /\ Valid(Refreshed(jar))
           /\ Refreshed(jar) = Nothing <=> ~MayRefresh(jar)
<1>1. CASE MayRefresh(jar)
    <2>1. jar.refresh \in Tokens
        BY <1>1 DEF MayRefresh, Decodes, TypeOK
    <2>2. jar.refresh.login \in Nat \ {0} /\ jar.refresh.provider \in Providers
        BY <2>1 DEF Tokens
    <2> QED
        BY <1>1, <2>2, GrantsAreValid, GrantedIsSomething DEF Refreshed, TypeOK
<1>2. CASE ~MayRefresh(jar)
    BY <1>2 DEF Refreshed, Valid
<1> QED
    BY <1>1, <1>2

(* Whoever has a token that could be renewed is refused nothing.           *)
LEMMA RefusedHasNothing ==
    ASSUME TypeOK, JarIsOld
    PROVE  /\ Renewable => MayRefresh(jar)
           /\ NoSession => Refreshed(jar) = Nothing
           /\ IsAuthorized(jar) = "401" /\ Renewed => ~Renewable
<1>1. Decodes(jar.access) => jar.access.provider = jar.refresh.provider
    BY DEF Decodes, JarIsOld, Paired
<1>2. Renewable => MayRefresh(jar)
    BY <1>1 DEF Renewable, MayRefresh, Active
<1>3. NoSession => Refreshed(jar) = Nothing
    BY DEF NoSession, Refreshed, MayRefresh
<1>4. IsAuthorized(jar) = "401" /\ Renewed => ~Renewable
    BY <1>1 DEF Renewed, Renewable, IsAuthorized, Active
<1> QED
    BY <1>2, <1>3, <1>4

(* What the browser has after each kind of response.                       *)
LEMMA StoresNothing ==
    ASSUME jar \in Cookies, Stores(Nothing) PROVE jar' = jar
BY DEF Stores, Nothing, Cookies

LEMMA StoresClears ==
    ASSUME jar \in Cookies, Stores(Clears)
    PROVE  jar' \in Cookies /\ jar'.access = NoToken /\ jar'.refresh = NoToken
BY DEF Stores, Clears, Cookies

LEMMA StoresState ==
    ASSUME jar \in Cookies, NEW r \in [state : Nat], Stores(r)
    PROVE  jar' \in Cookies /\ jar'.access = jar.access /\ jar'.refresh = jar.refresh
BY DEF Stores, Cookies

LEMMA StoresGranted ==
    ASSUME jar \in Cookies, NEW g \in Granted, Stores(g)
    PROVE  jar' \in Cookies /\ jar'.access = g.access /\ jar'.refresh = g.refresh
<1>1. CASE g \in [access : Tokens, refresh : Tokens]
    BY <1>1 DEF Stores, Cookies
<1>2. CASE g \in [access : Tokens, refresh : Tokens, state : Nat]
    BY <1>2 DEF Stores, Cookies
<1> QED
    BY <1>1, <1>2 DEF Granted

(* A response that no logout crosses brings its pair, or ends the session. *)
LEMMA AnswerArrives ==
    ASSUME TypeOK, JarIsOld, UNCHANGED <<now, key, enabled>>,
           NEW r, Stores(r),
           \/ Valid(r)
           \/ r = Clears
           \/ r \in [state : Nat]
    PROVE  /\ jar' \in Cookies
           /\ JarIsOld'
           /\ r = Nothing => jar' = jar
           /\ r = Clears => NoSession'
           /\ NoSession' => Renewed'
           /\ r \in [state : Nat] => /\ jar'.access = jar.access
                                     /\ jar'.refresh = jar.refresh
           /\ Valid(r) /\ r # Nothing => Renewed'
<1>0. jar \in Cookies /\ key \in Nat
    BY DEF TypeOK, Cookies
<1>1. NoSession' => Renewed'
    BY DEF NoSession, Renewed, Renewable
<1>2. CASE r = Nothing
    <2>1. jar' = jar
        BY <1>0, <1>2, StoresNothing
    <2>2. r # Clears /\ r \notin [state : Nat]
        BY <1>2 DEF Nothing, Clears
    <2> QED
        BY <1>0, <1>1, <1>2, <2>1, <2>2 DEF JarIsOld
<1>3. CASE r = Clears
    <2>1. /\ jar' \in Cookies
          /\ jar'.access = NoToken /\ jar'.refresh = NoToken
        BY <1>0, <1>3, StoresClears
    <2>2. r # Nothing /\ r \notin [state : Nat]
        BY <1>3 DEF Nothing, Clears
    <2>3. NoSession'
        BY <2>1 DEF NoSession, Decodes
    <2> QED
        BY <1>1, <1>3, <2>1, <2>2, <2>3 DEF JarIsOld
<1>4. CASE r \in [state : Nat]
    <2>1. /\ jar' \in Cookies
          /\ jar'.access = jar.access /\ jar'.refresh = jar.refresh
        BY <1>0, <1>4, StoresState
    <2>2. r # Nothing /\ r # Clears /\ r \notin Granted
        <3>1. DOMAIN r = {"state"}
            BY <1>4
        <3>2. DOMAIN Nothing = {} /\ "access" \in DOMAIN Clears
            BY DEF Nothing, Clears
        <3>3. \A g \in Granted : "access" \in DOMAIN g
            BY DEF Granted
        <3>4. r # Nothing
            BY <3>1, <3>2
        <3>5. r # Clears
            BY <3>1, <3>2
        <3>6. r \notin Granted
            BY <3>1, <3>3
        <3> QED
            BY <3>4, <3>5, <3>6
    <2> QED
        BY <1>1, <1>4, <2>1, <2>2 DEF JarIsOld, Valid
<1>5. CASE Valid(r) /\ r # Nothing
    <2>1. r \in Granted /\ Decodes(r.access) /\ Decodes(r.refresh)
        BY <1>5 DEF Valid
    <2>2. /\ jar' \in Cookies
          /\ jar'.access = r.access /\ jar'.refresh = r.refresh
        BY <1>0, <2>1, StoresGranted
    <2>3. Paired(r.access, r.refresh)
        BY <2>1 DEF Granted
    <2>4. JarIsOld'
        BY <1>0, <2>1, <2>2, <2>3 DEF JarIsOld, Decodes, Paired
    <2>5. Renewed'
        BY <2>1, <2>2 DEF Renewed, Decodes
    <2>6. r # Clears /\ r \notin [state : Nat]
        <3>1. r.access # NoToken /\ "access" \in DOMAIN r
            BY <2>1 DEF Decodes, Granted
        <3> QED
            BY <3>1 DEF Clears
    <2> QED
        BY <1>5, <2>2, <2>4, <2>5, <2>6
<1> QED
    BY <1>2, <1>3, <1>4, <1>5

-----------------------------------------------------------------------------
LEMMA InitHolds == Init => IInv
<1> SUFFICES ASSUME Init PROVE IInv
    OBVIOUS
<1>1. TypeOK
    BY DEF Init, TypeOK, NoState, Forms, PageRequests, NoCall, Replies
<1>2. JarIsOld /\ NoSession
    BY DEF Init, JarIsOld, NoSession, Decodes
<1>3. RepliesAreFresh
    BY DEF Init, RepliesAreFresh, Off, NoCall
<1>4. LogoutsAreAlone
    BY <1>2 DEF Init, LogoutsAreAlone, LoggingOut, Off, NoCall
<1>5. RefreshRenews
    BY DEF Init, RefreshRenews, Off, NoCall
<1> QED
    BY <1>1, <1>2, <1>3, <1>4, <1>5 DEF IInv

LEMMA AskHolds == ASSUME IInv, NEW p \in Pages, Ask(p) PROVE IInv'
<1>1. TypeOK'
    <2>1. IsAuthorized(jar) \in Answers
        BY DEF IsAuthorized, Answers
    <2>2. page'[p] \in PageRequests /\ page' \in [Pages -> PageRequests]
        BY <2>1 DEF Ask, IInv, TypeOK, PageRequests
    <2> QED
        BY <2>2 DEF Ask, IInv, TypeOK
<1>2. JarIsOld'
    BY DEF Ask, IInv, JarIsOld
<1>3. RepliesAreFresh'
    BY DEF Ask, IInv, RepliesAreFresh, Valid, Decodes
<1>4. LogoutsAreAlone'
    BY DEF Ask, IInv, LogoutsAreAlone, NoSession, Decodes, LoggingOut, Granting
<1>5. RefreshRenews'
    BY DEF Ask, IInv, TypeOK, RefreshRenews, Renewed, Renewable, Decodes
<1> QED
    BY <1>1, <1>2, <1>3, <1>4, <1>5 DEF IInv

LEMMA FirstAnswerHolds == ASSUME IInv, NEW p \in Pages, FirstAnswer(p) PROVE IInv'
<1> DEFINE t == TabOf[p]
<1>0. t \in Tabs
    BY TabOfAssumption
<1>1. CASE page[p].answer # "401"
    <2>1. page' = [page EXCEPT ![p] = Off] /\ UNCHANGED <<refreshing, refresh, crossed>>
        BY <1>1 DEF FirstAnswer
    <2>2. TypeOK'
        BY <2>1 DEF FirstAnswer, IInv, TypeOK, PageRequests, bounds
    <2>3. JarIsOld' /\ RepliesAreFresh' /\ LogoutsAreAlone'
        BY <2>1 DEF FirstAnswer, IInv, JarIsOld, RepliesAreFresh, Valid, Decodes,
                    LogoutsAreAlone, NoSession, LoggingOut, Granting
    <2>4. RefreshRenews'
        BY <2>1 DEF FirstAnswer, IInv, TypeOK, RefreshRenews, Renewed, Renewable,
                    Decodes, Off
    <2> QED
        BY <2>2, <2>3, <2>4 DEF IInv
<1>2. CASE page[p].answer = "401" /\ refreshing[t]
    <2>1. /\ page' = [page EXCEPT ![p] = [pc |-> "waiting", unanswered |-> FALSE]]
          /\ UNCHANGED <<refreshing, refresh, crossed>>
        BY <1>2 DEF FirstAnswer
    <2>2. TypeOK'
        BY <2>1 DEF FirstAnswer, IInv, TypeOK, PageRequests, bounds
    <2>3. JarIsOld' /\ RepliesAreFresh' /\ LogoutsAreAlone'
        BY <2>1 DEF FirstAnswer, IInv, JarIsOld, RepliesAreFresh, Valid, Decodes,
                    LogoutsAreAlone, NoSession, LoggingOut, Granting
    <2>4. RefreshRenews'
        BY <1>0, <1>2, <2>1 DEF FirstAnswer, IInv, TypeOK, RefreshRenews, Renewed,
                                Renewable, Decodes
    <2> QED
        BY <2>2, <2>3, <2>4 DEF IInv
<1>3. CASE page[p].answer = "401" /\ ~refreshing[t]
    <2> DEFINE sent == [pc |-> "sent", reply |-> Refreshed(jar)]
    <2>1. /\ page' = [page EXCEPT ![p] = [pc |-> "waiting", unanswered |-> FALSE]]
          /\ refreshing' = [refreshing EXCEPT ![t] = TRUE]
          /\ refresh' = [refresh EXCEPT ![t] = sent]
          /\ crossed' = (crossed \/ LoggingOut)
          /\ UNCHANGED <<now, key, enabled, jar, view, form, bounds, loggedOut>>
        BY <1>3 DEF FirstAnswer
    <2>2. /\ Refreshed(jar) \in {Nothing} \cup Granted
          /\ Valid(Refreshed(jar))
          /\ NoSession => Refreshed(jar) = Nothing
          /\ Refreshed(jar) = Nothing => ~Renewable
        BY RefreshedIsValid, RefusedHasNothing DEF IInv
    <2>3. TypeOK'
        <3>1. sent \in [pc : {"off", "sent"}, reply : Replies]
            BY <2>2 DEF Replies
        <3>2. LoggingOut \in BOOLEAN
            BY DEF LoggingOut
        <3> HIDE DEF sent
        <3>3. /\ page' \in [Pages -> PageRequests]
              /\ refreshing' \in [Tabs -> BOOLEAN]
              /\ refresh' \in [Tabs -> [pc : {"off", "sent"}, reply : Replies]]
            BY <2>1, <3>1 DEF IInv, TypeOK, PageRequests
        <3> QED
            BY <2>1, <3>2, <3>3 DEF IInv, TypeOK, bounds
    <2>4. \A u \in Tabs : refresh'[u] = IF u = t THEN sent ELSE refresh[u]
        BY <2>1 DEF IInv, TypeOK
    <2>5. JarIsOld' /\ RepliesAreFresh'
        BY <2>1, <2>2, <2>4 DEF IInv, JarIsOld, RepliesAreFresh, Valid, Decodes
    <2>6. LogoutsAreAlone'
        <3> SUFFICES ASSUME ~crossed' PROVE LogoutsAreAlone'
            BY DEF LogoutsAreAlone
        <3>1. ~crossed /\ ~LoggingOut /\ ~LoggingOut'
            BY <2>1 DEF LoggingOut, IInv, TypeOK
        <3> QED
            BY <2>1, <2>2, <2>4, <3>1 DEF IInv, LogoutsAreAlone, NoSession, Decodes,
                                          LoggingOut
    <2>7. RefreshRenews'
        BY <1>0, <2>1, <2>2, <2>4 DEF IInv, TypeOK, RefreshRenews, Renewed, Renewable,
                                      Decodes
    <2> QED
        BY <2>3, <2>5, <2>6, <2>7 DEF IInv
<1> QED
    BY <1>1, <1>2, <1>3

LEMMA RefreshEndsHolds == ASSUME IInv, NEW t \in Tabs, RefreshEnds(t) PROVE IInv'
<1> DEFINE r == refresh[t].reply
<1>1. PICK lost \in BOOLEAN :
          /\ IF lost THEN jar' = jar ELSE Stores(r)
          /\ page' = IF lost THEN Unanswered({t}) ELSE page
    BY DEF RefreshEnds
<1>2. /\ refresh[t].pc = "sent"
      /\ refresh' = [refresh EXCEPT ![t] = NoCall]
      /\ refreshing' = [refreshing EXCEPT ![t] = FALSE]
      /\ UNCHANGED <<now, key, enabled, view, form, bounds, loggedOut, crossed>>
    BY DEF RefreshEnds
<1>3. Valid(r) /\ (r = Nothing => Renewed)
    BY <1>2 DEF IInv, RepliesAreFresh, RefreshRenews
<1>4. \A u \in Tabs :
          /\ refresh'[u] = IF u = t THEN NoCall ELSE refresh[u]
          /\ refreshing'[u] = IF u = t THEN FALSE ELSE refreshing[u]
    BY <1>2 DEF IInv, TypeOK
<1>5. /\ jar' \in Cookies /\ JarIsOld'
      /\ lost \/ r = Nothing => jar' = jar
      /\ ~lost => Renewed'
      /\ Renewed => Renewed'
    <2>1. CASE lost
        BY <1>1, <1>2, <2>1 DEF IInv, TypeOK, Cookies, JarIsOld, Renewed, Renewable,
                                Decodes
    <2>2. CASE ~lost
        <3> HIDE DEF r
        <3>1. /\ jar' \in Cookies /\ JarIsOld'
              /\ r = Nothing => jar' = jar
              /\ r # Nothing => Renewed'
            BY <1>1, <1>2, <1>3, <2>2, AnswerArrives DEF IInv
        <3>2. r = Nothing => Renewed'
            BY <1>2, <1>3, <3>1 DEF Renewed, Renewable, Decodes
        <3> QED
            BY <2>2, <3>1, <3>2
    <2> QED
        BY <2>1, <2>2
<1>6. \A p \in Pages :
          \/ page'[p] = page[p] /\ (lost => page[p].pc # "waiting" \/ TabOf[p] # t)
          \/ page'[p] = [pc |-> "waiting", unanswered |-> TRUE]
    <2> SUFFICES ASSUME NEW p \in Pages, page[p].pc = "waiting", TabOf[p] = t, lost
                 PROVE  page'[p] = [pc |-> "waiting", unanswered |-> TRUE]
        BY <1>1 DEF Unanswered
    <2>1. page'[p] = [page[p] EXCEPT !.unanswered = TRUE]
        BY <1>1 DEF Unanswered
    <2>2. page[p] \in [pc : {"waiting"}, unanswered : BOOLEAN]
        BY DEF IInv, TypeOK, PageRequests, Off
    <2> QED
        BY <2>1, <2>2
<1>7. TypeOK'
    <2>1. page' \in [Pages -> PageRequests]
        <3>1. DOMAIN page' = Pages /\ page' = [p \in Pages |-> page'[p]]
            BY <1>1 DEF Unanswered, IInv, TypeOK
        <3>2. \A p \in Pages : page'[p] \in PageRequests
            <4>1. [pc |-> "waiting", unanswered |-> TRUE] \in PageRequests
                BY DEF PageRequests
            <4> QED
                BY <1>6, <4>1 DEF IInv, TypeOK
        <3> QED
            BY <3>1, <3>2
    <2>2. /\ refreshing' \in [Tabs -> BOOLEAN]
          /\ refresh' \in [Tabs -> [pc : {"off", "sent"}, reply : Replies]]
        BY <1>2 DEF IInv, TypeOK, NoCall, Replies
    <2> QED
        BY <1>2, <1>5, <2>1, <2>2 DEF IInv, TypeOK, bounds, Cookies
<1>8. RepliesAreFresh'
    BY <1>2, <1>4 DEF IInv, RepliesAreFresh, Valid, Decodes, NoCall
<1>9. LogoutsAreAlone'
    <2> SUFFICES ASSUME ~crossed' PROVE LogoutsAreAlone'
        BY DEF LogoutsAreAlone
    <2>1. /\ loggedOut => r = Nothing
          /\ ~LoggingOut /\ ~LoggingOut'
        BY <1>2 DEF IInv, LogoutsAreAlone, LoggingOut, Granting
    <2>2. loggedOut => jar' = jar
        BY <1>5, <2>1
    <2>3. loggedOut' =>
              /\ NoSession'
              /\ \A u \in Tabs : refresh'[u].pc = "sent" => refresh'[u].reply = Nothing
        BY <1>2, <1>4, <2>2 DEF IInv, LogoutsAreAlone, NoSession, Decodes, NoCall
    <2> QED
        BY <2>1, <2>3 DEF LogoutsAreAlone, LoggingOut
<1>10. RefreshRenews'
    <2>1. \A u \in Tabs :
              /\ refreshing'[u] <=> refresh'[u].pc = "sent"
              /\ refresh'[u].pc = "sent" /\ refresh'[u].reply = Nothing => Renewed'
        <3> TAKE u \in Tabs
        <3>1. CASE u = t
            <4>1. refreshing'[u] = FALSE /\ refresh'[u] = NoCall
                BY <1>4, <3>1
            <4>2. NoCall.pc = "off"
                BY DEF NoCall
            <4> QED
                BY <4>1, <4>2
        <3>2. CASE u # t
            BY <1>4, <1>5, <3>2 DEF IInv, RefreshRenews
        <3> QED
            BY <3>1, <3>2
    <2>2. ASSUME NEW p \in Pages
          PROVE  /\ page'[p].pc = "waiting" =>
                       page'[p].unanswered \/ refresh'[TabOf[p]].pc = "sent" \/ Renewed'
                 /\ page'[p].pc = "second" /\ page'[p].answer = "401" =>
                       ~page'[p].renewable \/ page'[p].excused
        <3>1. TabOf[p] \in Tabs
            BY TabOfAssumption
        <3>2. CASE page'[p] = [pc |-> "waiting", unanswered |-> TRUE]
            BY <3>2
        <3>3. CASE page'[p] = page[p] /\ (lost => page[p].pc # "waiting" \/ TabOf[p] # t)
            BY <1>4, <1>5, <3>1, <3>3 DEF IInv, RefreshRenews
        <3> QED
            BY <1>6, <3>2, <3>3
    <2> QED
        BY <2>1, <2>2 DEF RefreshRenews
<1> QED
    BY <1>5, <1>7, <1>8, <1>9, <1>10 DEF IInv

LEMMA RetryHolds == ASSUME IInv, NEW p \in Pages, Retry(p) PROVE IInv'
<1> DEFINE new == [pc |-> "second", answer |-> IsAuthorized(jar),
                   renewable |-> Renewable,
                   excused |-> page[p].unanswered \/ refresh[TabOf[p]].pc = "sent"]
<1>1. /\ page[p].pc = "waiting" /\ page' = [page EXCEPT ![p] = new]
      /\ UNCHANGED <<now, key, enabled, jar, view, form, refreshing, refresh,
                     bounds, loggedOut, crossed>>
    BY DEF Retry
<1>2. page[p].unanswered \in BOOLEAN
    BY <1>1 DEF IInv, TypeOK, PageRequests, Off
<1>3. new \in PageRequests
    <2>1. IsAuthorized(jar) \in Answers
        BY DEF IsAuthorized, Answers
    <2>2. Renewable \in BOOLEAN
        BY DEF Renewable, Decodes
    <2>3. (page[p].unanswered \/ refresh[TabOf[p]].pc = "sent") \in BOOLEAN
        BY <1>2
    <2> QED
        BY <2>1, <2>2, <2>3 DEF PageRequests
<1>4. /\ page[p].unanswered \/ refresh[TabOf[p]].pc = "sent" \/ Renewed
      /\ IsAuthorized(jar) = "401" /\ Renewed => ~Renewable
    BY <1>1, RefusedHasNothing DEF IInv, RefreshRenews
<1>5. new.answer = "401" => ~new.renewable \/ new.excused
    BY <1>4
<1>6. new.pc = "second"
    OBVIOUS
<1> HIDE DEF new
<1>7. \A q \in Pages : page'[q] = IF q = p THEN new ELSE page[q]
    BY <1>1 DEF IInv, TypeOK
<1>8. TypeOK'
    BY <1>1, <1>3 DEF IInv, TypeOK, bounds
<1>9. JarIsOld' /\ RepliesAreFresh' /\ LogoutsAreAlone'
    BY <1>1 DEF IInv, JarIsOld, RepliesAreFresh, Valid, Decodes,
                LogoutsAreAlone, NoSession, LoggingOut, Granting
<1>10. RefreshRenews'
    BY <1>1, <1>5, <1>6, <1>7 DEF IInv, RefreshRenews, Renewed, Renewable, Decodes
<1> QED
    BY <1>8, <1>9, <1>10 DEF IInv

LEMMA SecondAnswerHolds == ASSUME IInv, NEW p \in Pages, SecondAnswer(p) PROVE IInv'
<1>1. TypeOK'
    <2>1. view' \in [Tabs -> {"app", "auth", "idp"}]
        BY DEF SecondAnswer, IInv, TypeOK
    <2>2. page' \in [Pages -> PageRequests]
        BY DEF SecondAnswer, IInv, TypeOK, PageRequests
    <2> QED
        BY <2>1, <2>2 DEF SecondAnswer, IInv, TypeOK, bounds
<1>2. JarIsOld' /\ RepliesAreFresh' /\ LogoutsAreAlone'
    BY DEF SecondAnswer, IInv, JarIsOld, RepliesAreFresh, Valid, Decodes,
           LogoutsAreAlone, NoSession, LoggingOut, Granting
<1>3. RefreshRenews'
    BY DEF SecondAnswer, IInv, TypeOK, RefreshRenews, Renewed, Renewable, Decodes, Off
<1> QED
    BY <1>1, <1>2, <1>3 DEF IInv
-----------------------------------------------------------------------------
(* A request that may set cookies is sent.                                 *)
LEMMA SubmitHolds ==
    ASSUME IInv, NEW t \in Tabs, NEW pc \in {"login", "redirect", "callback"},
           NEW r \in Replies, NEW attempt \in Nat, Submit(t, pc, r, attempt),
           ~ (form[t].pc = "logout"),
           pc = "redirect" => /\ r \in [state : Nat] /\ attempt # NoState
                              /\ crossed' = crossed,
           pc # "redirect" => Valid(r) /\ crossed' = (crossed \/ LoggingOut),
           logins' \in Nat,
           UNCHANGED <<now, key, enabled, jar, view, page, refreshing, refresh,
                       pages, restarts, loggedOut>>
    PROVE  IInv'
<1> DEFINE new == [pc |-> pc, reply |-> r, attempt |-> attempt]
<1>1. new \in Forms
    BY DEF Forms
<1>2. /\ form' = [form EXCEPT ![t] = new]
      /\ \A u \in Tabs : form'[u] = IF u = t THEN new ELSE form[u]
    BY DEF Submit, IInv, TypeOK
<1>3. crossed' \in BOOLEAN /\ (crossed => crossed')
    BY DEF IInv, TypeOK, LoggingOut
<1>4. TypeOK'
    <2> HIDE DEF new
    <2> QED
        BY <1>1, <1>2, <1>3 DEF IInv, TypeOK
<1>5. JarIsOld'
    BY DEF IInv, JarIsOld
<1>6. RepliesAreFresh'
    BY <1>2 DEF IInv, RepliesAreFresh, Valid, Decodes
<1>7. LogoutsAreAlone'
    <2> SUFFICES ASSUME ~crossed' PROVE LogoutsAreAlone'
        BY DEF LogoutsAreAlone
    <2>1. \A u \in Tabs : form'[u].pc = "logout" =>
                              form[u].pc = "logout" /\ form'[u].reply = form[u].reply
        BY <1>2
    <2>2. LoggingOut' => pc = "redirect" /\ \A u \in Tabs : ~Granting(u)
        BY <1>3, <2>1 DEF IInv, LogoutsAreAlone, LoggingOut
    <2>3. LoggingOut' => \A u \in Tabs : ~Granting(u)'
        BY <1>2, <2>2 DEF Granting
    <2> QED
        BY <1>3, <2>1, <2>3 DEF IInv, LogoutsAreAlone, NoSession, Decodes
<1>8. RefreshRenews'
    BY DEF IInv, RefreshRenews, Renewed, Renewable, Decodes
<1> QED
    BY <1>4, <1>5, <1>6, <1>7, <1>8 DEF IInv

LEMMA LoginHolds == ASSUME IInv, NEW t \in Tabs, Login(t) PROVE IInv'
<1>1. /\ logins' = logins + 1 /\ logins' \in Nat \ {0} /\ NoState = 0
      /\ now \in Nat /\ key \in Nat
    BY DEF Login, IInv, TypeOK, NoState
<1>2. CASE \E r \in {Nothing} \cup (IF "password" \in enabled
                                    THEN {Grants(logins', "password")} ELSE {}) :
              Submit(t, "login", r, NoState) /\ crossed' = (crossed \/ LoggingOut)
    <2>1. PICK r \in {Nothing, Grants(logins', "password")} :
              Submit(t, "login", r, NoState) /\ crossed' = (crossed \/ LoggingOut)
        BY <1>2
    <2>2. Valid(r) /\ r \in Replies
        <3>1. CASE r = Nothing
            BY <3>1 DEF Valid, Replies
        <3>2. CASE r = Grants(logins', "password")
            BY <1>1, <3>2, GrantsAreValid DEF Replies, Providers
        <3> QED
            BY <3>1, <3>2
    <2> QED
        BY <1>1, <2>1, <2>2, SubmitHolds DEF Login
<1>3. CASE /\ Submit(t, "redirect", [state |-> logins'], logins')
           /\ crossed' = crossed
    <2>1. [state |-> logins'] \in [state : Nat] /\ [state |-> logins'] \in Replies
        BY <1>1 DEF Replies
    <2> QED
        BY <1>1, <1>3, <2>1, SubmitHolds DEF Login
<1> QED
    BY <1>2, <1>3 DEF Login

LEMMA CallbackHolds == ASSUME IInv, NEW t \in Tabs, Callback(t) PROVE IInv'
<1> DEFINE n == form[t].attempt
           new == Grants(n, "oidc")
           all == [access |-> new.access, refresh |-> new.refresh, state |-> NoState]
<1>1. form[t].pc = "idp" /\ n \in Nat \ {0} /\ now \in Nat /\ key \in Nat
    BY DEF Callback, IInv, TypeOK, Forms, Off, RepliesAreFresh, NoState
<1>2. PICK r \in {Nothing, all} : Submit(t, "callback", r, n)
    BY DEF Callback
<1>3. Valid(r) /\ r \in Replies
    <2>1. CASE r = Nothing
        BY <2>1 DEF Valid, Replies
    <2>2. CASE r = all
        <3>1. new \in Granted /\ Valid(new) /\ new # Nothing
            BY <1>1, GrantsAreValid, GrantedIsSomething DEF Providers
        <3>2. /\ new.access \in Tokens /\ new.refresh \in Tokens
              /\ Paired(new.access, new.refresh)
              /\ Decodes(new.access) /\ Decodes(new.refresh)
            BY <3>1 DEF Granted, Valid
        <3> HIDE DEF new
        <3>3. all \in Granted
            BY <3>2 DEF Granted, NoState
        <3> QED
            BY <2>2, <3>2, <3>3 DEF Valid, Replies
    <2> QED
        BY <2>1, <2>2
<1> QED
    BY <1>1, <1>2, <1>3, SubmitHolds DEF Callback, bounds, IInv, TypeOK

LEMMA LogoutSent == ASSUME IInv, NEW t \in Tabs, Logout(t) PROVE IInv'
<1> DEFINE r == LoggedOut(jar)
           new == [pc |-> "logout", reply |-> r, attempt |-> NoState]
<1>1. /\ form[t].pc = "off"
      /\ form' = [form EXCEPT ![t] = new]
      /\ \A u \in Tabs : form'[u] = IF u = t THEN new ELSE form[u]
      /\ loggedOut' = FALSE
      /\ crossed' = ((crossed /\ LoggingOut) \/ \E u \in Tabs : Granting(u))
      /\ UNCHANGED <<now, key, enabled, jar, view, page, refreshing, refresh, bounds>>
    BY DEF Logout, Submit, IInv, TypeOK
<1>2. r \in {Nothing, Clears} /\ (r = Nothing => NoSession)
    <2>1. Clears # Nothing
        <3>1. "access" \in DOMAIN Clears /\ DOMAIN Nothing = {}
            BY DEF Clears, Nothing
        <3> QED
            BY <3>1
    <2> QED
        BY <2>1 DEF LoggedOut, Active, NoSession
<1>3. new \in Forms
    BY <1>2 DEF Forms, Replies, NoState
<1> HIDE DEF r
<1>4. TypeOK'
    <2>1. crossed' \in BOOLEAN
        BY <1>1 DEF LoggingOut, Granting
    <2> HIDE DEF new
    <2> QED
        BY <1>1, <1>3, <2>1 DEF IInv, TypeOK, bounds
<1>5. JarIsOld' /\ RefreshRenews'
    BY <1>1 DEF IInv, JarIsOld, RefreshRenews, Renewed, Renewable, Decodes
<1>6. RepliesAreFresh'
    BY <1>1, <1>2 DEF IInv, RepliesAreFresh, Valid, Decodes
<1>7. LogoutsAreAlone'
    <2> SUFFICES ASSUME ~crossed' PROVE LogoutsAreAlone'
        BY DEF LogoutsAreAlone
    <2>1. \A u \in Tabs : ~Granting(u)
        BY <1>1
    <2>2. \A u \in Tabs : ~Granting(u)'
        BY <1>1, <2>1 DEF Granting
    <2>3. ASSUME NEW u \in Tabs, form'[u].pc = "logout", form'[u].reply = Nothing
          PROVE  NoSession
        <3>1. CASE u = t
            BY <1>1, <1>2, <2>3, <3>1
        <3>2. CASE u # t
            <4>1. form[u].pc = "logout" /\ form[u].reply = Nothing /\ LoggingOut
                BY <1>1, <2>3, <3>2 DEF LoggingOut
            <4>2. ~crossed
                BY <1>1, <4>1
            <4> QED
                BY <4>1, <4>2 DEF IInv, LogoutsAreAlone
        <3> QED
            BY <3>1, <3>2
    <2>4. NoSession => NoSession'
        BY <1>1 DEF NoSession, Decodes
    <2> QED
        BY <1>1, <2>2, <2>3, <2>4 DEF LogoutsAreAlone
<1> QED
    BY <1>4, <1>5, <1>6, <1>7 DEF IInv

LEMMA RedirectedHolds == ASSUME IInv, NEW t \in Tabs, Redirected(t) PROVE IInv'
<1> DEFINE r == form[t].reply
           new == [form[t] EXCEPT !.pc = "idp"]
<1>1. /\ form[t].pc = "redirect"
      /\ Stores(r)
      /\ form' = [form EXCEPT ![t] = new]
      /\ view' = [view EXCEPT ![t] = "idp"]
      /\ UNCHANGED <<now, key, enabled, page, refreshing, refresh, bounds,
                     loggedOut, crossed>>
    BY DEF Redirected
<1>2. r \in [state : Nat] /\ form[t].attempt # NoState
    BY <1>1 DEF IInv, RepliesAreFresh
<1>3. /\ jar' \in Cookies /\ JarIsOld'
      /\ jar'.access = jar.access /\ jar'.refresh = jar.refresh
    <2> HIDE DEF r
    <2> QED
        BY <1>1, <1>2, AnswerArrives DEF IInv
<1>4. new \in Forms /\ new.pc = "idp" /\ new.attempt # NoState
    <2>1. form[t] \in [pc : {"login", "redirect", "idp", "callback", "logout"},
                       reply : Replies, attempt : Nat]
        BY <1>1 DEF IInv, TypeOK, Forms, Off
    <2> QED
        BY <1>2, <2>1 DEF Forms
<1>5. \A u \in Tabs : form'[u] = IF u = t THEN new ELSE form[u]
    BY <1>1 DEF IInv, TypeOK
<1> HIDE DEF new
<1>6. TypeOK'
    BY <1>1, <1>3, <1>4 DEF IInv, TypeOK, bounds, Cookies
<1>7. RepliesAreFresh'
    BY <1>1, <1>4, <1>5 DEF IInv, RepliesAreFresh, Valid, Decodes
<1>8. LogoutsAreAlone'
    <2> SUFFICES ASSUME ~crossed' PROVE LogoutsAreAlone'
        BY DEF LogoutsAreAlone
    <2>1. LoggingOut' => LoggingOut
        BY <1>4, <1>5 DEF LoggingOut
    <2>2. \A u \in Tabs : ~Granting(u) => ~Granting(u)'
        BY <1>1, <1>4, <1>5 DEF Granting
    <2>3. \A u \in Tabs : form'[u].pc = "logout" => form'[u] = form[u]
        BY <1>4, <1>5
    <2>4. NoSession => NoSession'
        BY <1>1, <1>3 DEF NoSession, Decodes
    <2> QED
        BY <1>1, <2>1, <2>2, <2>3, <2>4 DEF IInv, LogoutsAreAlone
<1>9. RefreshRenews'
    BY <1>1, <1>3 DEF IInv, RefreshRenews, Renewed, Renewable, Decodes
<1> QED
    BY <1>3, <1>6, <1>7, <1>8, <1>9 DEF IInv

LEMMA SubmittedHolds == ASSUME IInv, NEW t \in Tabs, Submitted(t) PROVE IInv'
<1> DEFINE r == form[t].reply
           granted == form[t].pc # "logout" /\ r # Nothing
<1>1. /\ form[t].pc \in {"login", "callback", "logout"}
      /\ Stores(r)
      /\ view' = [view EXCEPT ![t] = IF granted THEN "app" ELSE "auth"]
      /\ loggedOut' = (form[t].pc = "logout" \/ (loggedOut /\ ~granted))
      /\ form' = [form EXCEPT ![t] = Off]
      /\ UNCHANGED <<now, key, enabled, page, refreshing, refresh, bounds, crossed>>
    BY DEF Submitted
<1>2. /\ form[t].pc # "logout" => Valid(r)
      /\ form[t].pc = "logout" => r \in {Nothing, Clears}
    BY <1>1 DEF IInv, RepliesAreFresh
<1>3. /\ jar' \in Cookies /\ JarIsOld'
      /\ r = Nothing => jar' = jar
      /\ r = Clears => NoSession'
      /\ NoSession' => Renewed'
      /\ Valid(r) /\ r # Nothing => Renewed'
    <2>1. Valid(r) \/ r = Clears
        BY <1>2 DEF Valid
    <2> HIDE DEF r
    <2> QED
        BY <1>1, <2>1, AnswerArrives DEF IInv
<1>4. r = Nothing => (NoSession => NoSession') /\ (Renewed => Renewed')
    BY <1>1, <1>3 DEF NoSession, Renewed, Renewable, Decodes
<1>5. \A u \in Tabs : form'[u] = IF u = t THEN Off ELSE form[u]
    BY <1>1 DEF IInv, TypeOK
<1>6. Off.pc = "off"
    BY DEF Off
<1>7. TypeOK'
    <2>1. view' \in [Tabs -> {"app", "auth", "idp"}] /\ loggedOut' \in BOOLEAN
        BY <1>1 DEF IInv, TypeOK
    <2>2. form' \in [Tabs -> Forms]
        BY <1>1 DEF IInv, TypeOK, Forms
    <2> QED
        BY <1>1, <1>3, <2>1, <2>2 DEF IInv, TypeOK, bounds, Cookies
<1>8. RepliesAreFresh'
    BY <1>1, <1>5, <1>6 DEF IInv, RepliesAreFresh, Valid, Decodes
<1>9. LogoutsAreAlone'
    <2> SUFFICES ASSUME ~crossed' PROVE LogoutsAreAlone'
        BY DEF LogoutsAreAlone
    <2>1. /\ LoggingOut => \A u \in Tabs : ~Granting(u)
          /\ loggedOut =>
                /\ NoSession
                /\ \A u \in Tabs : refresh[u].pc = "sent" => refresh[u].reply = Nothing
          /\ \A u \in Tabs : form[u].pc = "logout" /\ form[u].reply = Nothing => NoSession
        BY <1>1 DEF IInv, LogoutsAreAlone
    <2>2. LoggingOut' => LoggingOut
        BY <1>5, <1>6 DEF LoggingOut
    <2>3. \A u \in Tabs : ~Granting(u) => ~Granting(u)' /\ refresh'[u].pc # "sent"
        BY <1>1, <1>5, <1>6 DEF Granting
    <2>4. LoggingOut => form[t].pc = "logout"
        BY <1>1, <2>1 DEF Granting
    <2>5. form[t].pc = "logout" => NoSession' /\ \A u \in Tabs : refresh'[u].pc # "sent"
        <3> SUFFICES ASSUME form[t].pc = "logout"
                     PROVE  NoSession' /\ \A u \in Tabs : refresh'[u].pc # "sent"
            OBVIOUS
        <3>1. LoggingOut
            BY DEF LoggingOut
        <3>2. NoSession'
            BY <1>2, <1>3, <1>4, <2>1
        <3> QED
            BY <2>1, <2>3, <3>1, <3>2
    <2>6. loggedOut' =>
              /\ NoSession'
              /\ \A u \in Tabs : refresh'[u].pc = "sent" => refresh'[u].reply = Nothing
        <3>1. CASE form[t].pc = "logout"
            BY <2>5, <3>1
        <3>2. CASE form[t].pc # "logout" /\ loggedOut /\ r = Nothing
            BY <1>1, <1>4, <2>1, <3>2
        <3> QED
            BY <1>1, <3>1, <3>2
    <2>7. ASSUME NEW u \in Tabs, form'[u].pc = "logout" PROVE NoSession'
        <3>1. form[u].pc = "logout"
            BY <1>5, <1>6, <2>7
        <3>2. LoggingOut
            BY <3>1 DEF LoggingOut
        <3> QED
            BY <2>4, <2>5, <3>2
    <2> QED
        BY <2>1, <2>2, <2>3, <2>6, <2>7 DEF LogoutsAreAlone
<1>10. RefreshRenews'
    <2>1. Renewed => Renewed'
        BY <1>2, <1>3, <1>4
    <2> QED
        BY <1>1, <2>1 DEF IInv, RefreshRenews
<1> QED
    BY <1>3, <1>7, <1>8, <1>9, <1>10 DEF IInv

LEMMA LostHolds == ASSUME IInv, NEW t \in Tabs, Lost(t) PROVE IInv'
<1>1. /\ view' = [view EXCEPT ![t] = "auth"]
      /\ form' = [form EXCEPT ![t] = Off]
      /\ UNCHANGED <<now, key, enabled, jar, page, refreshing, refresh, bounds,
                     loggedOut, crossed>>
    BY DEF Lost
<1>2. \A u \in Tabs : form'[u] = IF u = t THEN Off ELSE form[u]
    BY <1>1 DEF IInv, TypeOK
<1>3. Off.pc = "off"
    BY DEF Off
<1>4. TypeOK'
    BY <1>1 DEF IInv, TypeOK, bounds, Forms
<1>5. JarIsOld' /\ RefreshRenews'
    BY <1>1 DEF IInv, JarIsOld, RefreshRenews, Renewed, Renewable, Decodes
<1>6. RepliesAreFresh'
    BY <1>1, <1>2, <1>3 DEF IInv, RepliesAreFresh, Valid, Decodes
<1>7. LogoutsAreAlone'
    BY <1>1, <1>2, <1>3 DEF IInv, LogoutsAreAlone, LoggingOut, Granting, NoSession,
                            Decodes
<1> QED
    BY <1>4, <1>5, <1>6, <1>7 DEF IInv

LEMMA OpenHolds == ASSUME IInv, NEW t \in Tabs, Open(t) PROVE IInv'
<1>1. TypeOK'
    BY DEF Open, IInv, TypeOK, bounds
<1>2. JarIsOld' /\ RepliesAreFresh' /\ LogoutsAreAlone' /\ RefreshRenews'
    BY DEF Open, IInv, JarIsOld, RepliesAreFresh, Valid, Decodes, LogoutsAreAlone,
           NoSession, LoggingOut, Granting, RefreshRenews, Renewed, Renewable
<1> QED
    BY <1>1, <1>2 DEF IInv
-----------------------------------------------------------------------------
(* When time passes, the access token is the first of its pair to expire.  *)
LEMMA TickHolds == ASSUME IInv, Tick PROVE IInv'
<1>1. /\ \A p \in Pages : page[p].pc \in {"off", "first"}
      /\ \A t \in Tabs : refresh[t].pc = "off" /\ form[t].pc \in {"off", "idp"}
      /\ now' = now + 1 /\ now \in Nat
      /\ jar'.access = Alive(jar.access) /\ jar'.refresh = Alive(jar.refresh)
      /\ UNCHANGED <<key, enabled, view, form, page, refreshing, refresh, bounds,
                     loggedOut, crossed>>
    BY DEF Tick, IInv, TypeOK
<1>2. jar.access \in Tokens \cup {NoToken} /\ jar.refresh \in Tokens \cup {NoToken}
    BY DEF IInv, TypeOK
<1>3. /\ jar'.access \in {jar.access, NoToken}
      /\ jar'.refresh \in {jar.refresh, NoToken}
      /\ jar'.access # NoToken => ~ (jar.access.exp <= now')
      /\ jar.refresh # NoToken /\ ~ (jar.refresh.exp <= now') => jar'.refresh = jar.refresh
    BY <1>1 DEF Alive
<1>4. TypeOK'
    <2>1. jar' \in Cookies
        BY <1>2 DEF Tick, Alive, Cookies, NoState
    <2> QED
        BY <1>1, <2>1 DEF IInv, TypeOK, bounds, Cookies
<1>5. JarIsOld'
    <2>1. ASSUME jar'.access # NoToken
          PROVE  /\ jar'.refresh # NoToken /\ Paired(jar'.access, jar'.refresh)
                 /\ jar'.access.key <= key
        <3>1. /\ jar'.access = jar.access /\ jar.refresh # NoToken
              /\ Paired(jar.access, jar.refresh) /\ jar.access.key <= key
              /\ ~ (jar.access.exp <= now')
            BY <1>3, <2>1 DEF IInv, JarIsOld
        <3>2. jar.access.exp \in Nat /\ jar.refresh.exp \in Nat
            BY <1>2, <2>1, <3>1 DEF Tokens
        <3>3. ~ (jar.refresh.exp <= now')
            BY <1>1, <3>1, <3>2 DEF Paired
        <3> QED
            BY <1>3, <3>1, <3>3
    <2> QED
        BY <1>1, <1>3, <2>1 DEF IInv, JarIsOld
<1>6. RepliesAreFresh'
    BY <1>1 DEF IInv, RepliesAreFresh
<1>7. LogoutsAreAlone'
    <2>1. NoSession => NoSession'
        <3>1. ASSUME NEW token \in Tokens, token.exp > now' PROVE token.exp > now
            BY <1>1, <3>1 DEF Tokens
        <3> QED
            BY <1>1, <1>2, <1>3, <3>1 DEF NoSession, Decodes
    <2> QED
        BY <1>1, <2>1 DEF IInv, LogoutsAreAlone, LoggingOut
<1>8. RefreshRenews'
    BY <1>1 DEF IInv, RefreshRenews
<1> QED
    BY <1>4, <1>5, <1>6, <1>7, <1>8 DEF IInv

(* No token of an earlier key decodes under a new one.                     *)
LEMMA RestartHolds == ASSUME IInv, Restart PROVE IInv'
<1>1. /\ key' \in {key, key + 1} /\ key \in Nat
      /\ enabled' \in SUBSET Providers
      /\ restarts' = restarts + 1
      /\ UNCHANGED <<now, jar, logins, pages, loggedOut, crossed>>
    BY DEF Restart, IInv, TypeOK
<1>2. ASSUME NEW t \in Tabs
      PROVE  /\ refresh'[t].pc = "off" /\ ~refreshing'[t]
             /\ form'[t].pc \in {"off", "idp"}
             /\ form'[t].pc = "idp" => form'[t] = form[t]
             /\ form'[t] \in Forms
    <2>1. refresh'[t] = NoCall /\ refreshing'[t] = FALSE
        BY DEF Restart
    <2>2. form'[t] = IF form[t].pc = "idp" THEN form[t] ELSE Off
        BY DEF Restart
    <2> QED
        BY <2>1, <2>2 DEF NoCall, Off, Forms, IInv, TypeOK
<1>3. ASSUME NEW p \in Pages
      PROVE  page'[p] \in {Off, [pc |-> "waiting", unanswered |-> TRUE]}
    <2>1. CASE page[p].pc = "waiting"
        <3>1. page'[p] = [page[p] EXCEPT !.unanswered = TRUE]
            BY <2>1, TabOfAssumption DEF Restart, Unanswered
        <3>2. page[p] \in [pc : {"waiting"}, unanswered : BOOLEAN]
            BY <2>1 DEF IInv, TypeOK, PageRequests, Off
        <3> QED
            BY <3>1, <3>2
    <2>2. CASE page[p].pc # "waiting"
        BY <2>2 DEF Restart
    <2> QED
        BY <2>1, <2>2
<1>4. TypeOK'
    <2>1. page' \in [Pages -> PageRequests]
        <3>1. page' = [p \in Pages |-> page'[p]]
            BY DEF Restart
        <3>2. /\ Off \in PageRequests
              /\ [pc |-> "waiting", unanswered |-> TRUE] \in PageRequests
            BY DEF PageRequests
        <3>3. \A p \in Pages : page'[p] \in PageRequests
            BY <1>3, <3>2
        <3> QED
            BY <3>1, <3>3
    <2>2. form' \in [Tabs -> Forms]
        <3>1. form' = [t \in Tabs |-> form'[t]]
            BY DEF Restart
        <3> QED
            BY <1>2, <3>1
    <2>3. view' \in [Tabs -> {"app", "auth", "idp"}]
        BY DEF Restart, IInv, TypeOK
    <2>4. /\ refresh' \in [Tabs -> [pc : {"off", "sent"}, reply : Replies]]
          /\ refreshing' \in [Tabs -> BOOLEAN]
        BY DEF Restart, NoCall, Replies
    <2> QED
        BY <1>1, <2>1, <2>2, <2>3, <2>4 DEF IInv, TypeOK
<1>5. JarIsOld'
    <2>1. ASSUME NEW token \in Tokens, token.key <= key PROVE token.key <= key'
        BY <1>1, <2>1 DEF Tokens
    <2> QED
        BY <1>1, <2>1 DEF IInv, TypeOK, JarIsOld
<1>6. RepliesAreFresh'
    BY <1>2 DEF IInv, RepliesAreFresh
<1>7. LogoutsAreAlone'
    <2>1. ASSUME NEW token \in Tokens, token.key <= key, token.key = key'
          PROVE  token.key = key
        BY <1>1, <2>1 DEF Tokens
    <2>2. NoSession => NoSession'
        BY <1>1, <2>1 DEF NoSession, Decodes, IInv, TypeOK, JarIsOld
    <2> QED
        BY <1>1, <1>2, <2>2 DEF IInv, LogoutsAreAlone, LoggingOut, Granting
<1>8. RefreshRenews'
    BY <1>2, <1>3 DEF RefreshRenews, Off
<1> QED
    BY <1>4, <1>5, <1>6, <1>7, <1>8 DEF IInv
-----------------------------------------------------------------------------
LEMMA NextHolds == IInv /\ [Next]_vars => IInv'
<1> SUFFICES ASSUME IInv, [Next]_vars PROVE IInv'
    OBVIOUS
<1>1. CASE \E p \in Pages : Ask(p) \/ FirstAnswer(p) \/ Retry(p) \/ SecondAnswer(p)
    BY <1>1, AskHolds, FirstAnswerHolds, RetryHolds, SecondAnswerHolds
<1>2. CASE \E t \in Tabs :
              \/ RefreshEnds(t)
              \/ Login(t) \/ Redirected(t) \/ Callback(t)
              \/ Logout(t) \/ Submitted(t) \/ Lost(t) \/ Open(t)
    BY <1>2, RefreshEndsHolds, LoginHolds, RedirectedHolds, CallbackHolds, LogoutSent,
       SubmittedHolds, LostHolds, OpenHolds
<1>3. CASE Tick \/ Restart
    BY <1>3, TickHolds, RestartHolds
<1>4. CASE UNCHANGED vars
    BY <1>4 DEF vars, browser, bounds, IInv, TypeOK, JarIsOld, RepliesAreFresh, Valid,
                Decodes, LogoutsAreAlone, NoSession, LoggingOut, Granting,
                RefreshRenews, Renewed, Renewable
<1> QED
    BY <1>1, <1>2, <1>3, <1>4 DEF Next

(* The invariant that the others follow from.                              *)
THEOREM InductiveInvariant == Spec => []IInv
BY InitHolds, NextHolds, PTL DEF Spec

(* PairIsOne: however answers overtake each other, jar.access and          *)
(* jar.refresh are of one login of one provider.                           *)
THEOREM CookiesAreOfOneLogin == Spec => []PairIsOne
<1>1. IInv => PairIsOne
    BY DEF IInv, JarIsOld, PairIsOne, Paired
<1> QED
    BY <1>1, InductiveInvariant, PTL

(* LogoutHolds: no token of the jar decodes after a logout that no request *)
(* that sets cookies overlapped.                                           *)
THEOREM LogoutEndsSession == Spec => []LogoutHolds
<1>1. IInv => LogoutHolds
    BY DEF IInv, LogoutsAreAlone, LogoutHolds, NoSession
<1> QED
    BY <1>1, InductiveInvariant, PTL

(* NoNeedlessLogin: the second 401 of a request sends its tab to the login *)
(* page only where there was nothing to renew the session with, or where   *)
(* the refresh it waited for had got no answer.                            *)
THEOREM LoginIsNeeded == Spec => NoNeedlessLogin
<1> DEFINE Step == \A p \in Pages :
              page[p].pc = "second" /\ page'[p] = Off /\ view[TabOf[p]] = "app"
                  /\ view'[TabOf[p]] = "auth" /\ restarts' = restarts
              => ~page[p].renewable \/ page[p].excused
<1>1. IInv /\ [Next]_vars => [Step]_vars
    <2> SUFFICES ASSUME IInv, Next, NEW p \in Pages,
                        page[p].pc = "second", page'[p] = Off,
                        view[TabOf[p]] = "app", view'[TabOf[p]] = "auth",
                        restarts' = restarts
                 PROVE  ~page[p].renewable \/ page[p].excused
        OBVIOUS
    <2>1. page' # page /\ view' # view
        BY DEF Off
    <2>2. PICK q \in Pages : SecondAnswer(q)
        <3>1. ~ (\E q \in Pages : Ask(q) \/ FirstAnswer(q) \/ Retry(q))
            BY <2>1 DEF Ask, FirstAnswer, Retry
        <3>2. ~ (\E t \in Tabs :
                    \/ RefreshEnds(t)
                    \/ Login(t) \/ Redirected(t) \/ Callback(t)
                    \/ Logout(t) \/ Submitted(t) \/ Lost(t) \/ Open(t))
            BY <2>1 DEF RefreshEnds, Login, Redirected, Callback, Logout, Submitted,
                        Lost, Open
        <3>3. ~Tick /\ ~Restart
            BY <2>1 DEF Tick, Restart, IInv, TypeOK
        <3> QED
            BY <3>1, <3>2, <3>3 DEF Next
    <2>3. q = p
        BY <2>2 DEF SecondAnswer, IInv, TypeOK, Off
    <2>4. page[p].answer = "401"
        BY <2>1, <2>2, <2>3 DEF SecondAnswer
    <2> QED
        BY <2>4 DEF IInv, RefreshRenews
<1> QED
    BY <1>1, InductiveInvariant, PTL DEF Spec, NoNeedlessLogin
=============================================================================
