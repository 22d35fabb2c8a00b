------------------------------ MODULE Sessions ------------------------------
(***************************************************************************)
(* Sessions of the web interface: a browser whose tabs share one jar of    *)
(* cookies, and the backend, which keeps nothing of a session but what it  *)
(* has signed into the two tokens.  A request carries the cookies of the   *)
(* moment it is sent; the cookies of its response are stored when that     *)
(* arrives, so responses to different tabs may overtake each other.  The   *)
(* interceptor of a tab answers a 401 by one refresh for all requests of   *)
(* the tab, and sends each of them once more.                              *)
(*                                                                         *)
(* Time passes in units of the life of an access token (5 minutes, the     *)
(* life of the state cookie too); the refresh itself takes no such time.   *)
(***************************************************************************)
EXTENDS Naturals

CONSTANTS
    Tabs, Pages,      \* requests for data, several of which share a tab
    TabOf,            \* the tab of each page
    RefreshLife,      \* life of a refresh token
    MaxTime,          \* bound: the clock
    MaxLogins,        \* bound: logins that are started
    MaxPages,         \* bound: requests for data
    MaxRestarts       \* bound: restarts of the backend

Providers == {"password", "oidc"}

ASSUME TabOfAssumption == TabOf \in [Pages -> Tabs]
ASSUME LifeAssumption == RefreshLife \in Nat \ {0, 1}

VARIABLES
    now,
    key,         \* JWT_SECRET_KEY, a fresh one after a restart if not set
    enabled,     \* providers
    jar,         \* the cookies of the browser
    view,        \* tab -> "app", "auth", or at the identity provider, "idp"
    form,        \* tab -> the login or logout that is under way
    page,        \* page -> its request
    refreshing,  \* tab -> isRefreshing$
    refresh,     \* tab -> the request for new tokens
    logins, pages, restarts,
    loggedOut,   \* the last thing done to the session was a logout
    crossed      \* requests that could set cookies overlapped that logout

bounds  == <<logins, pages, restarts>>
browser == <<jar, view, form, page, refreshing, refresh>>
vars    == <<now, key, enabled, browser, bounds, loggedOut, crossed>>

NoToken == [login |-> 0]
Token(login, provider, life) ==
    [login |-> login, provider |-> provider, key |-> key, exp |-> now + life]

NoState == 0

(* A reply is the cookies that it sets.                                    *)
Nothing == <<>>
Clears  == [access |-> NoToken, refresh |-> NoToken]
Grants(login, provider) ==
    [access  |-> Token(login, provider, 1),
     refresh |-> Token(login, provider, RefreshLife)]

Off    == [pc |-> "off"]
NoCall == [pc |-> "off", reply |-> Nothing]

Init ==
    /\ now = 0 /\ key = 0
    /\ enabled \in SUBSET Providers
    /\ jar = [access |-> NoToken, refresh |-> NoToken, state |-> NoState]
    /\ view = [t \in Tabs |-> "auth"]
    /\ form = [t \in Tabs |-> Off]
    /\ page = [p \in Pages |-> Off]
    /\ refreshing = [t \in Tabs |-> FALSE]
    /\ refresh = [t \in Tabs |-> NoCall]
    /\ logins = 0 /\ pages = 0 /\ restarts = 0
    /\ loggedOut = TRUE /\ crossed = FALSE
-----------------------------------------------------------------------------
(* The backend answers from the cookies of a request alone.                *)
Decodes(token) == token # NoToken /\ token.key = key /\ token.exp > now

(* active_auth_provider: the one of the first token that decodes.          *)
Active(cookies) ==
    IF Decodes(cookies.access) THEN {cookies.access.provider}
    ELSE IF Decodes(cookies.refresh) THEN {cookies.refresh.provider}
    ELSE {}

IsAuthorized(cookies) ==
    IF Active(cookies) = {} THEN "401"
    ELSE IF ~ (Active(cookies) \subseteq enabled) THEN "403"
    ELSE IF Decodes(cookies.access) THEN "ok" ELSE "401"

MayRefresh(cookies) ==
    /\ Active(cookies) # {}
    /\ Active(cookies) \subseteq enabled
    /\ Decodes(cookies.refresh)
    /\ Active(cookies) = {cookies.refresh.provider}

(* Mutant of Refreshed: only the access token is made anew.                *)
RefreshedAccess(cookies) ==
    LET old == cookies.refresh
    IN  IF MayRefresh(cookies) THEN [access |-> Token(old.login, old.provider, 1)]
                               ELSE Nothing

(* The new tokens take provider and user over from the refresh token.      *)
Refreshed(cookies) ==
    LET old == cookies.refresh
    IN  IF MayRefresh(cookies) THEN Grants(old.login, old.provider) ELSE Nothing

(* Mutant of LoggedOut: the refresh token stays.                           *)
LoggedOutOfPages(cookies) ==
    IF Active(cookies) # {} THEN [access |-> NoToken] ELSE Nothing

(* Without an active provider nothing is deleted.                          *)
LoggedOut(cookies) == IF Active(cookies) # {} THEN Clears ELSE Nothing

(* The browser stores what a response sets.                                *)
Stores(reply) ==
    jar' = [c \in DOMAIN jar |-> IF c \in DOMAIN reply THEN reply[c] ELSE jar[c]]
-----------------------------------------------------------------------------
(* The interceptor.                                                        *)
Ask(p) ==
    /\ page[p].pc = "off"
    /\ view[TabOf[p]] = "app"
    /\ pages < MaxPages
    /\ pages' = pages + 1
    /\ page' = [page EXCEPT ![p] = [pc |-> "first", answer |-> IsAuthorized(jar)]]
    /\ UNCHANGED <<now, key, enabled, jar, view, form, refreshing, refresh,
                   logins, restarts, loggedOut, crossed>>

LoggingOut == \E t \in Tabs : form[t].pc = "logout"

(* Only a 401 makes the tab refresh, once for all that wait for it.        *)
FirstAnswer(p) ==
    LET t == TabOf[p]
    IN  /\ page[p].pc = "first"
        /\ IF page[p].answer = "401"
           THEN /\ page' = [page EXCEPT ![p] = [pc |-> "waiting",
                                                unanswered |-> FALSE]]
                /\ IF refreshing[t]
                   THEN UNCHANGED <<refreshing, refresh, crossed>>
                   ELSE /\ refreshing' = [refreshing EXCEPT ![t] = TRUE]
                        /\ refresh' = [refresh EXCEPT ![t] =
                              [pc |-> "sent", reply |-> Refreshed(jar)]]
                        /\ crossed' = (crossed \/ LoggingOut)
           ELSE /\ page' = [page EXCEPT ![p] = Off]
                /\ UNCHANGED <<refreshing, refresh, crossed>>
        /\ UNCHANGED <<now, key, enabled, jar, view, form, bounds, loggedOut>>

(* The requests that wait for the refresh of one of the tabs.              *)
Unanswered(tabs) ==
    [p \in Pages |->
        IF page[p].pc = "waiting" /\ TabOf[p] \in tabs
        THEN [page[p] EXCEPT !.unanswered = TRUE] ELSE page[p]]

(* Mutant of RefreshEnds: an error leaves isRefreshing$ on.                *)
RefreshEndsQuietly(t) ==
    /\ refresh[t].pc = "sent"
    /\ refresh' = [refresh EXCEPT ![t] = NoCall]
    /\ \E lost \in BOOLEAN :
          /\ IF lost THEN jar' = jar ELSE Stores(refresh[t].reply)
          /\ page' = IF lost THEN Unanswered({t}) ELSE page
          /\ refreshing' = [refreshing EXCEPT ![t] = lost]
    /\ UNCHANGED <<now, key, enabled, view, form, bounds, loggedOut, crossed>>

(* New tokens, a refusal, or an error of the network: the flag goes off.   *)
RefreshEnds(t) ==
    /\ refresh[t].pc = "sent"
    /\ refresh' = [refresh EXCEPT ![t] = NoCall]
    /\ \E lost \in BOOLEAN :
          /\ IF lost THEN jar' = jar ELSE Stores(refresh[t].reply)
          /\ page' = IF lost THEN Unanswered({t}) ELSE page
    /\ refreshing' = [refreshing EXCEPT ![t] = FALSE]
    /\ UNCHANGED <<now, key, enabled, view, form, bounds, loggedOut, crossed>>

Renewable == Decodes(jar.refresh) /\ jar.refresh.provider \in enabled

(* The request is sent once more when the flag goes off, or after ten      *)
(* seconds of waiting for that.                                            *)
Retry(p) ==
    LET t == TabOf[p]
    IN  /\ page[p].pc = "waiting"
        /\ page' = [page EXCEPT ![p] =
              [pc |-> "second", answer |-> IsAuthorized(jar),
               renewable |-> Renewable,
               excused |-> page[p].unanswered \/ refresh[t].pc = "sent"]]
        /\ UNCHANGED <<now, key, enabled, jar, view, form, refreshing, refresh,
                       bounds, loggedOut, crossed>>

SecondAnswer(p) ==
    /\ page[p].pc = "second"
    /\ view' = IF page[p].answer = "401" THEN [view EXCEPT ![TabOf[p]] = "auth"]
                                         ELSE view
    /\ page' = [page EXCEPT ![p] = Off]
    /\ UNCHANGED <<now, key, enabled, jar, form, refreshing, refresh, bounds,
                   loggedOut, crossed>>
-----------------------------------------------------------------------------
(* Logging in and out.  A login may be refused: a wrong password, no       *)
(* password set, an error of the identity provider, an ID token that does  *)
(* not verify, an identity that is not on the list.                        *)
Granting(t) == refresh[t].pc = "sent" \/ form[t].pc \in {"login", "callback"}

Submit(t, pc, reply, attempt) ==
    form' = [form EXCEPT ![t] = [pc |-> pc, reply |-> reply, attempt |-> attempt]]

Login(t) ==
    /\ view[t] = "auth" /\ form[t].pc = "off"
    /\ logins < MaxLogins
    /\ logins' = logins + 1
    /\ \/ /\ \E reply \in {Nothing} \cup
                 (IF "password" \in enabled THEN {Grants(logins', "password")}
                                            ELSE {}) :
                Submit(t, "login", reply, NoState)
          /\ crossed' = (crossed \/ LoggingOut)
       \/ /\ "oidc" \in enabled
          /\ Submit(t, "redirect", [state |-> logins'], logins')
          /\ crossed' = crossed
    /\ UNCHANGED <<now, key, enabled, jar, view, page, refreshing, refresh,
                   pages, restarts, loggedOut>>

(* The state cookie is stored, and the tab leaves for the provider.        *)
Redirected(t) ==
    /\ form[t].pc = "redirect"
    /\ Stores(form[t].reply)
    /\ form' = [form EXCEPT ![t].pc = "idp"]
    /\ view' = [view EXCEPT ![t] = "idp"]
    /\ UNCHANGED <<now, key, enabled, page, refreshing, refresh, bounds,
                   loggedOut, crossed>>

(* The state the provider hands back has to be the one in the cookie.      *)
Callback(t) ==
    /\ form[t].pc = "idp"
    /\ \E reply \in {Nothing} \cup
           (IF "oidc" \in enabled /\ jar.state = form[t].attempt
            THEN LET new == Grants(form[t].attempt, "oidc")
                 IN  {[access |-> new.access, refresh |-> new.refresh,
                       state |-> NoState]}
            ELSE {}) :
          Submit(t, "callback", reply, form[t].attempt)
    /\ crossed' = (crossed \/ LoggingOut)
    /\ UNCHANGED <<now, key, enabled, jar, view, page, refreshing, refresh,
                   bounds, loggedOut>>

Logout(t) ==
    /\ view[t] = "app" /\ form[t].pc = "off"
    /\ Submit(t, "logout", LoggedOut(jar), NoState)
    /\ loggedOut' = FALSE
    /\ crossed' = ((crossed /\ LoggingOut) \/ \E u \in Tabs : Granting(u))
    /\ UNCHANGED <<now, key, enabled, jar, view, page, refreshing, refresh,
                   bounds>>

(* The tab shows the login page after a logout in any case.                *)
Submitted(t) ==
    /\ form[t].pc \in {"login", "callback", "logout"}
    /\ Stores(form[t].reply)
    /\ LET granted == form[t].pc # "logout" /\ form[t].reply # Nothing
       IN  /\ view' = [view EXCEPT ![t] = IF granted THEN "app" ELSE "auth"]
           /\ loggedOut' = (form[t].pc = "logout" \/ (loggedOut /\ ~granted))
    /\ form' = [form EXCEPT ![t] = Off]
    /\ UNCHANGED <<now, key, enabled, page, refreshing, refresh, bounds, crossed>>

Lost(t) ==
    /\ form[t].pc \notin {"off", "idp"}
    /\ view' = [view EXCEPT ![t] = "auth"]
    /\ form' = [form EXCEPT ![t] = Off]
    /\ UNCHANGED <<now, key, enabled, jar, page, refreshing, refresh, bounds,
                   loggedOut, crossed>>

(* A tab that is opened, or reloaded, when another one has logged in.      *)
Open(t) ==
    /\ view[t] = "auth" /\ form[t].pc = "off"
    /\ IsAuthorized(jar) = "ok"
    /\ view' = [view EXCEPT ![t] = "app"]
    /\ UNCHANGED <<now, key, enabled, jar, form, page, refreshing, refresh,
                   bounds, loggedOut, crossed>>
-----------------------------------------------------------------------------
Alive(token) == IF token # NoToken /\ token.exp <= now' THEN NoToken ELSE token

(* The browser drops cookies at their max_age, the life of the token.  A   *)
(* request that sets cookies takes seconds, and no such time passes in it. *)
Tick ==
    /\ now < MaxTime
    /\ \A p \in Pages : page[p].pc \in {"off", "first"}
    /\ \A t \in Tabs : refresh[t].pc = "off" /\ form[t].pc \in {"off", "idp"}
    /\ now' = now + 1
    /\ jar' = [access |-> Alive(jar.access), refresh |-> Alive(jar.refresh),
               state |-> NoState]
    /\ UNCHANGED <<key, enabled, view, form, page, refreshing, refresh, bounds,
                   loggedOut, crossed>>

(* The backend is started with the same key or a new one, and with other   *)
(* providers if its environment was changed; what was under way fails.     *)
Restart ==
    /\ restarts < MaxRestarts
    /\ restarts' = restarts + 1
    /\ key' \in {key, key + 1}
    /\ enabled' \in SUBSET Providers
    /\ page' = [p \in Pages |->
                  IF page[p].pc = "waiting" THEN Unanswered(Tabs)[p] ELSE Off]
    /\ refresh' = [t \in Tabs |-> NoCall]
    /\ refreshing' = [t \in Tabs |-> FALSE]
    /\ form' = [t \in Tabs |-> IF form[t].pc = "idp" THEN form[t] ELSE Off]
    /\ view' = [t \in Tabs |->
                  IF form[t].pc \notin {"off", "idp"} THEN "auth" ELSE view[t]]
    /\ UNCHANGED <<now, jar, logins, pages, loggedOut, crossed>>

Next ==
    \/ \E p \in Pages : Ask(p) \/ FirstAnswer(p) \/ Retry(p) \/ SecondAnswer(p)
    \/ \E t \in Tabs :
          \/ RefreshEnds(t)
          \/ Login(t) \/ Redirected(t) \/ Callback(t)
          \/ Logout(t) \/ Submitted(t) \/ Lost(t) \/ Open(t)
    \/ Tick
    \/ Restart

Spec == Init /\ [][Next]_vars
-----------------------------------------------------------------------------
(* However responses to different tabs overtake each other, the two        *)
(* cookies come from the same login: the provider that the access token    *)
(* names finds a refresh token of its own.                                 *)
PairIsOne ==
    jar.access # NoToken =>
        /\ jar.refresh # NoToken
        /\ jar.access.login = jar.refresh.login
        /\ jar.access.provider = jar.refresh.provider

(* After a logout the browser has no session, whatever requests of other   *)
(* tabs were answered before and after, unless one that could set cookies  *)
(* was under way together with the logout.                                 *)
LogoutHolds ==
    loggedOut /\ ~crossed => ~Decodes(jar.access) /\ ~Decodes(jar.refresh)

(* A request sends the user to the login page only if the browser had no   *)
(* refresh token to renew the session with when it was repeated, or if     *)
(* the refresh it waited for got no answer (in time).                      *)
NoNeedlessLogin ==
    [][\A p \in Pages :
          page[p].pc = "second" /\ page'[p] = Off /\ view[TabOf[p]] = "app"
              /\ view'[TabOf[p]] = "auth" /\ restarts' = restarts
          => ~page[p].renewable \/ page[p].excused]_vars
-----------------------------------------------------------------------------
(* The inductive invariant.                                                *)
Tokens  == [login : Nat \ {0}, provider : Providers, key : Nat, exp : Nat]
Answers == {"ok", "401", "403"}

(* Two tokens of one response.                                             *)
Paired(access, other) ==
    /\ access.login = other.login
    /\ access.provider = other.provider
    /\ access.exp <= other.exp

Granted ==
    {g \in [access : Tokens, refresh : Tokens]
             \cup [access : Tokens, refresh : Tokens, state : Nat] :
        Paired(g.access, g.refresh)}

Replies == {Nothing, Clears} \cup [state : Nat] \cup Granted

Forms ==
    {Off} \cup [pc : {"login", "redirect", "idp", "callback", "logout"},
                reply : Replies, attempt : Nat]

PageRequests ==
    {Off} \cup [pc : {"first"}, answer : Answers]
          \cup [pc : {"waiting"}, unanswered : BOOLEAN]
          \cup [pc : {"second"}, answer : Answers, renewable : BOOLEAN,
                excused : BOOLEAN]

TypeOK ==
    /\ now \in Nat /\ key \in Nat /\ enabled \in SUBSET Providers
    /\ jar \in [access : Tokens \cup {NoToken}, refresh : Tokens \cup {NoToken},
                state : Nat]
    /\ view \in [Tabs -> {"app", "auth", "idp"}]
    /\ form \in [Tabs -> Forms]
    /\ page \in [Pages -> PageRequests]
    /\ refreshing \in [Tabs -> BOOLEAN]
    /\ refresh \in [Tabs -> [pc : {"off", "sent"}, reply : Replies]]
    /\ logins \in Nat /\ pages \in Nat /\ restarts \in Nat
    /\ loggedOut \in BOOLEAN /\ crossed \in BOOLEAN

(* The cookies are of one response, and no key is of the future.           *)
JarIsOld ==
    /\ jar.access # NoToken =>
          /\ jar.refresh # NoToken /\ Paired(jar.access, jar.refresh)
          /\ jar.access.key <= key
    /\ jar.refresh # NoToken => jar.refresh.key <= key

(* Tokens on their way to the browser are valid when they arrive.          *)
Valid(reply) ==
    \/ reply = Nothing
    \/ reply \in Granted /\ Decodes(reply.access) /\ Decodes(reply.refresh)

RepliesAreFresh ==
    \A t \in Tabs :
        /\ refresh[t].pc = "sent" => Valid(refresh[t].reply)
        /\ form[t].pc \in {"login", "callback"} => Valid(form[t].reply)
        /\ form[t].pc = "logout" => form[t].reply \in {Nothing, Clears}
        /\ form[t].pc = "redirect" => form[t].reply \in [state : Nat]
        /\ form[t].pc \in {"redirect", "idp"} => form[t].attempt # NoState

NoSession == ~Decodes(jar.access) /\ ~Decodes(jar.refresh)

(* Where nothing has crossed a logout, nothing brings a session to it, and *)
(* nothing renews the session after it.                                    *)
LogoutsAreAlone ==
    ~crossed =>
        /\ LoggingOut => \A t \in Tabs : ~Granting(t)
        /\ loggedOut =>
              /\ NoSession
              /\ \A t \in Tabs : refresh[t].pc = "sent" => refresh[t].reply = Nothing
        /\ \A t \in Tabs :
              form[t].pc = "logout" /\ form[t].reply = Nothing => NoSession

Renewed == Renewable => Decodes(jar.access)

(* A refresh that brings nothing found nothing to renew, or what has been  *)
(* renewed since; and so does the repetition of a request after it.        *)
RefreshRenews ==
    /\ \A t \in Tabs :
          /\ refreshing[t] <=> refresh[t].pc = "sent"
          /\ refresh[t].pc = "sent" /\ refresh[t].reply = Nothing => Renewed
    /\ \A p \in Pages :
          /\ page[p].pc = "waiting" =>
                page[p].unanswered \/ refresh[TabOf[p]].pc = "sent" \/ Renewed
          /\ page[p].pc = "second" /\ page[p].answer = "401" =>
                ~page[p].renewable \/ page[p].excused

IInv ==
    /\ TypeOK /\ JarIsOld /\ RepliesAreFresh /\ LogoutsAreAlone /\ RefreshRenews
=============================================================================
