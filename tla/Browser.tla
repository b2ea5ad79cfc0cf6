------------------------------- MODULE Browser -------------------------------
(***************************************************************************)
(* One page of the web client (src/frontend) and its session, on top of    *)
(* the server's Sessions.                                                  *)
(*                                                                         *)
(* The page keeps an access token and a refresh token in the browser's     *)
(* storage and remembers, when it loads, whether there were any.  Its      *)
(* calls run in parallel.  One that the server turns down for its access   *)
(* token reads the storage, exchanges the refresh token it finds there,    *)
(* stores the answer and tries once more.  Any other answer to an exchange *)
(* clears the storage, and so does signing out; neither stops the calls    *)
(* that are under way.  Answers may be lost, and the page reloaded.        *)
(*                                                                         *)
(* A call with a good access token changes nothing here and is left out.   *)
(* A call is named by the worker that serves it, which takes the next one  *)
(* when it is done.  Password changes stay in Sessions: here, one would be *)
(* another reason to refuse a refresh.                                     *)
(***************************************************************************)
EXTENDS Sessions

VARIABLES
    stored,     \* the session in storage, or None
    page,       \* whether the page shows its user as signed in
    call,       \* worker -> the page's call that it serves
    lost        \* history: the tokens whose successor never reached storage

browserVars == <<sessionVars, stored, page, call, lost>>

(* fresh: the access token has not expired; late: a refresh that was under *)
(* way when the user signed out has put it there (history).                *)
Session == [refresh: Refresh, fresh: BOOLEAN, late: BOOLEAN]

ASSUME NoSessionAssumption == None \notin Session

CallStage == {"none", "signing_in", "denied", "refreshing", "granted", "posting", "settling"}

(* token: what the call presents; answer: what it was granted. *)
Call == [stage: CallStage, goal: {"data", "login", "logout"}, retried: BOOLEAN,
         body: Refresh \cup {None}, token: Refresh \cup {None},
         answer: Refresh \cup {None}, late: BOOLEAN]

NoCall == [stage |-> "none", goal |-> "data", retried |-> FALSE, body |-> None,
           token |-> None, answer |-> None, late |-> FALSE]

BrowserTypeOK ==
    /\ TypeOK
    /\ stored \in Session \cup {None}
    /\ page \in BOOLEAN
    /\ call \in [Worker -> Call]
    /\ lost \subseteq Refresh

BrowserInit ==
    /\ Init
    /\ stored = None
    /\ page = FALSE
    /\ call = [c \in Worker |-> NoCall]
    /\ lost = {}

-----------------------------------------------------------------------------
CallAt(c, stage) == call[c].stage = stage

IsFree(c) == CallAt(c, "none") /\ IsIdle(c)

Step(c, stage) == call' = [call EXCEPT ![c].stage = stage]

(* The calls after a sign-out: the refreshes under way are late now. *)
SignedOut(calls) ==
    [c \in Worker |-> IF calls[c].stage \in {"refreshing", "granted"}
                      THEN [calls[c] EXCEPT !.late = TRUE]
                      ELSE calls[c]]

(* Mutant of HandleSignOut: the page forgets its session, storage does not. *)
ForgetSession(calls) ==
    /\ page' = FALSE
    /\ call' = SignedOut(calls)
    /\ UNCHANGED stored

(* handleSession(null). *)
HandleSignOut(calls) ==
    /\ page' = FALSE
    /\ stored' = None
    /\ call' = SignedOut(calls)

(* A call ends with its answer or an error; a logout signs out either way. *)
Settle(c) ==
    LET calls == [call EXCEPT ![c] = NoCall] IN
    IF call[c].goal = "logout"
    THEN HandleSignOut(calls)
    ELSE call' = calls /\ UNCHANGED <<stored, page>>

-----------------------------------------------------------------------------
(* The login form. *)
StartLogin(c) ==
    /\ ~page
    /\ IsFree(c)
    /\ CheckCredentials(c)
    /\ call' = [call EXCEPT ![c] = [NoCall EXCEPT !.stage = "signing_in", !.goal = "login"]]
    /\ UNCHANGED <<stored, page, lost>>

AnswerLogin(c) == \E s \in Refresh :
    /\ IssueFirst(c, s)
    /\ call' = IF CallAt(c, "signing_in")
               THEN [call EXCEPT ![c].stage = "granted", ![c].answer = s]
               ELSE call
    /\ UNCHANGED <<stored, page, lost>>

(* Any call of the page whose access token has expired is turned down. *)
StartCall(c) ==
    /\ page
    /\ IsFree(c)
    /\ stored # None
    /\ ~stored.fresh
    /\ call' = [call EXCEPT ![c] = [NoCall EXCEPT !.stage = "denied"]]
    /\ UNCHANGED <<sessionVars, stored, page, lost>>

(* "Log out" on the profile page posts the refresh token that is stored at *)
(* the click.                                                              *)
StartLogout(c) ==
    /\ page
    /\ IsFree(c)
    /\ stored # None
    /\ call' = [call EXCEPT ![c] =
            [NoCall EXCEPT !.stage = IF stored.fresh THEN "posting" ELSE "denied",
                           !.goal = "logout", !.body = stored.refresh]]
    /\ UNCHANGED <<sessionVars, stored, page, lost>>

(* "Sign out" in the side bar tells the server nothing. *)
SidebarSignOut ==
    /\ page
    /\ HandleSignOut(call)
    /\ UNCHANGED <<sessionVars, lost>>

-----------------------------------------------------------------------------
(* refreshStoredSession *)
ReadStored(c) ==
    /\ CallAt(c, "denied")
    /\ IF stored = None
       THEN Settle(c)
       ELSE /\ call' = [call EXCEPT ![c].stage = "refreshing",
                                    ![c].token = stored.refresh,
                                    ![c].late = stored.late]
            /\ UNCHANGED <<stored, page>>
    /\ UNCHANGED <<sessionVars, lost>>

CheckCall(c) ==
    /\ CallAt(c, "refreshing")
    /\ CheckRefresh(c, call[c].token)
    /\ UNCHANGED <<stored, page, call, lost>>

SpendCall(c) ==
    /\ Spend(c)
    /\ UNCHANGED <<stored, page, call, lost>>

(* The answer to a refresh reaches a call that still waits for it. *)
AnswerCall(c) == \E s \in Refresh :
    /\ IssueNext(c, s)
    /\ call' = IF CallAt(c, "refreshing")
               THEN [call EXCEPT ![c].stage = "granted", ![c].answer = s]
               ELSE call
    /\ UNCHANGED <<stored, page, lost>>

(* Mutant of NextSession: the rotated refresh token is not kept. *)
KeptSession(c) == [refresh |-> IF call[c].token = None THEN call[c].answer ELSE call[c].token,
                   fresh |-> TRUE, late |-> call[c].late]

(* Mutant of NextSession: the answer is not taken out of its envelope. *)
WrappedSession(c) == [refresh |-> None, fresh |-> TRUE, late |-> call[c].late]

NextSession(c) == [refresh |-> call[c].answer, fresh |-> TRUE, late |-> call[c].late]

(* The session is stored; a login opens the page with it, and any other    *)
(* call is tried once more.                                                *)
StoreAnswer(c) ==
    /\ CallAt(c, "granted")
    /\ stored' = NextSession(c)
    /\ page' = (page \/ call[c].goal = "login")
    /\ call' = IF call[c].goal = "logout"
               THEN [call EXCEPT ![c] = [NoCall EXCEPT !.stage = "posting", !.goal = "logout",
                                                       !.body = call[c].body,
                                                       !.retried = TRUE]]
               ELSE [call EXCEPT ![c] = NoCall]
    /\ UNCHANGED <<sessionVars, lost>>

(* The server refuses the refresh token, or fails: storage is cleared.  A  *)
(* logout goes on to sign out, which clears it as well.                    *)
ClearStored(c) ==
    /\ stored' = None
    /\ page' = (page /\ call[c].goal # "logout")
    /\ LET calls == [call EXCEPT ![c] = NoCall] IN
        call' = IF call[c].goal = "logout" THEN SignedOut(calls) ELSE calls

RefreshRefused(c) ==
    /\ CallAt(c, "refreshing")
    /\ IsIdle(c)
    /\ ~IsLive(call[c].token) \/ account # "active"
    /\ ClearStored(c)
    /\ UNCHANGED <<sessionVars, lost>>

RefreshFails(c) ==
    /\ CallAt(c, "refreshing")
    /\ Abandon(c)
    /\ ClearStored(c)
    /\ UNCHANGED lost

-----------------------------------------------------------------------------
(* POST logout/ *)
CheckPosted(c) ==
    /\ CallAt(c, "posting")
    /\ CheckLogout(c, call[c].body)
    /\ UNCHANGED <<stored, page, call, lost>>

AnswerLogout(c) ==
    /\ Logout(c)
    /\ IF CallAt(c, "posting") THEN Step(c, "settling") ELSE UNCHANGED call
    /\ UNCHANGED <<stored, page, lost>>

SettleLogout(c) ==
    /\ CallAt(c, "settling")
    /\ Settle(c)
    /\ UNCHANGED <<sessionVars, lost>>

(* "token_not_valid" of the posted token looks like that of an access      *)
(* token: the call refreshes and posts the same body again, once.          *)
LogoutRefused(c) ==
    /\ CallAt(c, "posting")
    /\ IsIdle(c)
    /\ ~IsLive(call[c].body)
    /\ IF call[c].retried
       THEN Settle(c)
       ELSE Step(c, "denied") /\ UNCHANGED <<stored, page>>
    /\ UNCHANGED <<sessionVars, lost>>

-----------------------------------------------------------------------------
(* A call's answer does not arrive, while the server may well go on with   *)
(* the request.  The successor it may have issued is lost.                 *)
Unanswered(c) == IF call[c].stage \in {"refreshing", "granted"} /\ call[c].token # None
                 THEN {call[c].token}
                 ELSE {}

LoseAnswer(c) ==
    /\ call[c].stage \in {"signing_in", "refreshing", "granted", "posting", "settling"}
    /\ lost' = lost \cup Unanswered(c)
    /\ Settle(c)
    /\ UNCHANGED sessionVars

Reload ==
    /\ page' = (stored # None)
    /\ call' = [c \in Worker |-> NoCall]
    /\ lost' = lost \cup UNION {Unanswered(c) : c \in Worker}
    /\ UNCHANGED <<sessionVars, stored>>

(* Five minutes pass. *)
ExpireAccess ==
    /\ stored # None
    /\ stored.fresh
    /\ stored' = [stored EXCEPT !.fresh = FALSE]
    /\ UNCHANGED <<sessionVars, page, call, lost>>

(* A login or a logout fails at the server. *)
CallFails(c) ==
    /\ ~CallAt(c, "refreshing")
    /\ Abandon(c)
    /\ Settle(c)
    /\ UNCHANGED lost

(* The user registers, and the account is switched off and on. *)
Elsewhere ==
    /\ \/ \E c \in Worker : CallAt(c, "none") /\ Register(c)
       \/ \E active \in BOOLEAN : SetActive(active)
    /\ UNCHANGED <<stored, page, call, lost>>

BrowserCall(c) ==
    \/ StartLogin(c) \/ AnswerLogin(c) \/ StartCall(c) \/ StartLogout(c)
    \/ ReadStored(c) \/ CheckCall(c) \/ SpendCall(c) \/ AnswerCall(c) \/ StoreAnswer(c)
    \/ RefreshRefused(c) \/ RefreshFails(c)
    \/ CheckPosted(c) \/ AnswerLogout(c) \/ SettleLogout(c) \/ LogoutRefused(c)
    \/ LoseAnswer(c) \/ CallFails(c)

BrowserNext ==
    \/ \E c \in Worker : BrowserCall(c)
    \/ SidebarSignOut \/ Reload \/ ExpireAccess \/ Elsewhere

BrowserSpec == BrowserInit /\ [][BrowserNext]_browserVars

-----------------------------------------------------------------------------
NoCalls == \A c \in Worker : CallAt(c, "none")

(* However calls refresh in parallel and fail, the session they leave in   *)
(* storage is never one that has been exchanged already, unless the answer *)
(* with its successor was lost on the way.                                 *)
StoredTokenIsUnspent ==
    NoCalls /\ stored # None /\ token[stored.refresh].children > 0
        => stored.refresh \in lost

(* After the user signed out, storage holds a session again only if a      *)
(* refresh that was under way at that time has put it there.               *)
SignedOutMeansNoSession == ~page /\ stored # None => stored.late
=============================================================================
