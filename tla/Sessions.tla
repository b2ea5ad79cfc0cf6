------------------------------ MODULE Sessions ------------------------------
(***************************************************************************)
(* The sessions of one local account (src/apps/accounts): registration,    *)
(* login, refresh with rotation, logout, password change and password      *)
(* reset, and its personal access tokens.  A session is a refresh token;   *)
(* its row is outstanding until a blacklist row refers to it.              *)
(*                                                                         *)
(* No transaction spans a request and nothing is locked: the services      *)
(* check a row in one query and write in another, and a password is saved  *)
(* before the outstanding tokens are listed and blacklisted one by one.    *)
(* Every such query is a step, and a worker may die between two of them.   *)
(*                                                                         *)
(* A password is its version, since set_password never stores the same     *)
(* hash twice.  Tokens and links may be presented by anyone at any time,   *)
(* so that their expiry adds no behaviour.  The fields race and children   *)
(* of a token, race of a request and the variable ended are history.       *)
(***************************************************************************)
EXTENDS Naturals, FiniteSets

CONSTANTS
    Refresh,    \* bound: the refresh tokens that are ever issued
    Pat,        \* bound: the personal access tokens that are ever created
    Worker,     \* requests that are served at the same time
    MaxChanges, \* bound: how often the password is set anew
    None        \* no token

ASSUME MaxChangesAssumption == MaxChanges \in Nat
ASSUME WorkerAssumption == IsFiniteSet(Worker)

VARIABLES
    account,    \* "absent", "active" or "inactive" (User.is_active)
    password,   \* the version of the password hash
    token,      \* refresh token -> its row, None before it is issued
    pat,        \* personal access token -> its row, None before it is created
    link,       \* the password version of the last reset link mailed, or None
    request,    \* worker -> the request it serves
    ended       \* the highest version whose change has ended the sessions

sessionVars == <<account, password, token, pat, link, request, ended>>

Version == 0..MaxChanges

(* version: the password the session was opened with; race: the password   *)
(* changes that overlapped the requests that led to the token.             *)
Token == [version: Version, race: SUBSET Version, revoked: BOOLEAN, children: Nat]

(* revoked: how often revoked_at was written; late: how often last_used_at *)
(* was written after that (history).                                       *)
AccessToken == [revoked: Nat, late: Nat]

Stage == {"idle", "registering", "login", "refreshing", "spent", "logging_out",
          "setting", "saved", "ending", "using", "revoking"}

Request == [stage: Stage, token: Refresh \cup {None}, version: Version,
            race: SUBSET Version, todo: SUBSET Refresh, pat: Pat \cup {None}]

Idle == [stage |-> "idle", token |-> None, version |-> 0, race |-> {}, todo |-> {},
         pat |-> None]

ASSUME NoneAssumption ==
    /\ None \notin Refresh
    /\ None \notin Pat
    /\ None \notin Token
    /\ None \notin AccessToken

TypeOK ==
    /\ account \in {"absent", "active", "inactive"}
    /\ password \in Version
    /\ token \in [Refresh -> Token \cup {None}]
    /\ pat \in [Pat -> AccessToken \cup {None}]
    /\ link \in Version \cup {None}
    /\ request \in [Worker -> Request]
    /\ ended \in Version

Init ==
    /\ account = "absent"
    /\ password = 0
    /\ token = [t \in Refresh |-> None]
    /\ pat = [p \in Pat |-> None]
    /\ link = None
    /\ request = [w \in Worker |-> Idle]
    /\ ended = 0

-----------------------------------------------------------------------------
Later(u, v) == IF u < v THEN v ELSE u

IsIdle(w) == request[w] = Idle

At(w, stage) == request[w].stage = stage

Begin(w, r) == request' = [request EXCEPT ![w] = r]

End(w) == Begin(w, Idle)

Issued == {t \in Refresh : token[t] # None}

(* What RefreshToken(...) accepts. *)
IsLive(t) == token[t] # None /\ ~token[t].revoked

Revoke(t) == token' = [token EXCEPT ![t].revoked = TRUE]

(* The requests that have checked a password or a token and have still to  *)
(* issue the refresh token it pays for.                                    *)
Issuing == {w \in Worker : request[w].stage \in {"login", "refreshing", "spent"}}

(* The changes that are blacklisting what they have listed. *)
Ending == {w \in Worker : request[w].stage = "ending"}

-----------------------------------------------------------------------------
(* register_user: two registrations may find the address free; the unique  *)
(* address lets one of them create the user and its profile.               *)
CheckAddress(w) ==
    /\ IsIdle(w)
    /\ account = "absent"
    /\ Begin(w, [Idle EXCEPT !.stage = "registering"])
    /\ UNCHANGED <<account, password, token, pat, link, ended>>

CreateUser(w) ==
    /\ At(w, "registering")
    /\ account' = IF account = "absent" THEN "active" ELSE account
    /\ End(w)
    /\ UNCHANGED <<password, token, pat, link, ended>>

(* The admin site sets and clears is_active. *)
SetActive(active) ==
    /\ account = IF active THEN "inactive" ELSE "active"
    /\ account' = IF active THEN "active" ELSE "inactive"
    /\ UNCHANGED <<password, token, pat, link, request, ended>>

-----------------------------------------------------------------------------
(* POST token/: the credentials are checked, then a token is issued. *)
CheckCredentials(w) ==
    /\ IsIdle(w)
    /\ account = "active"
    /\ Begin(w, [Idle EXCEPT !.stage = "login", !.version = password])
    /\ UNCHANGED <<account, password, token, pat, link, ended>>

(* POST token/refresh/: the token is checked, blacklisted, and followed by *)
(* another one.  Blacklisting a token that is blacklisted already raises   *)
(* nothing.                                                                *)
CheckRefresh(w, t) ==
    /\ IsIdle(w)
    /\ IsLive(t)
    /\ account = "active"
    /\ Begin(w, [Idle EXCEPT !.stage = "refreshing", !.token = t,
                             !.version = token[t].version,
                             !.race = token[t].race
                                    \cup {request[v].version : v \in Ending}])
    /\ UNCHANGED <<account, password, token, pat, link, ended>>

(* Mutant of Spend: BLACKLIST_AFTER_ROTATION is off. *)
SpendNothing(w) ==
    /\ At(w, "refreshing")
    /\ Begin(w, [request[w] EXCEPT !.stage = "spent"])
    /\ UNCHANGED <<account, password, token, pat, link, ended>>

Spend(w) ==
    /\ At(w, "refreshing")
    /\ Revoke(request[w].token)
    /\ Begin(w, [request[w] EXCEPT !.stage = "spent"])
    /\ UNCHANGED <<account, password, pat, link, ended>>

NewToken(w) == [version  |-> request[w].version, race |-> request[w].race,
                revoked |-> FALSE, children |-> 0]

(* The answer to a login carries the new token s. *)
IssueFirst(w, s) ==
    /\ At(w, "login")
    /\ token[s] = None
    /\ token' = [token EXCEPT ![s] = NewToken(w)]
    /\ End(w)
    /\ UNCHANGED <<account, password, pat, link, ended>>

(* The answer to a refresh carries the successor s. *)
IssueNext(w, s) ==
    /\ At(w, "spent")
    /\ token[s] = None
    /\ token' = [token EXCEPT ![s] = NewToken(w),
                              ![request[w].token].children = @ + 1]
    /\ End(w)
    /\ UNCHANGED <<account, password, pat, link, ended>>

(* logout_refresh_token blacklists the one token that it is given. *)
CheckLogout(w, t) ==
    /\ IsIdle(w)
    /\ account = "active"
    /\ IsLive(t)
    /\ Begin(w, [Idle EXCEPT !.stage = "logging_out", !.token = t])
    /\ UNCHANGED <<account, password, token, pat, link, ended>>

Logout(w) ==
    /\ At(w, "logging_out")
    /\ Revoke(request[w].token)
    /\ End(w)
    /\ UNCHANGED <<account, password, pat, link, ended>>

-----------------------------------------------------------------------------
(* change_password: the caller is authenticated and knows the password. *)
CheckOldPassword(w) ==
    /\ IsIdle(w)
    /\ account = "active"
    /\ Begin(w, [Idle EXCEPT !.stage = "setting"])
    /\ UNCHANGED <<account, password, token, pat, link, ended>>

(* request_password_reset: an error of the mail server is logged, and the  *)
(* answer is the same.                                                     *)
MailResetLink ==
    /\ account = "active"
    /\ link' = password
    /\ UNCHANGED <<account, password, token, pat, request, ended>>

(* A link is made from the password hash it resets, and is good as long as *)
(* that is the hash: of the links mailed, only the last may be good.       *)
CheckResetLink(w) ==
    /\ IsIdle(w)
    /\ account = "active"
    /\ link = password
    /\ Begin(w, [Idle EXCEPT !.stage = "setting"])
    /\ UNCHANGED <<account, password, token, pat, link, ended>>

SavePassword(w) ==
    /\ At(w, "setting")
    /\ password < MaxChanges
    /\ password' = password + 1
    /\ Begin(w, [Idle EXCEPT !.stage = "saved", !.version = password + 1])
    /\ UNCHANGED <<account, token, pat, link, ended>>

(* Mutant of Outstanding: only the sessions of the new password are ended. *)
OutstandingNow == {t \in Issued : token[t].version = password}

Outstanding == Issued

(* The query of blacklist_outstanding_tokens_for_user. *)
ListOutstanding(w) ==
    /\ At(w, "saved")
    /\ request' = [v \in Worker |->
            IF v = w
            THEN [request[w] EXCEPT !.stage = "ending", !.todo = Outstanding]
            ELSE IF v \in Issuing
            THEN [request[v] EXCEPT !.race = @ \cup {request[w].version}]
            ELSE request[v]]
    /\ UNCHANGED <<account, password, token, pat, link, ended>>

Blacklist(w) == \E t \in request[w].todo :
    /\ At(w, "ending")
    /\ Revoke(t)
    /\ request' = [request EXCEPT ![w].todo = @ \ {t}]
    /\ UNCHANGED <<account, password, pat, link, ended>>

FinishChange(w) ==
    /\ At(w, "ending")
    /\ request[w].todo = {}
    /\ ended' = Later(ended, request[w].version)
    /\ End(w)
    /\ UNCHANGED <<account, password, token, pat, link>>

-----------------------------------------------------------------------------
CreatePat(p) ==
    /\ account = "active"
    /\ pat[p] = None
    /\ pat' = [pat EXCEPT ![p] = [revoked |-> 0, late |-> 0]]
    /\ UNCHANGED <<account, password, token, link, request, ended>>

(* Mutant of IsUsable: a revoked token is accepted. *)
IsKnown(p) == pat[p] # None /\ account = "active"

IsUsable(p) ==
    /\ pat[p] # None
    /\ account = "active"
    /\ pat[p].revoked = 0

(* PersonalAccessTokenAuthentication reads the row, then writes the time   *)
(* of use into whatever the row is by then.                                *)
CheckPat(w, p) ==
    /\ IsIdle(w)
    /\ IsUsable(p)
    /\ Begin(w, [Idle EXCEPT !.stage = "using", !.pat = p])
    /\ UNCHANGED <<account, password, token, pat, link, ended>>

MarkUsed(w) ==
    /\ At(w, "using")
    /\ pat' = [pat EXCEPT ![request[w].pat].late =
                    IF pat[request[w].pat].revoked > 0 THEN @ + 1 ELSE @]
    /\ End(w)
    /\ UNCHANGED <<account, password, token, link, ended>>

(* revoke_personal_access_token reads the row; if the token was not        *)
(* revoked then, it writes the time.                                       *)
CheckRevoke(w, p) ==
    /\ IsIdle(w)
    /\ account = "active"
    /\ pat[p] # None
    /\ pat[p].revoked = 0
    /\ Begin(w, [Idle EXCEPT !.stage = "revoking", !.pat = p])
    /\ UNCHANGED <<account, password, token, pat, link, ended>>

RevokePat(w) ==
    /\ At(w, "revoking")
    /\ pat' = [pat EXCEPT ![request[w].pat].revoked = @ + 1]
    /\ End(w)
    /\ UNCHANGED <<account, password, token, link, ended>>

-----------------------------------------------------------------------------
(* The worker dies, or a query fails.  A password change swallows the      *)
(* error of a query that blacklists, and answers that it succeeded.        *)
Abandon(w) ==
    /\ ~IsIdle(w)
    /\ End(w)
    /\ UNCHANGED <<account, password, token, pat, link, ended>>

Register(w) == CheckAddress(w) \/ CreateUser(w)

SignIn(w) ==
    \/ CheckCredentials(w)
    \/ \E s \in Refresh : IssueFirst(w, s)

RefreshToken(w) ==
    \/ \E t \in Refresh : CheckRefresh(w, t)
    \/ Spend(w)
    \/ \E s \in Refresh : IssueNext(w, s)

SignOut(w) ==
    \/ \E t \in Refresh : CheckLogout(w, t)
    \/ Logout(w)

ChangePassword(w) ==
    \/ CheckOldPassword(w) \/ CheckResetLink(w) \/ SavePassword(w)
    \/ ListOutstanding(w) \/ Blacklist(w) \/ FinishChange(w)

UsePat(w) ==
    \/ \E p \in Pat : CheckPat(w, p) \/ CheckRevoke(w, p)
    \/ MarkUsed(w) \/ RevokePat(w)

Serve(w) ==
    \/ Register(w) \/ SignIn(w) \/ RefreshToken(w) \/ SignOut(w)
    \/ ChangePassword(w) \/ UsePat(w) \/ Abandon(w)

AccountChange ==
    \/ \E active \in BOOLEAN : SetActive(active)
    \/ MailResetLink
    \/ \E p \in Pat : CreatePat(p)

Next == AccountChange \/ \E w \in Worker : Serve(w)

Spec == Init /\ [][Next]_sessionVars

-----------------------------------------------------------------------------
(* A password change or reset that has blacklisted what it listed leaves   *)
(* no session of an earlier password, except one whose login or refreshes  *)
(* overlapped the blacklisting (docs/security.md:46).                      *)
SurvivorsWereUnderWay ==
    \A t \in Refresh :
        IsLive(t) /\ token[t].version < ended => ended \in token[t].race

(* The requests that have checked t and have not exchanged it yet. *)
Exchanging(t) ==
    {w \in Worker : request[w].token = t /\ request[w].stage \in {"refreshing", "spent"}}

(* However requests overlap, are repeated or die, a refresh token is       *)
(* exchanged for no more successors than there are requests at one time:   *)
(* once it is spent, only those that had checked it before still succeed.  *)
ExchangedOncePerWorker ==
    \A t \in Issued :
        token[t].children + Cardinality(Exchanging(t)) <= Cardinality(Worker)

Serving(p, stage) == {w \in Worker : request[w].pat = p /\ request[w].stage = stage}

(* A personal access token that is revoked is used again, and its time of  *)
(* revocation written again, only by requests that had read its row before *)
(* (docs/security.md:23).                                                  *)
RevocationHolds ==
    \A p \in Pat : pat[p] # None =>
        /\ pat[p].revoked + Cardinality(Serving(p, "revoking")) <= Cardinality(Worker)
        /\ pat[p].revoked > 0 =>
             pat[p].late + Cardinality(Serving(p, "using")) < Cardinality(Worker)
=============================================================================
