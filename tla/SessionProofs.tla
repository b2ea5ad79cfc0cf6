--------------------------- MODULE SessionProofs ----------------------------
(***************************************************************************)
(* The safety properties of Sessions for every number of tokens, workers   *)
(* and password changes.                                                   *)
(*                                                                         *)
(* What a change leaves behind is not inductive by itself.  While a change *)
(* blacklists, a token of an older password that is not on its list, and a *)
(* request that may still issue one, must both know of the change; and no  *)
(* version is newer than the password.  The bounds on exchanges and on     *)
(* revocations need that what was not spent, or revoked, counts nothing    *)
(* yet, and that requests name tokens that exist.                          *)
(*                                                                         *)
(* With a single worker the three of them leave no exception: each is one  *)
(* of requests that overlap.                                               *)
(***************************************************************************)
EXTENDS Sessions, FiniteSetTheorems, TLAPS

(* A request names rows that exist. *)
NamesRows(r) ==
    /\ r.stage \in {"refreshing", "spent", "logging_out"} => r.token \in Issued
    /\ r.stage \in {"using", "revoking"} => r.pat \in Pat /\ pat[r.pat] # None
    /\ r.todo \subseteq Issued

RowsAreNamed == \A w \in Worker : NamesRows(request[w])

TypeInv == TypeOK /\ RowsAreNamed

(* No session and no request is of a password that was not set yet. *)
NoneIsNewer ==
    /\ \A t \in Refresh : token[t] # None => token[t].version <= password
    /\ \A w \in Worker : request[w].version <= password
    /\ ended <= password

(* What a change in its blacklisting has not listed knows of it. *)
EndingIsKnown ==
    \A w \in Ending :
        /\ \A t \in Refresh \ request[w].todo :
               IsLive(t) /\ token[t].version < request[w].version
                   => request[w].version \in token[t].race
        /\ \A v \in Issuing :
               request[v].version < request[w].version
                   => request[w].version \in request[v].race

EndedIsKnown ==
    \A v \in Issuing : request[v].version < ended => ended \in request[v].race

RaceInv ==
    /\ TypeInv
    /\ NoneIsNewer
    /\ EndingIsKnown
    /\ EndedIsKnown
    /\ SurvivorsWereUnderWay

-----------------------------------------------------------------------------
LEMMA VersionIsNat == Version \subseteq Nat /\ 0 \in Version
BY MaxChangesAssumption DEF Version

LEMMA IdleTyped == Idle \in Request
BY VersionIsNat DEF Idle, Request, Stage

LEMMA TypeInit == Init => TypeOK
BY IdleTyped, VersionIsNat DEF Init, TypeOK

(* A request goes on to another one. *)
LEMMA BeginTyped ==
    ASSUME TypeInv, NEW w \in Worker, NEW r \in Request, Begin(w, r),
           NamesRows(r), UNCHANGED <<token, pat>>
    PROVE  request' \in [Worker -> Request] /\ RowsAreNamed'
BY DEF TypeInv, TypeOK, Begin, RowsAreNamed, NamesRows, Issued

(* A request ends while rows are added or changed. *)
LEMMA EndTyped ==
    ASSUME TypeInv, NEW w \in Worker, End(w),
           \A t \in Refresh : token[t] # None => token'[t] # None,
           \A p \in Pat : pat[p] # None => pat'[p] # None
    PROVE  request' \in [Worker -> Request] /\ RowsAreNamed'
BY IdleTyped DEF TypeInv, TypeOK, Begin, End, RowsAreNamed, NamesRows, Issued, Idle

LEMMA RevokeTyped ==
    ASSUME TypeInv, NEW t \in Issued, Revoke(t)
    PROVE  /\ token' \in [Refresh -> Token \cup {None}]
           /\ \A s \in Refresh : token[s] # None <=> token'[s] # None
<1>1. t \in Refresh /\ token[t] \in Token
  BY DEF TypeInv, TypeOK, Issued
<1>2. [token[t] EXCEPT !.revoked = TRUE] \in Token
  BY <1>1 DEF Token
<1>3. token' = [token EXCEPT ![t] = [token[t] EXCEPT !.revoked = TRUE]]
  BY DEF Revoke
<1>4. QED
  BY <1>1, <1>2, <1>3, NoneAssumption DEF TypeInv, TypeOK, Issued

LEMMA NewTokenTyped ==
    ASSUME TypeInv, NEW w \in Worker
    PROVE  NewToken(w) \in Token
BY DEF TypeInv, TypeOK, NewToken, Token, Request

THEOREM TypeStep == TypeInv /\ [Next]_sessionVars => TypeInv'
<1> SUFFICES ASSUME TypeInv, [Next]_sessionVars PROVE TypeInv'
  OBVIOUS
<1> USE VersionIsNat, IdleTyped
<1>0. CASE UNCHANGED sessionVars
  BY <1>0 DEF sessionVars, TypeInv, TypeOK, RowsAreNamed, NamesRows, Issued
<1>1. ASSUME NEW active \in BOOLEAN, SetActive(active) PROVE TypeInv'
  BY <1>1 DEF SetActive, TypeInv, TypeOK, RowsAreNamed, NamesRows, Issued
<1>2. CASE MailResetLink
  BY <1>2 DEF MailResetLink, TypeInv, TypeOK, RowsAreNamed, NamesRows, Issued
<1>3. ASSUME NEW p \in Pat, CreatePat(p) PROVE TypeInv'
  <2>1. [revoked |-> 0, late |-> 0] \in AccessToken
    BY DEF AccessToken
  <2>2. QED
    BY <1>3, <2>1 DEF CreatePat, TypeInv, TypeOK, RowsAreNamed, NamesRows, Issued
<1>4. ASSUME NEW w \in Worker, CheckAddress(w) PROVE TypeInv'
  <2>1. [Idle EXCEPT !.stage = "registering"] \in Request
    BY DEF Idle, Request, Stage
  <2>2. QED
    BY <1>4, <2>1, BeginTyped DEF CheckAddress, TypeInv, TypeOK, NamesRows, Idle
<1>5. ASSUME NEW w \in Worker, CreateUser(w) PROVE TypeInv'
  BY <1>5, EndTyped DEF CreateUser, TypeInv, TypeOK
<1>6. ASSUME NEW w \in Worker, CheckCredentials(w) PROVE TypeInv'
  <2>1. [Idle EXCEPT !.stage = "login", !.version = password] \in Request
    BY DEF Idle, Request, Stage, TypeInv, TypeOK
  <2>2. QED
    BY <1>6, <2>1, BeginTyped DEF CheckCredentials, TypeInv, TypeOK, NamesRows, Idle
<1>7. ASSUME NEW w \in Worker, NEW t \in Refresh, CheckRefresh(w, t) PROVE TypeInv'
  <2> DEFINE race == token[t].race \cup {request[v].version : v \in Ending}
             r == [Idle EXCEPT !.stage = "refreshing", !.token = t,
                               !.version = token[t].version, !.race = race]
  <2>1. token[t] \in Token
    BY <1>7 DEF CheckRefresh, IsLive, TypeInv, TypeOK
  <2>2. race \in SUBSET Version
    BY <2>1 DEF Ending, TypeInv, TypeOK, Token, Request
  <2>3. r \in Request
    BY <2>1, <2>2 DEF Idle, Request, Stage, Token
  <2>4. NamesRows(r)
    BY <1>7 DEF NamesRows, Idle, CheckRefresh, IsLive, Issued
  <2>5. QED
    BY <1>7, <2>3, <2>4, BeginTyped DEF CheckRefresh, TypeInv, TypeOK
<1>8. ASSUME NEW w \in Worker, Spend(w) PROVE TypeInv'
  <2>1. request[w].token \in Issued /\ request[w] \in Request
    BY <1>8 DEF Spend, At, TypeInv, TypeOK, RowsAreNamed, NamesRows
  <2>2. /\ token' \in [Refresh -> Token \cup {None}]
        /\ \A s \in Refresh : token[s] # None <=> token'[s] # None
    BY <1>8, <2>1, RevokeTyped DEF Spend
  <2>3. [request[w] EXCEPT !.stage = "spent"] \in Request
    BY <2>1 DEF Request, Stage
  <2>4. QED
    BY <1>8, <2>1, <2>2, <2>3
    DEF Spend, Begin, At, TypeInv, TypeOK, RowsAreNamed, NamesRows, Issued
<1>9. ASSUME NEW w \in Worker, NEW s \in Refresh, IssueFirst(w, s) PROVE TypeInv'
  <2>1. /\ token' \in [Refresh -> Token \cup {None}]
        /\ \A t \in Refresh : token[t] # None => token'[t] # None
    BY <1>9, NewTokenTyped, NoneAssumption DEF IssueFirst, TypeInv, TypeOK
  <2>2. QED
    BY <1>9, <2>1, EndTyped DEF IssueFirst, TypeInv, TypeOK
<1>10. ASSUME NEW w \in Worker, NEW s \in Refresh, IssueNext(w, s) PROVE TypeInv'
  <2> DEFINE t == request[w].token
             parent == [token[t] EXCEPT !.children = @ + 1]
  <2>1. t \in Refresh /\ token[t] \in Token /\ t # s
    BY <1>10 DEF IssueNext, At, TypeInv, TypeOK, RowsAreNamed, NamesRows, Issued
  <2>2. parent \in Token
    BY <2>1 DEF Token
  <2>3. token' = [token EXCEPT ![s] = NewToken(w), ![t] = parent]
    BY <1>10, <2>1 DEF IssueNext, TypeInv, TypeOK
  <2>4. /\ token' \in [Refresh -> Token \cup {None}]
        /\ \A u \in Refresh : token[u] # None => token'[u] # None
    <3> HIDE DEF t, parent
    <3> QED
      BY <2>1, <2>2, <2>3, NewTokenTyped, NoneAssumption DEF TypeInv, TypeOK
  <2>5. QED
    BY <1>10, <2>4, EndTyped DEF IssueNext, TypeInv, TypeOK
<1>11. ASSUME NEW w \in Worker, NEW t \in Refresh, CheckLogout(w, t) PROVE TypeInv'
  <2>1. [Idle EXCEPT !.stage = "logging_out", !.token = t] \in Request
    BY DEF Idle, Request, Stage
  <2>2. NamesRows([Idle EXCEPT !.stage = "logging_out", !.token = t])
    BY <1>11 DEF CheckLogout, IsLive, NamesRows, Idle, Issued
  <2>3. QED
    BY <1>11, <2>1, <2>2, BeginTyped DEF CheckLogout, TypeInv, TypeOK
<1>12. ASSUME NEW w \in Worker, Logout(w) PROVE TypeInv'
  <2>1. request[w].token \in Issued
    BY <1>12 DEF Logout, At, TypeInv, TypeOK, RowsAreNamed, NamesRows
  <2>2. QED
    BY <1>12, <2>1, RevokeTyped, EndTyped DEF Logout, TypeInv, TypeOK
<1>13. ASSUME NEW w \in Worker, CheckOldPassword(w) \/ CheckResetLink(w) PROVE TypeInv'
  <2>1. [Idle EXCEPT !.stage = "setting"] \in Request
    BY DEF Idle, Request, Stage
  <2>2. QED
    BY <1>13, <2>1, BeginTyped
    DEF CheckOldPassword, CheckResetLink, TypeInv, TypeOK, NamesRows, Idle
<1>14. ASSUME NEW w \in Worker, SavePassword(w) PROVE TypeInv'
  <2>1. password + 1 \in Version
    BY <1>14, MaxChangesAssumption DEF SavePassword, TypeInv, TypeOK, Version
  <2>2. [Idle EXCEPT !.stage = "saved", !.version = password + 1] \in Request
    BY <2>1 DEF Idle, Request, Stage
  <2>3. NamesRows([Idle EXCEPT !.stage = "saved", !.version = password + 1])
    BY DEF NamesRows, Idle
  <2>4. QED
    BY <1>14, <2>1, <2>2, <2>3, BeginTyped DEF SavePassword, TypeInv, TypeOK
<1>15. ASSUME NEW w \in Worker, ListOutstanding(w) PROVE TypeInv'
  <2>1. [request[w] EXCEPT !.stage = "ending", !.todo = Outstanding] \in Request
    BY DEF Request, Stage, TypeInv, TypeOK, Outstanding, Issued
  <2>2. ASSUME NEW v \in Worker
        PROVE  [request[v] EXCEPT !.race = @ \cup {request[w].version}] \in Request
    BY DEF Request, TypeInv, TypeOK
  <2>3. request' \in [Worker -> Request]
    BY <1>15, <2>1, <2>2 DEF ListOutstanding, TypeInv, TypeOK
  <2>4. ASSUME NEW v \in Worker PROVE NamesRows(request[v])'
    <3>1. request[v] \in Request /\ request[w] \in Request /\ NamesRows(request[v])
      BY DEF TypeInv, TypeOK, RowsAreNamed
    <3>2. CASE v = w
      BY <1>15, <3>1, <3>2
      DEF ListOutstanding, NamesRows, Issued, Outstanding, Request
    <3>3. CASE v # w /\ v \in Issuing
      BY <1>15, <3>1, <3>3 DEF ListOutstanding, NamesRows, Issued, Request
    <3>4. CASE v # w /\ v \notin Issuing
      BY <1>15, <3>1, <3>4 DEF ListOutstanding, NamesRows, Issued, Request
    <3>5. QED
      BY <3>2, <3>3, <3>4
  <2>5. QED
    BY <1>15, <2>3, <2>4 DEF ListOutstanding, TypeInv, TypeOK, RowsAreNamed
<1>16. ASSUME NEW w \in Worker, Blacklist(w) PROVE TypeInv'
  <2>1. PICK t \in request[w].todo :
            /\ Revoke(t)
            /\ request' = [request EXCEPT ![w] = [request[w] EXCEPT !.todo = @ \ {t}]]
            /\ UNCHANGED <<account, password, pat, link, ended>>
    BY <1>16 DEF Blacklist
  <2>2. t \in Issued /\ request[w] \in Request
    BY DEF TypeInv, TypeOK, RowsAreNamed, NamesRows
  <2>3. /\ token' \in [Refresh -> Token \cup {None}]
        /\ \A s \in Refresh : token[s] # None <=> token'[s] # None
    BY <2>1, <2>2, RevokeTyped
  <2>4. [request[w] EXCEPT !.todo = @ \ {t}] \in Request
    BY <2>2 DEF Request
  <2>5. QED
    BY <2>1, <2>2, <2>3, <2>4 DEF TypeInv, TypeOK, RowsAreNamed, NamesRows, Issued, Request
<1>17. ASSUME NEW w \in Worker, FinishChange(w) PROVE TypeInv'
  BY <1>17, EndTyped DEF FinishChange, Later, TypeInv, TypeOK, Request
<1>18. ASSUME NEW w \in Worker, NEW p \in Pat, CheckPat(w, p) \/ CheckRevoke(w, p)
       PROVE  TypeInv'
  <2>1. \A stage \in {"using", "revoking"} :
            LET r == [Idle EXCEPT !.stage = stage, !.pat = p]
            IN  r \in Request /\ NamesRows(r)
    BY <1>18 DEF CheckPat, CheckRevoke, IsUsable, NamesRows, Idle, Request, Stage
  <2>2. QED
    BY <1>18, <2>1, BeginTyped DEF CheckPat, CheckRevoke, TypeInv, TypeOK
<1>19. ASSUME NEW w \in Worker, MarkUsed(w) \/ RevokePat(w) PROVE TypeInv'
  <2> DEFINE p == request[w].pat
  <2>1. p \in Pat /\ pat[p] \in AccessToken
    BY <1>19 DEF MarkUsed, RevokePat, At, TypeInv, TypeOK, RowsAreNamed, NamesRows
  <2>2. PICK row \in AccessToken : pat' = [pat EXCEPT ![p] = row]
    <3> DEFINE used == IF pat[p].revoked > 0 THEN pat[p].late + 1 ELSE pat[p].late
    <3>1. [pat[p] EXCEPT !.late = used] \in AccessToken
      BY <2>1 DEF AccessToken
    <3>2. [pat[p] EXCEPT !.revoked = @ + 1] \in AccessToken
      BY <2>1 DEF AccessToken
    <3>3. MarkUsed(w) => pat' = [pat EXCEPT ![p] = [pat[p] EXCEPT !.late = used]]
      BY DEF MarkUsed
    <3>4. RevokePat(w) => pat' = [pat EXCEPT ![p] = [pat[p] EXCEPT !.revoked = @ + 1]]
      BY DEF RevokePat
    <3>5. QED
      <4> HIDE DEF p, used
      <4> QED
        BY <1>19, <3>1, <3>2, <3>3, <3>4
  <2>3. QED
    <3> HIDE DEF p
    <3> QED
      BY <1>19, <2>1, <2>2, EndTyped, NoneAssumption DEF MarkUsed, RevokePat, TypeInv, TypeOK
<1>20. ASSUME NEW w \in Worker, Abandon(w) PROVE TypeInv'
  BY <1>20, EndTyped DEF Abandon, TypeInv, TypeOK
<1>21. QED
  BY <1>0, <1>1, <1>2, <1>3, <1>4, <1>5, <1>6, <1>7, <1>8, <1>9, <1>10, <1>11, <1>12,
     <1>13, <1>14, <1>15, <1>16, <1>17, <1>18, <1>19, <1>20
  DEF Next, AccountChange, Serve, Register, SignIn, RefreshToken, SignOut, ChangePassword,
      UsePat

(* The rows, the requests and the password stay what they should be,       *)
(* whatever the order of the queries of any number of requests.            *)
THEOREM TypeCorrect == Spec => []TypeOK
<1>1. Init => TypeInv
  BY TypeInit DEF TypeInv, Init, RowsAreNamed, NamesRows, Idle
<1>2. TypeInv => TypeOK
  BY DEF TypeInv
<1>3. QED
  BY <1>1, <1>2, TypeStep, PTL DEF Spec

-----------------------------------------------------------------------------
(* Most steps issue nothing, and leave no request that may issue or end    *)
(* more than it could before.                                              *)
LEMMA RaceKept ==
    ASSUME RaceInv, TypeInv', NEW w \in Worker,
           \A t \in Refresh : token'[t] # None =>
               /\ token[t] # None
               /\ token'[t].version = token[t].version
               /\ token'[t].race = token[t].race
               /\ token[t].revoked => token'[t].revoked,
           \A v \in Worker \ {w} : request'[v] = request[v],
           request'[w].version <= password',
           password <= password',
           ended' = ended,
           w \notin Ending',
           w \in Issuing' =>
               /\ w \in Issuing
               /\ request'[w].version = request[w].version
               /\ request'[w].race = request[w].race
    PROVE  RaceInv'
<1>1. /\ password \in Nat /\ password' \in Nat /\ ended \in Nat
      /\ \A v \in Worker : request[v].version \in Nat /\ request'[v].version \in Nat
      /\ \A t \in Refresh : token[t] # None => token[t].version \in Nat
  BY VersionIsNat, NoneAssumption DEF RaceInv, TypeInv, TypeOK, Request, Token
<1>2. NoneIsNewer'
  <2>1. \A t \in Refresh : token'[t] # None => token'[t].version <= password'
    BY <1>1 DEF RaceInv, NoneIsNewer
  <2>2. \A v \in Worker : request'[v].version <= password'
    BY <1>1 DEF RaceInv, NoneIsNewer
  <2>3. QED
    BY <1>1, <2>1, <2>2 DEF RaceInv, NoneIsNewer
<1>3. \A t \in Refresh : IsLive(t)' => IsLive(t)
  BY NoneAssumption DEF IsLive, RaceInv, TypeInv, TypeOK, Token
<1>4. /\ \A v \in Ending' : v \in Ending /\ request'[v] = request[v]
      /\ \A v \in Issuing' : /\ v \in Issuing
                            /\ request'[v].version = request[v].version
                            /\ request'[v].race = request[v].race
  BY DEF Ending, Issuing
<1>5. EndingIsKnown'
  BY <1>3, <1>4 DEF RaceInv, EndingIsKnown, IsLive, Ending, Issuing
<1>6. EndedIsKnown'
  BY <1>4 DEF RaceInv, EndedIsKnown
<1>7. SurvivorsWereUnderWay'
  BY <1>3 DEF RaceInv, SurvivorsWereUnderWay, IsLive
<1>8. QED
  BY <1>2, <1>5, <1>6, <1>7 DEF RaceInv

(* A token carries the version and the race of the request it is issued by. *)
LEMMA RaceIssued ==
    ASSUME RaceInv, TypeInv', NEW w \in Issuing, NEW s \in Refresh, End(w),
           \A t \in Refresh \ {s} : token'[t] # None =>
               /\ token[t] # None
               /\ token'[t].version = token[t].version
               /\ token'[t].race = token[t].race
               /\ token'[t].revoked = token[t].revoked,
           token'[s] = NewToken(w),
           UNCHANGED <<password, ended>>
    PROVE  RaceInv'
<1> USE DEF Ending, Issuing
<1>1. /\ \A v \in Worker \ {w} : request'[v] = request[v]
      /\ request'[w] = Idle
  BY DEF End, Begin, RaceInv, TypeInv, TypeOK
<1>2. /\ token'[s].version = request[w].version
      /\ token'[s].race = request[w].race
  BY DEF NewToken
<1>3. NoneIsNewer'
  <2>1. 0 <= password
    BY VersionIsNat DEF RaceInv, TypeInv, TypeOK
  <2>2. QED
    BY <1>1, <1>2, <2>1 DEF RaceInv, NoneIsNewer, Idle
<1>4. /\ Ending' = Ending
      /\ Issuing' = Issuing \ {w}
  BY <1>1 DEF Idle
<1>5. EndingIsKnown'
  <2> SUFFICES ASSUME NEW v \in Ending
               PROVE  /\ \A t \in Refresh \ request[v].todo :
                             IsLive(t)' /\ token'[t].version < request[v].version
                                 => request[v].version \in token'[t].race
                      /\ \A u \in Issuing \ {w} :
                             request[u].version < request[v].version
                                 => request[v].version \in request[u].race
    BY <1>1, <1>4 DEF EndingIsKnown, Idle
  <2>1. \A u \in Issuing : request[u].version < request[v].version
                               => request[v].version \in request[u].race
    BY DEF RaceInv, EndingIsKnown
  <2>2. \A t \in Refresh \ request[v].todo :
            t # s /\ IsLive(t)' /\ token'[t].version < request[v].version
                => request[v].version \in token'[t].race
    BY DEF RaceInv, EndingIsKnown, IsLive
  <2>3. QED
    BY <1>2, <2>1, <2>2
<1>6. EndedIsKnown'
  BY <1>1, <1>4 DEF RaceInv, EndedIsKnown
<1>7. SurvivorsWereUnderWay'
  BY <1>2 DEF RaceInv, SurvivorsWereUnderWay, EndedIsKnown, IsLive
<1>8. QED
  BY <1>3, <1>5, <1>6, <1>7 DEF RaceInv

LEMMA RaceStep == RaceInv /\ [Next]_sessionVars => RaceInv'
<1> SUFFICES ASSUME RaceInv, [Next]_sessionVars PROVE RaceInv'
  OBVIOUS
<1> TypeInv /\ TypeInv'
  BY TypeStep DEF RaceInv
<1>a. /\ password \in Nat /\ ended \in Nat
      /\ \A v \in Worker : /\ request[v] \in Request
                          /\ request[v].version \in Nat
                          /\ request[v].version <= password
      /\ \A t \in Issued : token[t] \in Token /\ token[t].version \in Nat
  BY VersionIsNat, NoneAssumption
  DEF RaceInv, NoneIsNewer, TypeInv, TypeOK, Request, Token, Issued
<1>b. ASSUME NEW w \in Worker, NEW r, Begin(w, r)
      PROVE  request'[w] = r /\ \A v \in Worker \ {w} : request'[v] = request[v]
  BY <1>b DEF Begin, TypeInv, TypeOK
<1>c. ASSUME NEW w \in Worker, End(w), UNCHANGED <<password, ended>>,
             \A t \in Refresh : token'[t] # None =>
               /\ token[t] # None
               /\ token'[t].version = token[t].version
               /\ token'[t].race = token[t].race
               /\ token[t].revoked => token'[t].revoked
      PROVE  RaceInv'
  BY <1>a, <1>b, <1>c, RaceKept DEF End, Idle, Ending, Issuing
<1>d. ASSUME NEW t \in Issued, Revoke(t)
      PROVE  \A s \in Refresh : token'[s] # None =>
               /\ token[s] # None
               /\ token'[s].version = token[s].version
               /\ token'[s].race = token[s].race
               /\ token[s].revoked => token'[s].revoked
  <2>1. t \in Refresh /\ token[t] \in Token
    BY <1>a DEF Issued
  <2>2. token' = [token EXCEPT ![t] = [token[t] EXCEPT !.revoked = TRUE]]
    BY <1>d DEF Revoke
  <2>3. QED
    BY <2>1, <2>2, NoneAssumption DEF TypeInv, TypeOK, Token
<1>0. CASE UNCHANGED sessionVars
  BY <1>0 DEF sessionVars, RaceInv, NoneIsNewer, EndingIsKnown, EndedIsKnown,
     SurvivorsWereUnderWay, Ending, Issuing, IsLive
<1>1. CASE AccountChange
  BY <1>1 DEF AccountChange, SetActive, MailResetLink, CreatePat, RaceInv, NoneIsNewer,
     EndingIsKnown, EndedIsKnown, SurvivorsWereUnderWay, Ending, Issuing, IsLive
<1>2. ASSUME NEW w \in Worker,
             \/ CreateUser(w) \/ MarkUsed(w) \/ RevokePat(w) \/ Abandon(w)
      PROVE  RaceInv'
  BY <1>2, <1>c DEF CreateUser, MarkUsed, RevokePat, Abandon
<1>3. ASSUME NEW w \in Worker,
             \/ CheckAddress(w)
             \/ \E t \in Refresh : CheckLogout(w, t)
             \/ CheckOldPassword(w) \/ CheckResetLink(w)
             \/ \E p \in Pat : CheckPat(w, p) \/ CheckRevoke(w, p)
      PROVE  RaceInv'
  <2>1. PICK r : /\ Begin(w, r) /\ r.version = 0
                 /\ r.stage \notin {"ending", "login", "refreshing", "spent"}
                 /\ UNCHANGED <<token, password, ended>>
    BY <1>3 DEF CheckAddress, CheckLogout, CheckOldPassword, CheckResetLink, CheckPat,
       CheckRevoke, Idle
  <2>2. QED
    BY <2>1, <1>a, <1>b, RaceKept DEF Ending, Issuing
<1>4. ASSUME NEW w \in Worker, CheckCredentials(w) PROVE RaceInv'
  <2>1. /\ request'[w].stage = "login" /\ request'[w].version = password
        /\ \A v \in Worker \ {w} : request'[v] = request[v]
        /\ UNCHANGED <<token, password, ended>>
    <3>1. /\ request'[w] = [Idle EXCEPT !.stage = "login", !.version = password]
          /\ \A v \in Worker \ {w} : request'[v] = request[v]
      BY <1>4, <1>b DEF CheckCredentials
    <3>2. QED
      BY <1>4, <3>1 DEF CheckCredentials, Idle
  <2>2. Ending' = Ending \ {w} /\ Issuing' = Issuing \cup {w}
    BY <2>1 DEF Ending, Issuing
  <2>3. NoneIsNewer'
    BY <2>1, <1>a DEF RaceInv, NoneIsNewer
  <2>4. EndingIsKnown' /\ EndedIsKnown'
    BY <2>1, <2>2, <1>a DEF RaceInv, NoneIsNewer, EndingIsKnown, EndedIsKnown, IsLive,
       Ending, Issuing
  <2>5. QED
    BY <2>1, <2>3, <2>4 DEF RaceInv, SurvivorsWereUnderWay, IsLive
<1>5. ASSUME NEW w \in Worker, NEW t \in Refresh, CheckRefresh(w, t) PROVE RaceInv'
  <2>1. /\ request'[w].stage = "refreshing"
        /\ request'[w].version = token[t].version
        /\ request'[w].race = token[t].race \cup {request[v].version : v \in Ending}
        /\ \A v \in Worker \ {w} : request'[v] = request[v]
        /\ request[w].stage = "idle"
        /\ UNCHANGED <<token, password, ended>>
    <3> DEFINE race == token[t].race \cup {request[v].version : v \in Ending}
               r == [Idle EXCEPT !.stage = "refreshing", !.token = t,
                                 !.version = token[t].version, !.race = race]
    <3>1. /\ request'[w] = r
          /\ \A v \in Worker \ {w} : request'[v] = request[v]
      BY <1>5, <1>b DEF CheckRefresh
    <3>2. r.stage = "refreshing" /\ r.version = token[t].version /\ r.race = race
      BY DEF Idle
    <3>3. request[w].stage = "idle" /\ UNCHANGED <<token, password, ended>>
      BY <1>5 DEF CheckRefresh, IsIdle, Idle
    <3>4. QED
      BY <3>1, <3>2, <3>3
  <2>2. Ending' = Ending /\ Issuing' = Issuing \cup {w} /\ w \notin Ending
    BY <2>1 DEF Ending, Issuing
  <2>3. NoneIsNewer'
    BY <1>5, <2>1, <1>a DEF RaceInv, NoneIsNewer, CheckRefresh, IsLive
  <2>4. EndingIsKnown'
    <3>1. ASSUME NEW v \in Ending PROVE request[v].version \in request'[w].race
      BY <2>1
    <3>2. QED
      BY <2>1, <2>2, <3>1 DEF RaceInv, EndingIsKnown, IsLive, Ending, Issuing
  <2>5. EndedIsKnown'
    <3>1. token[t].version < ended => ended \in token[t].race
      BY <1>5 DEF RaceInv, SurvivorsWereUnderWay, CheckRefresh
    <3>2. QED
      BY <2>1, <2>2, <3>1 DEF RaceInv, EndedIsKnown, Issuing
  <2>6. QED
    BY <2>1, <2>3, <2>4, <2>5 DEF RaceInv, SurvivorsWereUnderWay, IsLive
<1>6. ASSUME NEW w \in Worker, Spend(w) PROVE RaceInv'
  <2>1. request[w].token \in Issued
    BY <1>6 DEF Spend, At, TypeInv, RowsAreNamed, NamesRows
  <2>2. /\ request'[w] = [request[w] EXCEPT !.stage = "spent"]
        /\ \A v \in Worker \ {w} : request'[v] = request[v]
    BY <1>6, <1>b DEF Spend
  <2>3. /\ request'[w].version = request[w].version
        /\ request'[w].race = request[w].race
        /\ request'[w].stage = "spent"
    BY <2>2, <1>a DEF Request
  <2>4. \A s \in Refresh : token'[s] # None =>
               /\ token[s] # None
               /\ token'[s].version = token[s].version
               /\ token'[s].race = token[s].race
               /\ token[s].revoked => token'[s].revoked
    BY <1>6, <2>1, <1>d DEF Spend
  <2>5. w \notin Ending' /\ w \in Issuing
    BY <1>6, <2>3 DEF Spend, At, Ending, Issuing
  <2>6. UNCHANGED <<password, ended>> /\ request'[w].version <= password'
        /\ password <= password'
    BY <1>6, <2>3, <1>a DEF Spend
  <2>7. QED
    BY <2>2, <2>3, <2>4, <2>5, <2>6, RaceKept
<1>7. ASSUME NEW w \in Worker, NEW s \in Refresh, IssueFirst(w, s) PROVE RaceInv'
  <2>1. token'[s] = NewToken(w) /\ \A t \in Refresh \ {s} : token'[t] = token[t]
    BY <1>7 DEF IssueFirst, TypeInv, TypeOK
  <2>2. QED
    BY <1>7, <2>1, RaceIssued DEF IssueFirst, At, Issuing
<1>8. ASSUME NEW w \in Worker, NEW s \in Refresh, IssueNext(w, s) PROVE RaceInv'
  <2> DEFINE t == request[w].token
  <2>1. t \in Refresh /\ token[t] \in Token /\ t # s
    BY <1>8, <1>a DEF IssueNext, At, TypeInv, RowsAreNamed, NamesRows, Issued
  <2>2. token' = [token EXCEPT ![s] = NewToken(w),
                               ![t] = [token[t] EXCEPT !.children = @ + 1]]
    BY <1>8, <2>1 DEF IssueNext, TypeInv, TypeOK
  <2>3. /\ token'[s] = NewToken(w)
        /\ \A u \in Refresh \ {s} : token'[u] # None =>
               /\ token[u] # None
               /\ token'[u].version = token[u].version
               /\ token'[u].race = token[u].race
               /\ token'[u].revoked = token[u].revoked
    <3> HIDE DEF t
    <3> QED
      BY <2>1, <2>2, NoneAssumption DEF TypeInv, TypeOK, Token
  <2>4. QED
    BY <1>8, <2>3, RaceIssued DEF IssueNext, At, Issuing
<1>9. ASSUME NEW w \in Worker, Logout(w) PROVE RaceInv'
  <2>1. request[w].token \in Issued
    BY <1>9 DEF Logout, At, TypeInv, RowsAreNamed, NamesRows
  <2>2. QED
    BY <1>9, <2>1, <1>c, <1>d DEF Logout
<1>10. ASSUME NEW w \in Worker, SavePassword(w) PROVE RaceInv'
  <2>1. /\ request'[w].stage = "saved" /\ request'[w].version = password'
        /\ \A v \in Worker \ {w} : request'[v] = request[v]
        /\ password' = password + 1
        /\ UNCHANGED <<token, ended>>
    <3>1. /\ request'[w] = [Idle EXCEPT !.stage = "saved", !.version = password + 1]
          /\ \A v \in Worker \ {w} : request'[v] = request[v]
      BY <1>10, <1>b DEF SavePassword
    <3>2. QED
      BY <1>10, <3>1 DEF SavePassword, Idle
  <2>2. QED
    BY <2>1, <1>a, RaceKept DEF Ending, Issuing
<1>11. ASSUME NEW w \in Worker, ListOutstanding(w) PROVE RaceInv'
  <2>1. /\ request'[w].stage = "ending"
        /\ request'[w].version = request[w].version
        /\ request'[w].todo = Issued
        /\ request[w].stage = "saved"
        /\ UNCHANGED <<token, password, ended>>
    BY <1>11, <1>a DEF ListOutstanding, At, Outstanding, Request
  <2>2. ASSUME NEW v \in Worker, v # w
        PROVE  /\ request'[v].stage = request[v].stage
               /\ request'[v].version = request[v].version
               /\ request'[v].todo = request[v].todo
               /\ request[v].race \subseteq request'[v].race
               /\ v \in Issuing => request[w].version \in request'[v].race
    <3>1. CASE v \in Issuing
      <4>1. request'[v] = [request[v] EXCEPT !.race = @ \cup {request[w].version}]
        BY <1>11, <2>2, <3>1 DEF ListOutstanding
      <4>2. QED
        BY <4>1, <1>a DEF Request
    <3>2. CASE v \notin Issuing
      BY <1>11, <2>2, <3>2 DEF ListOutstanding
    <3>3. QED
      BY <3>1, <3>2
  <2>3. Ending' = Ending \cup {w} /\ Issuing' = Issuing /\ w \notin Issuing
    BY <2>1, <2>2 DEF Ending, Issuing
  <2>4. NoneIsNewer'
    BY <2>1, <2>2 DEF RaceInv, NoneIsNewer
  <2>5. EndingIsKnown'
    <3>1. ASSUME NEW v \in Ending', NEW t \in Refresh \ request'[v].todo, IsLive(t)',
                 token'[t].version < request'[v].version
          PROVE  request'[v].version \in token'[t].race
      <4>1. v # w
        BY <2>1, <3>1 DEF IsLive, Issued
      <4>2. v \in Ending /\ t \in Refresh \ request[v].todo /\ IsLive(t)
        BY <2>1, <2>2, <2>3, <3>1, <4>1 DEF IsLive, Ending
      <4>3. QED
        BY <2>1, <2>2, <3>1, <4>1, <4>2 DEF RaceInv, EndingIsKnown, Ending
    <3>2. ASSUME NEW v \in Ending', NEW u \in Issuing',
                 request'[u].version < request'[v].version
          PROVE  request'[v].version \in request'[u].race
      <4>1. u \in Issuing /\ u # w /\ request'[u].version = request[u].version
        BY <2>2, <2>3 DEF Issuing
      <4>2. CASE v = w
        BY <2>1, <2>2, <4>1, <4>2 DEF Issuing
      <4>3. CASE v # w
        BY <2>2, <2>3, <3>2, <4>1, <4>3 DEF RaceInv, EndingIsKnown, Ending, Issuing
      <4>4. QED
        BY <4>2, <4>3
    <3>3. QED
      BY <3>1, <3>2 DEF EndingIsKnown, Ending, Issuing
  <2>6. EndedIsKnown'
    <3>1. SUFFICES ASSUME NEW v \in Issuing, request[v].version < ended
                   PROVE  ended \in request'[v].race
      BY <2>1, <2>2, <2>3 DEF EndedIsKnown, Issuing
    <3>2. QED
      BY <2>2, <2>3, <3>1 DEF RaceInv, EndedIsKnown, Issuing
  <2>7. QED
    BY <2>1, <2>4, <2>5, <2>6 DEF RaceInv, SurvivorsWereUnderWay, IsLive
<1>12. ASSUME NEW w \in Worker, Blacklist(w) PROVE RaceInv'
  <2>1. PICK t \in request[w].todo :
            /\ At(w, "ending") /\ Revoke(t)
            /\ request' = [request EXCEPT ![w] = [request[w] EXCEPT !.todo = @ \ {t}]]
            /\ UNCHANGED <<password, ended>>
    BY <1>12 DEF Blacklist
  <2>2. t \in Issued /\ t \in Refresh
    BY DEF TypeInv, RowsAreNamed, NamesRows, Issued
  <2>3. \A s \in Refresh : token'[s] # None =>
               /\ token[s] # None
               /\ token'[s].version = token[s].version
               /\ token'[s].race = token[s].race
               /\ token[s].revoked => token'[s].revoked
    BY <2>1, <2>2, <1>d
  <2>4. token'[t].revoked
    <3>1. token' = [token EXCEPT ![t] = [token[t] EXCEPT !.revoked = TRUE]]
      BY <2>1 DEF Revoke
    <3>2. QED
      BY <3>1, <2>2, <1>a DEF TypeInv, TypeOK, Token
  <2>5. /\ request'[w].stage = "ending" /\ request[w].stage = "ending"
        /\ request'[w].version = request[w].version
        /\ request'[w].todo = request[w].todo \ {t}
        /\ \A v \in Worker \ {w} : request'[v] = request[v]
    BY <2>1, <1>a DEF At, TypeInv, TypeOK, Request
  <2>6. Ending' = Ending /\ Issuing' = Issuing /\ w \notin Issuing
    BY <2>5 DEF Ending, Issuing
  <2>7. \A s \in Refresh : IsLive(s)' => IsLive(s) /\ s # t
    BY <2>3, <2>4, NoneAssumption DEF IsLive, TypeInv, TypeOK, Token
  <2>8. NoneIsNewer'
    BY <2>1, <2>3, <2>5, <1>a DEF RaceInv, NoneIsNewer
  <2>9. EndingIsKnown'
    BY <2>3, <2>5, <2>6, <2>7 DEF RaceInv, EndingIsKnown, IsLive, Ending, Issuing
  <2>10. EndedIsKnown'
    BY <2>1, <2>5, <2>6 DEF RaceInv, EndedIsKnown, Issuing
  <2>11. SurvivorsWereUnderWay'
    BY <2>1, <2>3, <2>7 DEF RaceInv, SurvivorsWereUnderWay, IsLive
  <2>12. QED
    BY <2>8, <2>9, <2>10, <2>11 DEF RaceInv
<1>13. ASSUME NEW w \in Worker, FinishChange(w) PROVE RaceInv'
  <2>1. /\ w \in Ending /\ request[w].todo = {}
        /\ ended' = Later(ended, request[w].version)
        /\ request'[w] = Idle
        /\ \A v \in Worker \ {w} : request'[v] = request[v]
        /\ UNCHANGED <<token, password>>
    BY <1>13, <1>b DEF FinishChange, End, At, Ending
  <2>2. /\ ended' = ended \/ ended' = request[w].version
        /\ ended' <= password
    BY <2>1, <1>a DEF Later, RaceInv, NoneIsNewer
  <2>3. Ending' = Ending \ {w} /\ Issuing' = Issuing /\ w \notin Issuing
    BY <2>1 DEF Ending, Issuing, Idle
  <2>4. NoneIsNewer'
    BY <2>1, <2>2, <1>a DEF RaceInv, NoneIsNewer, Idle
  <2>5. EndingIsKnown'
    BY <2>1, <2>3 DEF RaceInv, EndingIsKnown, IsLive, Ending, Issuing
  <2>6. EndedIsKnown'
    BY <2>1, <2>2, <2>3 DEF RaceInv, EndedIsKnown, EndingIsKnown, Issuing
  <2>7. SurvivorsWereUnderWay'
    BY <2>1, <2>2 DEF RaceInv, SurvivorsWereUnderWay, EndingIsKnown, IsLive
  <2>8. QED
    BY <2>4, <2>5, <2>6, <2>7 DEF RaceInv
<1>14. QED
  BY <1>0, <1>1, <1>2, <1>3, <1>4, <1>5, <1>6, <1>7, <1>8, <1>9, <1>10, <1>11, <1>12, <1>13
  DEF Next, Serve, Register, SignIn, RefreshToken, SignOut, ChangePassword, UsePat

(* A change of the password that has blacklisted what it listed leaves no  *)
(* session of an earlier password whose requests did not overlap it.       *)
THEOREM ChangeEndsSessions == Spec => []SurvivorsWereUnderWay
<1>1. Init => RaceInv
  <2> SUFFICES ASSUME Init PROVE RaceInv
    OBVIOUS
  <2>1. TypeInv
    BY TypeInit DEF TypeInv, Init, RowsAreNamed, NamesRows, Idle
  <2>2. QED
    BY <2>1, VersionIsNat DEF Init, Idle, RaceInv, NoneIsNewer, EndingIsKnown,
       EndedIsKnown, SurvivorsWereUnderWay, Ending, Issuing, IsLive
<1>2. RaceInv => SurvivorsWereUnderWay
  BY DEF RaceInv
<1>3. QED
  BY <1>1, <1>2, RaceStep, PTL DEF Spec

-----------------------------------------------------------------------------
SpentIsRevoked ==
    \A w \in Worker : request[w].stage = "spent" => token[request[w].token].revoked

UnspentHasNoChildren ==
    \A t \in Issued : ~token[t].revoked => token[t].children = 0

ExchangeInv ==
    /\ TypeInv
    /\ SpentIsRevoked
    /\ UnspentHasNoChildren
    /\ ExchangedOncePerWorker

LEMMA FewerWorkers ==
    ASSUME NEW S \in SUBSET Worker, NEW T \in SUBSET S
    PROVE  /\ IsFiniteSet(S)
           /\ Cardinality(T) \in Nat /\ Cardinality(S) \in Nat
           /\ Cardinality(T) <= Cardinality(S)
BY WorkerAssumption, FS_Subset, FS_CardinalityType

(* A step leaves the bound of t alone if t has no successor yet, or if it  *)
(* gets one from a request that had checked it.                            *)
LEMMA ExchangeKept ==
    ASSUME ExchangeInv, TypeInv', SpentIsRevoked',
           \A t \in Refresh : token'[t] # None =>
               \/ token'[t].children = 0
               \/ /\ token[t] # None
                  /\ token[t].revoked => token'[t].revoked
                  /\ token'[t].children = token[t].children
                  /\ Exchanging(t)' \subseteq Exchanging(t)
               \/ /\ token[t] # None
                  /\ token'[t].revoked
                  /\ token'[t].children = token[t].children + 1
                  /\ \E w \in Exchanging(t) : Exchanging(t)' = Exchanging(t) \ {w}
    PROVE  ExchangeInv'
<1>1. \A t \in Refresh : /\ token[t] # None => token[t].children \in Nat
                       /\ token'[t] # None => token'[t] \in Token
  BY DEF ExchangeInv, TypeInv, TypeOK, Token
<1>2. UnspentHasNoChildren'
  BY <1>1 DEF ExchangeInv, UnspentHasNoChildren, Issued, Token
<1>3. ASSUME NEW t \in Refresh, token'[t] # None
      PROVE  token'[t].children + Cardinality(Exchanging(t)') <= Cardinality(Worker)
  <2>1. Exchanging(t) \subseteq Worker /\ Exchanging(t)' \subseteq Worker
    BY DEF Exchanging
  <2>2. token[t] # None => /\ token[t].children \in Nat
                       /\ token[t].children + Cardinality(Exchanging(t)) <= Cardinality(Worker)
    BY DEF ExchangeInv, ExchangedOncePerWorker, TypeInv, TypeOK, Token, Issued
  <2>3. CASE token'[t].children = 0
    BY <2>1, <2>3, FewerWorkers
  <2>4. CASE /\ token[t] # None
             /\ token'[t].children = token[t].children
             /\ Exchanging(t)' \subseteq Exchanging(t)
    <3>1. /\ Cardinality(Exchanging(t)') <= Cardinality(Exchanging(t))
          /\ Cardinality(Exchanging(t)') \in Nat /\ Cardinality(Exchanging(t)) \in Nat
      BY <2>1, <2>4, FewerWorkers
    <3>2. Cardinality(Worker) \in Nat
      BY FewerWorkers
    <3>3. QED
      BY <2>2, <2>4, <3>1, <3>2
  <2>5. CASE /\ token[t] # None
             /\ token'[t].children = token[t].children + 1
             /\ \E w \in Exchanging(t) : Exchanging(t)' = Exchanging(t) \ {w}
    <3>1. PICK w \in Exchanging(t) : Exchanging(t)' = Exchanging(t) \ {w}
      BY <2>5
    <3>2. IsFiniteSet(Exchanging(t)) /\ Cardinality(Exchanging(t)) \in Nat
      BY <2>1, FewerWorkers
    <3>3. Cardinality(Exchanging(t)') = Cardinality(Exchanging(t)) - 1
      <4>1. Cardinality(Exchanging(t) \ {w}) = Cardinality(Exchanging(t)) - 1
        BY <3>2, FS_RemoveElement
      <4>2. QED
        BY <3>1, <4>1
    <3>4. Cardinality(Worker) \in Nat
      BY FewerWorkers
    <3>5. QED
      BY <2>2, <2>5, <3>2, <3>3, <3>4
  <2>6. QED
    BY <1>3, <2>3, <2>4, <2>5
<1>4. ExchangedOncePerWorker'
  BY <1>3 DEF ExchangedOncePerWorker, Issued
<1>5. QED
  BY <1>2, <1>4 DEF ExchangeInv

(* Most steps exchange nothing. *)
LEMMA NothingExchanged ==
    ASSUME ExchangeInv, TypeInv',
           \A t \in Refresh : token[t] # None => token'[t] # None,
           \A t \in Refresh : token'[t] # None =>
               \/ token[t] = None /\ token'[t].children = 0
               \/ /\ token[t] # None
                  /\ token[t].revoked => token'[t].revoked
                  /\ token'[t].children = token[t].children,
           \A w \in Worker : request'[w].stage \in {"refreshing", "spent"} =>
               /\ request'[w].token = request[w].token
               /\ request'[w].stage = request[w].stage
    PROVE  ExchangeInv'
<1>1. \A t \in Refresh : Exchanging(t)' \subseteq Exchanging(t)
  BY DEF Exchanging
<1>2. SpentIsRevoked'
  <2> SUFFICES ASSUME NEW w \in Worker, request'[w].stage = "spent"
               PROVE  token'[request'[w].token].revoked
    BY DEF SpentIsRevoked
  <2>1. /\ request[w].stage = "spent" /\ request'[w].token = request[w].token
        /\ request[w].token \in Refresh /\ token[request[w].token] # None
    BY DEF ExchangeInv, TypeInv, RowsAreNamed, NamesRows, Issued
  <2>2. token[request[w].token].revoked
    BY <2>1 DEF ExchangeInv, SpentIsRevoked
  <2>3. QED
    BY <2>1, <2>2
<1>3. QED
  BY <1>1, <1>2, ExchangeKept

LEMMA ExchangeStep == ExchangeInv /\ [Next]_sessionVars => ExchangeInv'
<1> SUFFICES ASSUME ExchangeInv, [Next]_sessionVars PROVE ExchangeInv'
  OBVIOUS
<1> TypeInv /\ TypeInv'
  BY TypeStep DEF ExchangeInv
<1>a. /\ \A v \in Worker : request[v] \in Request
      /\ \A t \in Issued : t \in Refresh /\ token[t] \in Token
  BY DEF TypeInv, TypeOK, Issued
<1>b. ASSUME NEW w \in Worker, NEW r, Begin(w, r)
      PROVE  request'[w] = r /\ \A v \in Worker \ {w} : request'[v] = request[v]
  BY <1>b DEF Begin, TypeInv, TypeOK
<1>c. ASSUME NEW t \in Issued, Revoke(t)
      PROVE  /\ token'[t].revoked
             /\ \A s \in Refresh : token[s] # None <=> token'[s] # None
             /\ \A s \in Refresh : token'[s] # None =>
                   /\ token[s].revoked => token'[s].revoked
                   /\ token'[s].children = token[s].children
  <2>1. token' = [token EXCEPT ![t] = [token[t] EXCEPT !.revoked = TRUE]]
    BY <1>c DEF Revoke
  <2>2. \A s \in Refresh : token[s] # None <=> token'[s] # None
    BY <1>c, RevokeTyped
  <2>3. \A s \in Refresh : token'[s] # None =>
                   /\ token[s].revoked => token'[s].revoked
                   /\ token'[s].children = token[s].children
    BY <1>a, <2>1, <2>2 DEF TypeInv, TypeOK, Token
  <2>4. token'[t].revoked
    BY <1>a, <2>1 DEF TypeInv, TypeOK, Token
  <2>5. QED
    BY <2>2, <2>3, <2>4
<1>0. CASE UNCHANGED sessionVars
  BY <1>0, NothingExchanged DEF sessionVars
<1>1. CASE AccountChange
  BY <1>1, NothingExchanged DEF AccountChange, SetActive, MailResetLink, CreatePat
<1>2. ASSUME NEW w \in Worker,
             \/ CreateUser(w) \/ MarkUsed(w) \/ RevokePat(w) \/ Abandon(w) \/ FinishChange(w)
      PROVE  ExchangeInv'
  <2>1. request'[w].stage = "idle" /\ \A v \in Worker \ {w} : request'[v] = request[v]
    BY <1>2, <1>b DEF CreateUser, MarkUsed, RevokePat, Abandon, FinishChange, End, Idle
  <2>2. token' = token
    BY <1>2 DEF CreateUser, MarkUsed, RevokePat, Abandon, FinishChange
  <2>3. QED
    BY <2>1, <2>2, NothingExchanged
<1>3. ASSUME NEW w \in Worker,
             \/ CheckAddress(w) \/ CheckCredentials(w)
             \/ \E t \in Refresh : CheckLogout(w, t)
             \/ CheckOldPassword(w) \/ CheckResetLink(w) \/ SavePassword(w)
             \/ \E p \in Pat : CheckPat(w, p) \/ CheckRevoke(w, p)
      PROVE  ExchangeInv'
  <2>1. PICK r : /\ Begin(w, r) /\ r.stage \notin {"refreshing", "spent"}
                 /\ token' = token
    BY <1>3 DEF CheckAddress, CheckCredentials, CheckLogout, CheckOldPassword,
       CheckResetLink, SavePassword, CheckPat, CheckRevoke, Idle
  <2>2. QED
    BY <2>1, <1>b, NothingExchanged
<1>4. ASSUME NEW w \in Worker, NEW t \in Refresh, CheckRefresh(w, t) PROVE ExchangeInv'
  <2>1. /\ request'[w].stage = "refreshing" /\ request'[w].token = t
        /\ \A v \in Worker \ {w} : request'[v] = request[v]
        /\ token' = token
    <3> DEFINE r(race) == [Idle EXCEPT !.stage = "refreshing", !.token = t,
                                       !.version = token[t].version, !.race = race]
    <3>1. PICK race : request'[w] = r(race)
      BY <1>4, <1>b DEF CheckRefresh
    <3>2. r(race).stage = "refreshing" /\ r(race).token = t
      BY DEF Idle
    <3>3. QED
      BY <3>1, <3>2, <1>4, <1>b DEF CheckRefresh
  <2>2. t \in Issued /\ token[t].children = 0
    BY <1>4 DEF CheckRefresh, IsLive, Issued, ExchangeInv, UnspentHasNoChildren
  <2>3. SpentIsRevoked'
    BY <2>1 DEF ExchangeInv, SpentIsRevoked
  <2>4. \A s \in Refresh \ {t} : Exchanging(s)' \subseteq Exchanging(s)
    BY <2>1 DEF Exchanging
  <2>5. QED
    BY <2>1, <2>2, <2>3, <2>4, ExchangeKept DEF Issued
<1>5. ASSUME NEW w \in Worker, Spend(w) PROVE ExchangeInv'
  <2>1. request[w].token \in Issued /\ request[w].stage = "refreshing"
    BY <1>5 DEF Spend, At, TypeInv, RowsAreNamed, NamesRows
  <2>2. /\ request'[w].token = request[w].token /\ request'[w].stage = "spent"
        /\ \A v \in Worker \ {w} : request'[v] = request[v]
    <3>1. /\ request'[w] = [request[w] EXCEPT !.stage = "spent"]
          /\ \A v \in Worker \ {w} : request'[v] = request[v]
      BY <1>5, <1>b DEF Spend
    <3>2. QED
      BY <3>1, <1>a DEF Request
  <2>3. /\ token'[request[w].token].revoked
        /\ \A s \in Refresh : token[s] # None <=> token'[s] # None
        /\ \A s \in Refresh : token'[s] # None =>
              /\ token[s].revoked => token'[s].revoked
              /\ token'[s].children = token[s].children
    BY <1>5, <2>1, <1>c DEF Spend
  <2>4. ASSUME NEW v \in Worker, request'[v].stage = "spent"
        PROVE  token'[request'[v].token].revoked
    <3>1. CASE v = w
      BY <2>2, <2>3, <3>1
    <3>2. CASE v # w
      <4>1. request'[v] = request[v]
        BY <2>2, <3>2
      <4>2. /\ request[v].token \in Refresh
            /\ token[request[v].token] # None
            /\ token[request[v].token].revoked
        BY <2>4, <4>1 DEF ExchangeInv, SpentIsRevoked, TypeInv, RowsAreNamed, NamesRows, Issued
      <4>3. QED
        BY <2>3, <4>1, <4>2
    <3>3. QED
      BY <3>1, <3>2
  <2>5. SpentIsRevoked'
    BY <2>4 DEF SpentIsRevoked
  <2>6. \A s \in Refresh : Exchanging(s)' \subseteq Exchanging(s)
    BY <2>1, <2>2 DEF Exchanging
  <2>7. QED
    BY <2>3, <2>5, <2>6, ExchangeKept
<1>6. ASSUME NEW w \in Worker, NEW s \in Refresh, IssueFirst(w, s) PROVE ExchangeInv'
  <2>1. /\ token'[s].children = 0 /\ token[s] = None /\ token'[s] # None
        /\ \A t \in Refresh \ {s} : token'[t] = token[t]
    <3>1. /\ token'[s] = NewToken(w) /\ token[s] = None
          /\ \A t \in Refresh \ {s} : token'[t] = token[t]
      BY <1>6 DEF IssueFirst, TypeInv, TypeOK
    <3>2. NewToken(w).children = 0 /\ NewToken(w) # None
      BY NewTokenTyped, NoneAssumption DEF NewToken
    <3>3. QED
      BY <3>1, <3>2
  <2>2. request'[w].stage = "idle" /\ \A v \in Worker \ {w} : request'[v] = request[v]
    BY <1>6, <1>b DEF IssueFirst, End, Idle
  <2>3. QED
    BY <2>1, <2>2, NothingExchanged
<1>7. ASSUME NEW w \in Worker, NEW s \in Refresh, IssueNext(w, s) PROVE ExchangeInv'
  <2> DEFINE t == request[w].token
  <2>1. /\ t \in Refresh /\ token[t] # None /\ t # s
        /\ token[t].revoked /\ w \in Exchanging(t)
    BY <1>7 DEF IssueNext, At, TypeInv, RowsAreNamed, NamesRows, Issued, ExchangeInv,
       SpentIsRevoked, Exchanging
  <2> HIDE DEF t
  <2>2. /\ token'[s].children = 0 /\ s \notin Issued
        /\ token'[t].children = token[t].children + 1
        /\ token'[t].revoked
        /\ \A u \in Refresh \ {s, t} : token'[u] = token[u]
    <3>1. token' = [token EXCEPT ![s] = NewToken(w),
                                 ![t] = [token[t] EXCEPT !.children = @ + 1]]
      BY <1>7, <2>1 DEF IssueNext, TypeInv, TypeOK, t
    <3>2. NewToken(w).children = 0 /\ s \notin Issued
      BY <1>7 DEF NewToken, IssueNext, Issued
    <3>3. QED
      BY <3>1, <3>2, <2>1, <1>a DEF TypeInv, TypeOK, Token
  <2>3. request'[w].stage = "idle" /\ \A v \in Worker \ {w} : request'[v] = request[v]
    BY <1>7, <1>b DEF IssueNext, End, Idle
  <2>4. SpentIsRevoked'
    <3>1. ASSUME NEW v \in Worker, request'[v].stage = "spent"
          PROVE  token'[request'[v].token].revoked
      <4>1. request'[v] = request[v]
        BY <2>3, <3>1
      <4>2. /\ request[v].token \in Refresh
            /\ token[request[v].token] # None
            /\ token[request[v].token].revoked
        BY <3>1, <4>1 DEF ExchangeInv, SpentIsRevoked, TypeInv, RowsAreNamed, NamesRows, Issued
      <4>3. QED
        BY <2>1, <2>2, <4>1, <4>2 DEF Issued
    <3>2. QED
      BY <3>1 DEF SpentIsRevoked
  <2>5. ASSUME NEW u \in Refresh PROVE Exchanging(u)' = Exchanging(u) \ {w}
    <3>1. w \notin Exchanging(u)'
      BY <2>3 DEF Exchanging
    <3>2. \A v \in Worker \ {w} : v \in Exchanging(u)' <=> v \in Exchanging(u)
      BY <2>3 DEF Exchanging
    <3>3. Exchanging(u)' \subseteq Worker /\ Exchanging(u) \subseteq Worker
      BY DEF Exchanging
    <3>4. QED
      BY <3>1, <3>2, <3>3
  <2>6. ASSUME NEW u \in Refresh, token'[u] # None
        PROVE  \/ token'[u].children = 0
               \/ /\ token[u] # None
                  /\ token[u].revoked => token'[u].revoked
                  /\ token'[u].children = token[u].children
                  /\ Exchanging(u)' \subseteq Exchanging(u)
               \/ /\ token[u] # None
                  /\ token'[u].revoked
                  /\ token'[u].children = token[u].children + 1
                  /\ \E v \in Exchanging(u) : Exchanging(u)' = Exchanging(u) \ {v}
    <3>1. Exchanging(u)' = Exchanging(u) \ {w}
      BY <2>5
    <3>2. CASE u \notin {s, t}
      BY <2>2, <2>6, <3>1, <3>2
    <3>3. CASE u = s
      BY <2>2, <3>3
    <3>4. CASE u = t
      <4>1. w \in Exchanging(u)
        BY <2>1, <3>4
      <4>2. QED
        BY <2>1, <2>2, <3>1, <3>4, <4>1
    <3>5. QED
      BY <3>2, <3>3, <3>4
  <2>7. QED
    BY <2>4, <2>6, ExchangeKept
<1>8. ASSUME NEW w \in Worker, Logout(w) PROVE ExchangeInv'
  <2>1. request[w].token \in Issued
    BY <1>8 DEF Logout, At, TypeInv, RowsAreNamed, NamesRows
  <2>2. request'[w].stage = "idle" /\ \A v \in Worker \ {w} : request'[v] = request[v]
    BY <1>8, <1>b DEF Logout, End, Idle
  <2>3. QED
    <3>1. /\ \A s \in Refresh : token[s] # None <=> token'[s] # None
          /\ \A s \in Refresh : token'[s] # None =>
                /\ token[s].revoked => token'[s].revoked
                /\ token'[s].children = token[s].children
      BY <1>8, <2>1, <1>c DEF Logout
    <3>2. QED
      BY <2>2, <3>1, NothingExchanged
<1>9. ASSUME NEW w \in Worker, ListOutstanding(w) PROVE ExchangeInv'
  <2>1. request'[w].stage = "ending"
    BY <1>9, <1>a DEF ListOutstanding, Request
  <2>2. ASSUME NEW v \in Worker, v # w
        PROVE  request'[v].stage = request[v].stage /\ request'[v].token = request[v].token
    <3>1. CASE v \in Issuing
      <4>1. request'[v] = [request[v] EXCEPT !.race = @ \cup {request[w].version}]
        BY <1>9, <2>2, <3>1 DEF ListOutstanding
      <4>2. QED
        BY <4>1, <1>a DEF Request
    <3>2. CASE v \notin Issuing
      BY <1>9, <2>2, <3>2 DEF ListOutstanding
    <3>3. QED
      BY <3>1, <3>2
  <2>3. QED
    BY <1>9, <2>1, <2>2, NothingExchanged DEF ListOutstanding
<1>10. ASSUME NEW w \in Worker, Blacklist(w) PROVE ExchangeInv'
  <2>1. PICK t \in request[w].todo :
            /\ At(w, "ending") /\ Revoke(t)
            /\ request' = [request EXCEPT ![w] = [request[w] EXCEPT !.todo = @ \ {t}]]
    BY <1>10 DEF Blacklist
  <2>2. t \in Issued
    BY DEF TypeInv, RowsAreNamed, NamesRows
  <2>3. request'[w].stage = "ending" /\ \A v \in Worker \ {w} : request'[v] = request[v]
    BY <2>1, <1>a DEF At, TypeInv, TypeOK, Request
  <2>4. /\ \A s \in Refresh : token[s] # None <=> token'[s] # None
        /\ \A s \in Refresh : token'[s] # None =>
              /\ token[s].revoked => token'[s].revoked
              /\ token'[s].children = token[s].children
    BY <2>1, <2>2, <1>c
  <2>5. QED
    BY <2>3, <2>4, NothingExchanged
<1>11. QED
  BY <1>0, <1>1, <1>2, <1>3, <1>4, <1>5, <1>6, <1>7, <1>8, <1>9, <1>10
  DEF Next, Serve, Register, SignIn, RefreshToken, SignOut, ChangePassword, UsePat

(* A refresh token pays for at most as many successors as there are        *)
(* requests at one time.                                                   *)
THEOREM ExchangeIsBounded == Spec => []ExchangedOncePerWorker
<1>1. Init => ExchangeInv
  <2> SUFFICES ASSUME Init PROVE ExchangeInv
    OBVIOUS
  <2>1. TypeInv
    BY TypeInit DEF TypeInv, Init, RowsAreNamed, NamesRows, Idle
  <2>2. QED
    BY <2>1 DEF Init, Idle, ExchangeInv, SpentIsRevoked, UnspentHasNoChildren,
       ExchangedOncePerWorker, Issued
<1>2. ExchangeInv => ExchangedOncePerWorker
  BY DEF ExchangeInv
<1>3. QED
  BY <1>1, <1>2, ExchangeStep, PTL DEF Spec

-----------------------------------------------------------------------------
UnrevokedIsOnTime ==
    \A p \in Pat : pat[p] # None /\ pat[p].revoked = 0 => pat[p].late = 0

RevokeInv ==
    /\ TypeInv
    /\ UnrevokedIsOnTime
    /\ RevocationHolds

(* A step leaves the bounds of p alone if p is not revoked after it, if    *)
(* nobody more serves p, or if a request that had read p writes its row.   *)
LEMMA RevocationKept ==
    ASSUME RevokeInv, TypeInv', NEW p \in Pat, pat'[p] # None,
           NEW Using, NEW Revoking, NEW NextUsing, NEW NextRevoking, NEW w,
           Using = Serving(p, "using"), Revoking = Serving(p, "revoking"),
           NextUsing = Serving(p, "using")', NextRevoking = Serving(p, "revoking")',
           \/ pat'[p].revoked = 0 /\ pat'[p].late = 0
           \/ /\ pat[p] # None
              /\ pat'[p] = pat[p]
              /\ NextUsing \subseteq Using
              /\ NextRevoking \subseteq Revoking
           \/ /\ pat[p] # None
              /\ pat'[p].revoked = pat[p].revoked
              /\ pat[p].revoked > 0
              /\ pat'[p].late = pat[p].late + 1
              /\ w \in Using
              /\ NextUsing = Using \ {w}
              /\ NextRevoking = Revoking
           \/ /\ pat[p] # None
              /\ pat'[p].revoked = pat[p].revoked + 1
              /\ pat'[p].late = pat[p].late
              /\ w \in Revoking
              /\ NextUsing = Using
              /\ NextRevoking = Revoking \ {w}
    PROVE  /\ pat'[p].revoked = 0 => pat'[p].late = 0
           /\ pat'[p].revoked + Cardinality(NextRevoking) <= Cardinality(Worker)
           /\ pat'[p].revoked > 0 =>
                pat'[p].late + Cardinality(NextUsing) < Cardinality(Worker)
<1>1. /\ pat[p] # None => pat[p].revoked \in Nat /\ pat[p].late \in Nat
      /\ pat'[p].revoked \in Nat /\ pat'[p].late \in Nat
  BY DEF RevokeInv, TypeInv, TypeOK, AccessToken
<1>2. /\ Using \subseteq Worker /\ Revoking \subseteq Worker
      /\ NextUsing \subseteq Worker /\ NextRevoking \subseteq Worker
      /\ \A v \in Revoking : v \notin Using
  BY DEF Serving
<1>3. /\ IsFiniteSet(Using) /\ IsFiniteSet(Revoking)
      /\ Cardinality(Using) \in Nat /\ Cardinality(Using) <= Cardinality(Worker)
      /\ Cardinality(Revoking) \in Nat /\ Cardinality(Revoking) <= Cardinality(Worker)
      /\ Cardinality(NextUsing) \in Nat /\ Cardinality(NextUsing) <= Cardinality(Worker)
      /\ Cardinality(NextRevoking) \in Nat
      /\ Cardinality(NextRevoking) <= Cardinality(Worker)
      /\ Cardinality(Worker) \in Nat
  BY <1>2, FewerWorkers
<1>4. pat[p] # None =>
        /\ pat[p].revoked = 0 => pat[p].late = 0
        /\ pat[p].revoked + Cardinality(Revoking) <= Cardinality(Worker)
        /\ pat[p].revoked > 0 => pat[p].late + Cardinality(Using) < Cardinality(Worker)
  BY DEF RevokeInv, UnrevokedIsOnTime, RevocationHolds
<1>5. CASE pat'[p].revoked = 0 /\ pat'[p].late = 0
  BY <1>1, <1>3, <1>5
<1>6. CASE /\ pat[p] # None
           /\ pat'[p] = pat[p]
           /\ NextUsing \subseteq Using
           /\ NextRevoking \subseteq Revoking
  <2>1. /\ Cardinality(NextUsing) <= Cardinality(Using)
        /\ Cardinality(NextRevoking) <= Cardinality(Revoking)
    BY <1>2, <1>6, FewerWorkers
  <2>2. QED
    BY <1>1, <1>3, <1>4, <1>6, <2>1
<1>7. CASE /\ pat[p] # None
           /\ pat'[p].revoked = pat[p].revoked
           /\ pat[p].revoked > 0
           /\ pat'[p].late = pat[p].late + 1
           /\ w \in Using
           /\ NextUsing = Using \ {w}
           /\ NextRevoking = Revoking
  <2>1. Cardinality(NextUsing) = Cardinality(Using) - 1
    BY <1>3, <1>7, FS_RemoveElement
  <2>2. QED
    BY <1>1, <1>3, <1>4, <1>7, <2>1
<1>8. CASE /\ pat[p] # None
           /\ pat'[p].revoked = pat[p].revoked + 1
           /\ pat'[p].late = pat[p].late
           /\ w \in Revoking
           /\ NextUsing = Using
           /\ NextRevoking = Revoking \ {w}
  <2>1. Cardinality(NextRevoking) = Cardinality(Revoking) - 1
    BY <1>3, <1>8, FS_RemoveElement
  <2>2. Cardinality(Using) < Cardinality(Worker)
    <3>1. Using \subseteq Worker /\ w \in Worker /\ w \notin Using
      BY <1>2, <1>8
    <3>2. Cardinality(Using) # Cardinality(Worker)
      BY <3>1, WorkerAssumption, FS_Subset
    <3>3. QED
      BY <1>3, <3>2
  <2>3. QED
    BY <1>1, <1>3, <1>4, <1>8, <2>1, <2>2
<1>9. QED
  BY <1>5, <1>6, <1>7, <1>8

(* Most steps neither use nor revoke what is revoked. *)
LEMMA NothingRevoked ==
    ASSUME RevokeInv, TypeInv',
           \A p \in Pat : pat'[p] # None =>
               \/ pat'[p].revoked = 0 /\ pat'[p].late = 0
               \/ /\ pat[p] # None
                  /\ pat'[p] = pat[p]
                  /\ Serving(p, "using")' \subseteq Serving(p, "using")
                  /\ Serving(p, "revoking")' \subseteq Serving(p, "revoking")
    PROVE  RevokeInv'
<1>1. ASSUME NEW p \in Pat, pat'[p] # None
      PROVE  /\ pat'[p].revoked = 0 => pat'[p].late = 0
             /\ pat'[p].revoked + Cardinality(Serving(p, "revoking")') <= Cardinality(Worker)
             /\ pat'[p].revoked > 0 =>
                  pat'[p].late + Cardinality(Serving(p, "using")') < Cardinality(Worker)
  BY <1>1, RevocationKept
<1>2. UnrevokedIsOnTime' /\ RevocationHolds'
  BY <1>1 DEF UnrevokedIsOnTime, RevocationHolds
<1>3. QED
  BY <1>2 DEF RevokeInv

LEMMA RevokeStep == RevokeInv /\ [Next]_sessionVars => RevokeInv'
<1> SUFFICES ASSUME RevokeInv, [Next]_sessionVars PROVE RevokeInv'
  OBVIOUS
<1> TypeInv /\ TypeInv'
  BY TypeStep DEF RevokeInv
<1>a. \A v \in Worker : request[v] \in Request
  BY DEF TypeInv, TypeOK
<1>b. ASSUME NEW w \in Worker, NEW r, Begin(w, r)
      PROVE  request'[w] = r /\ \A v \in Worker \ {w} : request'[v] = request[v]
  BY <1>b DEF Begin, TypeInv, TypeOK
<1>c. ASSUME pat' = pat,
             \A v \in Worker : request'[v].stage \in {"using", "revoking"} =>
                 request'[v].stage = request[v].stage /\ request'[v].pat = request[v].pat
      PROVE  RevokeInv'
  <2>1. \A p \in Pat : /\ Serving(p, "using")' \subseteq Serving(p, "using")
                     /\ Serving(p, "revoking")' \subseteq Serving(p, "revoking")
    BY <1>c DEF Serving
  <2>2. QED
    BY <1>c, <2>1, NothingRevoked
<1>0. CASE UNCHANGED sessionVars
  BY <1>0, <1>c DEF sessionVars
<1>1. ASSUME NEW active \in BOOLEAN, SetActive(active) \/ MailResetLink PROVE RevokeInv'
  BY <1>1, <1>c DEF SetActive, MailResetLink
<1>2. ASSUME NEW p \in Pat, CreatePat(p) PROVE RevokeInv'
  <2>1. pat'[p].revoked = 0 /\ pat'[p].late = 0 /\ \A q \in Pat \ {p} : pat'[q] = pat[q]
    BY <1>2 DEF CreatePat, TypeInv, TypeOK
  <2>2. \A q \in Pat : /\ Serving(q, "using")' \subseteq Serving(q, "using")
                     /\ Serving(q, "revoking")' \subseteq Serving(q, "revoking")
    BY <1>2 DEF CreatePat, Serving
  <2>3. QED
    BY <2>1, <2>2, NothingRevoked
<1>3. ASSUME NEW w \in Worker,
             \/ CreateUser(w) \/ (\E s \in Refresh : IssueFirst(w, s) \/ IssueNext(w, s))
             \/ Logout(w) \/ FinishChange(w) \/ Abandon(w)
      PROVE  RevokeInv'
  <2>1. request'[w].stage = "idle" /\ \A v \in Worker \ {w} : request'[v] = request[v]
    <3>1. End(w)
      BY <1>3 DEF CreateUser, IssueFirst, IssueNext, Logout, FinishChange, Abandon
    <3>2. QED
      BY <3>1, <1>b DEF End, Idle
  <2>2. pat' = pat
    BY <1>3 DEF CreateUser, IssueFirst, IssueNext, Logout, FinishChange, Abandon
  <2>3. QED
    BY <2>1, <2>2, <1>c
<1>4. ASSUME NEW w \in Worker,
             \/ CheckAddress(w) \/ CheckCredentials(w) \/ CheckOldPassword(w)
             \/ CheckResetLink(w) \/ SavePassword(w)
             \/ (\E t \in Refresh : CheckLogout(w, t))
      PROVE  RevokeInv'
  <2>1. PICK r : Begin(w, r) /\ r.stage \notin {"using", "revoking"} /\ pat' = pat
    BY <1>4 DEF CheckAddress, CheckCredentials, CheckOldPassword, CheckResetLink,
       SavePassword, CheckLogout, Idle
  <2>2. QED
    BY <2>1, <1>b, <1>c
<1>5. ASSUME NEW w \in Worker, NEW t \in Refresh, CheckRefresh(w, t) PROVE RevokeInv'
  <2> DEFINE r(race) == [Idle EXCEPT !.stage = "refreshing", !.token = t,
                                     !.version = token[t].version, !.race = race]
  <2>1. PICK race : request'[w] = r(race)
    BY <1>5, <1>b DEF CheckRefresh
  <2>2. r(race).stage = "refreshing"
    BY DEF Idle
  <2>3. pat' = pat /\ \A v \in Worker \ {w} : request'[v] = request[v]
    BY <1>5, <1>b DEF CheckRefresh
  <2>4. QED
    BY <2>1, <2>2, <2>3, <1>c
<1>6. ASSUME NEW w \in Worker, Spend(w) PROVE RevokeInv'
  <2>1. /\ request'[w] = [request[w] EXCEPT !.stage = "spent"]
        /\ \A v \in Worker \ {w} : request'[v] = request[v]
    BY <1>6, <1>b DEF Spend
  <2>2. request'[w].stage = "spent"
    BY <2>1, <1>a DEF Request
  <2>3. QED
    BY <1>6, <2>1, <2>2, <1>c DEF Spend
<1>7. ASSUME NEW w \in Worker, ListOutstanding(w) PROVE RevokeInv'
  <2>1. request'[w].stage = "ending"
    BY <1>7, <1>a DEF ListOutstanding, Request
  <2>2. ASSUME NEW v \in Worker, v # w
        PROVE  request'[v].stage = request[v].stage /\ request'[v].pat = request[v].pat
    <3>1. CASE v \in Issuing
      <4>1. request'[v] = [request[v] EXCEPT !.race = @ \cup {request[w].version}]
        BY <1>7, <2>2, <3>1 DEF ListOutstanding
      <4>2. QED
        BY <4>1, <1>a DEF Request
    <3>2. CASE v \notin Issuing
      BY <1>7, <2>2, <3>2 DEF ListOutstanding
    <3>3. QED
      BY <3>1, <3>2
  <2>3. QED
    BY <1>7, <2>1, <2>2, <1>c DEF ListOutstanding
<1>8. ASSUME NEW w \in Worker, Blacklist(w) PROVE RevokeInv'
  <2>1. PICK t \in request[w].todo :
            /\ At(w, "ending") /\ pat' = pat
            /\ request' = [request EXCEPT ![w] = [request[w] EXCEPT !.todo = @ \ {t}]]
    BY <1>8 DEF Blacklist
  <2>2. request'[w].stage = "ending" /\ \A v \in Worker \ {w} : request'[v] = request[v]
    BY <2>1, <1>a DEF At, TypeInv, TypeOK, Request
  <2>3. QED
    BY <2>1, <2>2, <1>c
<1>9. ASSUME NEW w \in Worker, NEW p \in Pat, CheckPat(w, p) \/ CheckRevoke(w, p)
      PROVE  RevokeInv'
  <2> DEFINE using == [Idle EXCEPT !.stage = "using", !.pat = p]
             revoking == [Idle EXCEPT !.stage = "revoking", !.pat = p]
  <2>1. Begin(w, using) \/ Begin(w, revoking)
    BY <1>9 DEF CheckPat, CheckRevoke
  <2>2. request'[w].pat = p /\ \A v \in Worker \ {w} : request'[v] = request[v]
    <3>1. using.pat = p /\ revoking.pat = p
      BY DEF Idle
    <3> HIDE DEF using, revoking
    <3>2. QED
      BY <2>1, <1>b, <3>1
  <2>3. pat[p].revoked = 0 /\ pat[p].late = 0 /\ pat' = pat
    BY <1>9 DEF CheckPat, IsUsable, CheckRevoke, RevokeInv, UnrevokedIsOnTime
  <2>4. \A q \in Pat \ {p} : /\ Serving(q, "using")' \subseteq Serving(q, "using")
                           /\ Serving(q, "revoking")' \subseteq Serving(q, "revoking")
    BY <2>2 DEF Serving
  <2>5. QED
    BY <2>3, <2>4, NothingRevoked
<1>10. ASSUME NEW w \in Worker, MarkUsed(w) \/ RevokePat(w) PROVE RevokeInv'
  <2> DEFINE p == request[w].pat
  <2>1. /\ p \in Pat /\ pat[p] # None /\ pat[p] \in AccessToken
        /\ pat[p].revoked \in Nat /\ pat[p].late \in Nat
    BY <1>10 DEF MarkUsed, RevokePat, At, TypeInv, TypeOK, RowsAreNamed, NamesRows, AccessToken
  <2>2. request'[w].stage = "idle" /\ \A v \in Worker \ {w} : request'[v] = request[v]
    BY <1>10, <1>b DEF MarkUsed, RevokePat, End, Idle
  <2>3. /\ \A q \in Pat \ {p} : pat'[q] = pat[q]
        /\ MarkUsed(w) =>
             /\ pat'[p].revoked = pat[p].revoked
             /\ pat'[p].late = IF pat[p].revoked > 0 THEN pat[p].late + 1 ELSE pat[p].late
        /\ RevokePat(w) =>
             /\ pat'[p].revoked = pat[p].revoked + 1
             /\ pat'[p].late = pat[p].late
    BY <1>10, <2>1 DEF MarkUsed, RevokePat, TypeInv, TypeOK, AccessToken
  <2>4. request[w].stage = IF MarkUsed(w) THEN "using" ELSE "revoking"
    BY <1>10 DEF MarkUsed, RevokePat, At
  <2>5. MarkUsed(w) => ~RevokePat(w)
    BY DEF MarkUsed, RevokePat, At
  <2> HIDE DEF p
  <2>6. ASSUME NEW q \in Pat, pat'[q] # None
        PROVE  /\ pat'[q].revoked = 0 => pat'[q].late = 0
               /\ pat'[q].revoked + Cardinality(Serving(q, "revoking")') <= Cardinality(Worker)
               /\ pat'[q].revoked > 0 =>
                    pat'[q].late + Cardinality(Serving(q, "using")') < Cardinality(Worker)
    <3>1. /\ Serving(q, "using")' = Serving(q, "using") \ {w}
          /\ Serving(q, "revoking")' = Serving(q, "revoking") \ {w}
      BY <2>2 DEF Serving
    <3>2. CASE q # p
      <4>1. pat'[q] = pat[q]
        BY <2>3, <3>2
      <4>2. QED
        BY <2>6, <3>1, <4>1, RevocationKept
    <3>3. CASE q = p /\ MarkUsed(w) /\ pat[p].revoked = 0
      <4>1. pat[p].late = 0
        BY <2>1, <3>3 DEF RevokeInv, UnrevokedIsOnTime
      <4>2. pat'[q].revoked = 0 /\ pat'[q].late = 0
        BY <2>3, <3>3, <4>1
      <4>3. QED
        BY <2>6, <4>2, RevocationKept
    <3>4. CASE q = p /\ MarkUsed(w) /\ pat[p].revoked > 0
      <4>1. w \in Serving(q, "using") /\ w \notin Serving(q, "revoking")
        BY <2>4, <3>4 DEF Serving, p
      <4>2. Serving(q, "revoking")' = Serving(q, "revoking")
        BY <3>1, <4>1
      <4>3. /\ pat[q] # None /\ pat'[q].revoked = pat[q].revoked /\ pat[q].revoked > 0
            /\ pat'[q].late = pat[q].late + 1
        BY <2>1, <2>3, <3>4
      <4>4. QED
        BY <2>6, <3>1, <4>1, <4>2, <4>3, RevocationKept
    <3>5. CASE q = p /\ RevokePat(w)
      <4>1. w \in Serving(q, "revoking") /\ w \notin Serving(q, "using")
        BY <2>4, <2>5, <3>5 DEF Serving, p
      <4>2. Serving(q, "using")' = Serving(q, "using")
        BY <3>1, <4>1
      <4>3. /\ pat[q] # None /\ pat'[q].revoked = pat[q].revoked + 1
            /\ pat'[q].late = pat[q].late
        BY <2>1, <2>3, <3>5
      <4>4. QED
        BY <2>6, <3>1, <4>1, <4>2, <4>3, RevocationKept
    <3>6. QED
      BY <1>10, <2>1, <3>2, <3>3, <3>4, <3>5
  <2>7. UnrevokedIsOnTime' /\ RevocationHolds'
    BY <2>6 DEF UnrevokedIsOnTime, RevocationHolds
  <2>8. QED
    BY <2>7 DEF RevokeInv
<1>11. QED
  BY <1>0, <1>1, <1>2, <1>3, <1>4, <1>5, <1>6, <1>7, <1>8, <1>9, <1>10
  DEF Next, AccountChange, Serve, Register, SignIn, RefreshToken, SignOut, ChangePassword,
      UsePat

LEMMA RevokeInvAlways == Spec => []RevokeInv
<1>1. Init => RevokeInv
  <2> SUFFICES ASSUME Init PROVE RevokeInv
    OBVIOUS
  <2>1. TypeInv
    BY TypeInit DEF TypeInv, Init, RowsAreNamed, NamesRows, Idle
  <2>2. QED
    BY <2>1 DEF Init, RevokeInv, UnrevokedIsOnTime, RevocationHolds
<1>2. QED
  BY <1>1, RevokeStep, PTL DEF Spec

(* A personal access token that is revoked is used, and revoked again,     *)
(* only by requests that had read its row before.                          *)
THEOREM RevokedStaysRevoked == Spec => []RevocationHolds
<1>1. RevokeInv => RevocationHolds
  BY DEF RevokeInv
<1>2. QED
  BY <1>1, RevokeInvAlways, PTL

-----------------------------------------------------------------------------
(* With one worker no request overlaps another, and no race is recorded.   *)
OneWorker == \A v, w \in Worker : v = w

NothingOverlaps ==
    /\ \A t \in Refresh : token[t] # None => token[t].race = {}
    /\ \A w \in Worker : request[w].race = {}

LEMMA NothingOverlapsStep ==
    ASSUME OneWorker, TypeInv, NothingOverlaps, [Next]_sessionVars
    PROVE  NothingOverlaps'
<1> USE DEF NothingOverlaps
<1>0. /\ \A w \in Worker : request[w] \in Request /\ request[w].race = {}
      /\ \A t \in Refresh : token[t] # None => token[t] \in Token /\ token[t].race = {}
  BY DEF TypeInv, TypeOK
<1>a. ASSUME NEW w \in Worker, NEW r, r.race = {}, Begin(w, r),
             \A t \in Refresh : token'[t] # None => token'[t].race = {}
      PROVE  NothingOverlaps'
  BY <1>a DEF Begin, TypeInv, TypeOK
<1>b. ASSUME NEW w \in Worker, End(w),
             \A t \in Refresh : token'[t] # None => token'[t].race = {}
      PROVE  NothingOverlaps'
  BY <1>a, <1>b DEF End, Idle
<1>c. ASSUME NEW t \in Issued, Revoke(t)
      PROVE  \A s \in Refresh : token'[s] # None => token'[s].race = {}
  <2>1. [token[t] EXCEPT !.revoked = TRUE].race = {}
    BY <1>0 DEF Issued, Token
  <2>2. QED
    BY <1>0, <1>c, <2>1 DEF Revoke, Issued, TypeInv, TypeOK
<1>1. CASE UNCHANGED sessionVars
  BY <1>1 DEF sessionVars
<1>2. CASE AccountChange
  BY <1>2 DEF AccountChange, SetActive, MailResetLink, CreatePat
<1>3. ASSUME NEW w \in Worker,
             \/ CheckAddress(w) \/ CheckCredentials(w) \/ CheckOldPassword(w)
             \/ CheckResetLink(w) \/ SavePassword(w)
             \/ (\E t \in Refresh : CheckLogout(w, t))
             \/ (\E p \in Pat : CheckPat(w, p) \/ CheckRevoke(w, p))
      PROVE  NothingOverlaps'
  <2>1. PICK r : Begin(w, r) /\ r.race = {} /\ token' = token
    BY <1>3 DEF CheckAddress, CheckCredentials, CheckOldPassword, CheckResetLink,
       SavePassword, CheckLogout, CheckPat, CheckRevoke, Idle
  <2>2. QED
    BY <1>0, <1>a, <2>1
<1>4. ASSUME NEW w \in Worker,
             CreateUser(w) \/ FinishChange(w) \/ Abandon(w) \/ MarkUsed(w) \/ RevokePat(w)
      PROVE  NothingOverlaps'
  BY <1>0, <1>4, <1>b DEF CreateUser, FinishChange, Abandon, MarkUsed, RevokePat
<1>5. ASSUME NEW w \in Worker, NEW t \in Refresh, CheckRefresh(w, t) PROVE NothingOverlaps'
  <2>1. Ending = {}
    BY <1>5 DEF CheckRefresh, IsIdle, Idle, OneWorker, Ending
  <2>2. token[t].race \cup {request[v].version : v \in Ending} = {}
    BY <1>0, <1>5, <2>1 DEF CheckRefresh, IsLive
  <2>3. QED
    BY <1>0, <1>5, <1>a, <2>2 DEF CheckRefresh, Idle
<1>6. ASSUME NEW w \in Worker, Spend(w) PROVE NothingOverlaps'
  <2>1. request[w].token \in Issued
    BY <1>6 DEF Spend, At, TypeInv, RowsAreNamed, NamesRows
  <2>2. [request[w] EXCEPT !.stage = "spent"].race = {}
    BY <1>0 DEF Request
  <2>3. QED
    BY <1>6, <1>a, <1>c, <2>1, <2>2 DEF Spend
<1>7. ASSUME NEW w \in Worker, NEW s \in Refresh, IssueFirst(w, s) \/ IssueNext(w, s)
      PROVE  NothingOverlaps'
  <2> DEFINE t == request[w].token
  <2>1. NewToken(w).race = {}
    BY <1>0 DEF NewToken
  <2>2. IssueNext(w, s) => t \in Issued /\ t # s
    BY DEF IssueNext, At, TypeInv, RowsAreNamed, NamesRows, Issued
  <2>3. IssueNext(w, s) => [token[t] EXCEPT !.children = @ + 1].race = {}
    BY <1>0, <2>2 DEF Token, Issued
  <2>4. \A u \in Refresh : token'[u] # None => token'[u].race = {}
    <3>1. CASE IssueFirst(w, s)
      BY <1>0, <2>1, <3>1 DEF IssueFirst, TypeInv, TypeOK
    <3>2. CASE IssueNext(w, s)
      <4>1. token' = [token EXCEPT ![s] = NewToken(w),
                                   ![t] = [token[t] EXCEPT !.children = @ + 1]]
        BY <2>2, <3>2 DEF IssueNext, TypeInv, TypeOK, Issued
      <4>2. QED
        <5> HIDE DEF t
        <5> QED
          BY <1>0, <2>1, <2>2, <2>3, <3>2, <4>1 DEF TypeInv, TypeOK
    <3>3. QED
      BY <1>7, <3>1, <3>2
  <2>5. QED
    BY <1>7, <1>b, <2>4 DEF IssueFirst, IssueNext
<1>8. ASSUME NEW w \in Worker, Logout(w) PROVE NothingOverlaps'
  <2>1. request[w].token \in Issued
    BY <1>8 DEF Logout, At, TypeInv, RowsAreNamed, NamesRows
  <2>2. QED
    BY <1>8, <1>b, <1>c, <2>1 DEF Logout
<1>9. ASSUME NEW w \in Worker, ListOutstanding(w) PROVE NothingOverlaps'
  <2>1. \A v \in Worker :
            request'[v] = [request[w] EXCEPT !.stage = "ending", !.todo = Outstanding]
    BY <1>9 DEF ListOutstanding, OneWorker
  <2>2. [request[w] EXCEPT !.stage = "ending", !.todo = Outstanding].race = {}
    BY <1>0 DEF Request
  <2>3. QED
    BY <1>0, <1>9, <2>1, <2>2 DEF ListOutstanding
<1>10. ASSUME NEW w \in Worker, Blacklist(w) PROVE NothingOverlaps'
  <2>1. PICK t \in request[w].todo :
            Revoke(t) /\ Begin(w, [request[w] EXCEPT !.todo = @ \ {t}])
    BY <1>10 DEF Blacklist, Begin
  <2>2. t \in Issued /\ [request[w] EXCEPT !.todo = @ \ {t}].race = {}
    BY <1>0 DEF TypeInv, RowsAreNamed, NamesRows, Request
  <2>3. QED
    BY <1>a, <1>c, <2>1, <2>2
<1>11. QED
  BY <1>1, <1>2, <1>3, <1>4, <1>5, <1>6, <1>7, <1>8, <1>9, <1>10
  DEF Next, Serve, Register, SignIn, RefreshToken, SignOut, ChangePassword, UsePat

(* What rotation and blacklisting are for (docs/security.md:14,23,46): a   *)
(* change of the password ends every older session, a refresh token has    *)
(* one successor, and a revoked access token is neither used nor revoked   *)
(* again.                                                                  *)
NoExceptions ==
    /\ \A t \in Refresh : token[t] # None =>
           /\ ~token[t].revoked => token[t].version >= ended
           /\ token[t].children <= 1
    /\ \A p \in Pat : pat[p] # None => pat[p].revoked <= 1 /\ pat[p].late = 0

(* Every exception to the promises is one of overlapping requests: where   *)
(* they are served one at a time there is none, whoever dies on the way.   *)
THEOREM PromisesHoldInSequence ==
    ASSUME Cardinality(Worker) = 1
    PROVE  Spec => []NoExceptions
<1>1. OneWorker
  BY WorkerAssumption, FS_Singleton DEF OneWorker
<1>2. Init => TypeInv /\ NothingOverlaps
  BY TypeInit DEF TypeInv, Init, RowsAreNamed, NamesRows, Idle, NothingOverlaps
<1>3. TypeInv /\ NothingOverlaps /\ [Next]_sessionVars => TypeInv' /\ NothingOverlaps'
  BY <1>1, TypeStep, NothingOverlapsStep
<1>4. TypeInv /\ NothingOverlaps /\ SurvivorsWereUnderWay /\ ExchangedOncePerWorker
        /\ RevokeInv => NoExceptions
  <2> SUFFICES ASSUME TypeInv, NothingOverlaps, SurvivorsWereUnderWay,
                      ExchangedOncePerWorker, RevokeInv
               PROVE  NoExceptions
    OBVIOUS
  <2>1. ASSUME NEW t \in Refresh, token[t] # None
        PROVE  /\ ~token[t].revoked => token[t].version >= ended
               /\ token[t].children <= 1
    <3>1. token[t] \in Token /\ token[t].race = {} /\ t \in Issued
      BY <2>1 DEF TypeInv, TypeOK, NothingOverlaps, Issued
    <3>2. token[t].version \in Nat /\ ended \in Nat /\ token[t].children \in Nat
      BY <3>1, VersionIsNat DEF Token, TypeInv, TypeOK
    <3>3. Cardinality(Exchanging(t)) \in Nat
      BY WorkerAssumption, FS_Subset, FS_CardinalityType DEF Exchanging
    <3>4. token[t].children + Cardinality(Exchanging(t)) <= 1
      BY <3>1 DEF ExchangedOncePerWorker
    <3>5. ~(IsLive(t) /\ token[t].version < ended)
      BY <3>1 DEF SurvivorsWereUnderWay
    <3>6. QED
      BY <2>1, <3>2, <3>3, <3>4, <3>5 DEF IsLive
  <2>2. ASSUME NEW p \in Pat, pat[p] # None
        PROVE  pat[p].revoked <= 1 /\ pat[p].late = 0
    <3>1. pat[p].revoked \in Nat /\ pat[p].late \in Nat
      BY <2>2 DEF TypeInv, TypeOK, AccessToken
    <3>2. /\ Cardinality(Serving(p, "revoking")) \in Nat
          /\ Cardinality(Serving(p, "using")) \in Nat
      BY WorkerAssumption, FS_Subset, FS_CardinalityType DEF Serving
    <3>3. /\ pat[p].revoked + Cardinality(Serving(p, "revoking")) <= 1
          /\ pat[p].revoked > 0 => pat[p].late + Cardinality(Serving(p, "using")) < 1
      BY <2>2 DEF RevokeInv, RevocationHolds
    <3>4. pat[p].revoked = 0 => pat[p].late = 0
      BY <2>2 DEF RevokeInv, UnrevokedIsOnTime
    <3>5. QED
      BY <3>1, <3>2, <3>3, <3>4
  <2>3. QED
    BY <2>1, <2>2 DEF NoExceptions
<1>5. QED
  BY <1>2, <1>3, <1>4, ChangeEndsSessions, ExchangeIsBounded, RevokeInvAlways,
     PTL DEF Spec
=============================================================================
