--------------------------- MODULE BrowserProofs ----------------------------
(***************************************************************************)
(* The safety properties of Browser for every number of parallel calls and *)
(* of tokens.  The Browser implements Sessions, so that what SessionProofs *)
(* proves of the server holds with the page, too.                          *)
(*                                                                         *)
(* That a session after sign-out is a late one is inductive once the calls *)
(* that may still store one are known to be late.  That storage holds no   *)
(* spent token needs to know where each successor is: with the request     *)
(* that issues it, with the one call that was granted it, in storage, or   *)
(* lost.                                                                   *)
(***************************************************************************)
EXTENDS Browser, SessionProofs

(* What a call needs at its stage is there. *)
WellFormed(r) ==
    /\ r.stage = "signing_in" => r.goal = "login"
    /\ r.stage = "refreshing" => r.token \in Refresh
    /\ r.stage = "granted" => r.answer \in Refresh
    /\ r.stage = "posting" => r.goal = "logout"
    /\ r.goal = "logout" => r.body \in Refresh

(* A call that the page has to go on with has no request at the server. *)
Answered == {"denied", "granted", "settling"}

(* A call that may still store a session after the user signed out. *)
MayStoreLate(r) == r.stage \in {"refreshing", "granted"} /\ r.goal # "login" => r.late

PageInv ==
    /\ TypeInv
    /\ BrowserTypeOK
    /\ \A c \in Worker : WellFormed(call[c])
    /\ \A c \in Worker : call[c].stage \in Answered => IsIdle(c)
    /\ ~page => \A c \in Worker : MayStoreLate(call[c])
    /\ SignedOutMeansNoSession

-----------------------------------------------------------------------------
(* To the server, a page is some clients among others.                     *)
LEMMA BrowserStepIsSessionStep == PageInv /\ [BrowserNext]_browserVars => [Next]_sessionVars
<1> SUFFICES ASSUME PageInv, [BrowserNext]_browserVars, ~ UNCHANGED sessionVars PROVE Next
  OBVIOUS
<1>1. ASSUME NEW c \in Worker, BrowserCall(c) PROVE Serve(c)
  <2>1. CASE StartLogin(c)
    BY <2>1 DEF StartLogin, Serve, SignIn
  <2>2. CASE AnswerLogin(c)
    BY <2>2 DEF AnswerLogin, Serve, SignIn
  <2>3. CASE CheckCall(c)
    <3>1. CheckRefresh(c, call[c].token) /\ call[c].token \in Refresh
      BY <2>3 DEF CheckCall, CallAt, PageInv, WellFormed
    <3>2. QED
      BY <3>1 DEF Serve, RefreshToken
  <2>4. CASE SpendCall(c)
    BY <2>4 DEF SpendCall, Serve, RefreshToken
  <2>5. CASE AnswerCall(c)
    BY <2>5 DEF AnswerCall, Serve, RefreshToken
  <2>6. CASE RefreshFails(c) \/ CallFails(c)
    BY <2>6 DEF RefreshFails, CallFails, Serve
  <2>7. CASE CheckPosted(c)
    <3>1. CheckLogout(c, call[c].body) /\ call[c].body \in Refresh
      BY <2>7 DEF CheckPosted, CallAt, PageInv, WellFormed
    <3>2. QED
      BY <3>1 DEF Serve, SignOut
  <2>8. CASE AnswerLogout(c)
    BY <2>8 DEF AnswerLogout, Serve, SignOut
  <2>9. QED
    BY <1>1, <2>1, <2>2, <2>3, <2>4, <2>5, <2>6, <2>7, <2>8
    DEF BrowserCall, StartCall, StartLogout, ReadStored, StoreAnswer, RefreshRefused,
        SettleLogout, LogoutRefused, LoseAnswer
<1>2. CASE Elsewhere
  BY <1>2 DEF Elsewhere, Next, AccountChange, Serve
<1>3. QED
  BY <1>1, <1>2 DEF BrowserNext, Next, SidebarSignOut, Reload, ExpireAccess, browserVars

-----------------------------------------------------------------------------
LEMMA NoCallIsTyped ==
    /\ NoCall \in Call
    /\ WellFormed(NoCall)
    /\ MayStoreLate(NoCall)
    /\ NoCall.stage \notin Answered
BY DEF NoCall, Call, CallStage, WellFormed, MayStoreLate, Answered

LEMMA SignedOutTyped ==
    ASSUME NEW calls \in [Worker -> Call]
    PROVE  /\ SignedOut(calls) \in [Worker -> Call]
           /\ \A d \in Worker : /\ SignedOut(calls)[d].stage = calls[d].stage
                                /\ SignedOut(calls)[d].goal = calls[d].goal
                                /\ SignedOut(calls)[d].token = calls[d].token
                                /\ SignedOut(calls)[d].answer = calls[d].answer
                                /\ SignedOut(calls)[d].body = calls[d].body
                                /\ MayStoreLate(SignedOut(calls)[d])
<1> SUFFICES ASSUME NEW d \in Worker
             PROVE  /\ SignedOut(calls)[d] \in Call
                    /\ SignedOut(calls)[d].stage = calls[d].stage
                    /\ SignedOut(calls)[d].goal = calls[d].goal
                    /\ SignedOut(calls)[d].token = calls[d].token
                    /\ SignedOut(calls)[d].answer = calls[d].answer
                    /\ SignedOut(calls)[d].body = calls[d].body
                    /\ MayStoreLate(SignedOut(calls)[d])
  BY DEF SignedOut
<1>1. calls[d] \in Call
  OBVIOUS
<1>2. CASE calls[d].stage \in {"refreshing", "granted"}
  <2>1. SignedOut(calls)[d] = [calls[d] EXCEPT !.late = TRUE]
    BY <1>2 DEF SignedOut
  <2>2. QED
    BY <1>1, <2>1 DEF Call, MayStoreLate
<1>3. CASE calls[d].stage \notin {"refreshing", "granted"}
  <2>1. SignedOut(calls)[d] = calls[d]
    BY <1>3 DEF SignedOut
  <2>2. QED
    BY <1>1, <1>3, <2>1 DEF MayStoreLate
<1>4. QED
  BY <1>2, <1>3

(* One call moves on to r, and the user stays as signed in as before, or   *)
(* signs out.                                                              *)
LEMMA PageMoves ==
    ASSUME PageInv, TypeInv', NEW c \in Worker, NEW r \in Call, WellFormed(r),
           \A d \in Worker \ {c} : request'[d] = request[d],
           r.stage \in Answered => IsIdle(c)',
           stored' \in Session \cup {None}, page' \in BOOLEAN, lost' \subseteq Refresh,
           \/ /\ call' = [call EXCEPT ![c] = r]
              /\ ~page' => ~page /\ MayStoreLate(r) /\ (stored' # None => stored'.late)
           \/ /\ call' = SignedOut([call EXCEPT ![c] = r])
              /\ stored' = None
    PROVE  PageInv'
<1> DEFINE calls == [call EXCEPT ![c] = r]
<1>1. call \in [Worker -> Call] /\ calls \in [Worker -> Call]
  BY DEF PageInv, BrowserTypeOK
<1>2. /\ calls[c] = r
      /\ \A d \in Worker \ {c} : calls[d] = call[d]
  BY <1>1
<1>3. \A d \in Worker : /\ WellFormed(calls[d])
                        /\ calls[d].stage \in Answered => IsIdle(d)'
  <2>1. \A d \in Worker : WellFormed(call[d]) /\ (call[d].stage \in Answered => IsIdle(d))
    BY DEF PageInv
  <2>2. \A d \in Worker \ {c} : IsIdle(d) => IsIdle(d)'
    BY DEF IsIdle
  <2>3. QED
    BY <1>2, <2>1, <2>2
<1> HIDE DEF calls
<1>4. CASE call' = calls /\ (~page' => ~page /\ MayStoreLate(r) /\ (stored' # None => stored'.late))
  <2>1. ~page' => \A d \in Worker : MayStoreLate(calls[d])
    BY <1>2, <1>4 DEF PageInv
  <2>2. QED
    BY <1>1, <1>3, <1>4, <2>1 DEF PageInv, BrowserTypeOK, TypeInv, SignedOutMeansNoSession
<1>5. CASE call' = SignedOut(calls) /\ stored' = None
  <2>1. /\ call' \in [Worker -> Call]
        /\ \A d \in Worker : /\ call'[d].stage = calls[d].stage
                             /\ call'[d].goal = calls[d].goal
                             /\ call'[d].token = calls[d].token
                             /\ call'[d].answer = calls[d].answer
                             /\ call'[d].body = calls[d].body
                             /\ MayStoreLate(call'[d])
    BY <1>1, <1>5, SignedOutTyped
  <2>2. \A d \in Worker : /\ WellFormed(call'[d])
                          /\ call'[d].stage \in Answered => IsIdle(d)'
    BY <1>3, <2>1 DEF WellFormed
  <2>3. QED
    BY <1>5, <2>1, <2>2 DEF PageInv, BrowserTypeOK, TypeInv, SignedOutMeansNoSession
<1>6. QED
  BY <1>4, <1>5 DEF calls

LEMMA SettlesMove ==
    ASSUME PageInv, TypeInv', NEW c \in Worker, Settle(c),
           \A d \in Worker \ {c} : request'[d] = request[d], lost' \subseteq Refresh
    PROVE  PageInv'
<1>1. /\ stored' \in Session \cup {None} /\ page' \in BOOLEAN
      /\ \/ /\ call' = [call EXCEPT ![c] = NoCall]
            /\ UNCHANGED <<stored, page>>
         \/ /\ call' = SignedOut([call EXCEPT ![c] = NoCall])
            /\ stored' = None
  BY DEF Settle, HandleSignOut, PageInv, BrowserTypeOK
<1>2. ~page /\ stored # None => stored.late
  BY DEF PageInv, SignedOutMeansNoSession
<1>3. QED
  BY <1>1, <1>2, NoCallIsTyped, PageMoves

LEMMA PageStep == PageInv /\ [BrowserNext]_browserVars => PageInv'
<1> SUFFICES ASSUME PageInv, [BrowserNext]_browserVars PROVE PageInv'
  OBVIOUS
<1> TypeInv /\ TypeInv'
  BY BrowserStepIsSessionStep, TypeStep DEF PageInv
<1>a. /\ call \in [Worker -> Call] /\ stored \in Session \cup {None}
      /\ page \in BOOLEAN /\ lost \subseteq Refresh
      /\ request \in [Worker -> Request]
      /\ ~page /\ stored # None => stored.late
      /\ \A c \in Worker : WellFormed(call[c]) /\ (~page => MayStoreLate(call[c]))
      /\ \A c \in Worker : call[c].stage \in Answered => IsIdle(c)
  BY DEF PageInv, BrowserTypeOK, TypeInv, TypeOK, SignedOutMeansNoSession
<1>b. ASSUME NEW w \in Worker, NEW r, Begin(w, r)
      PROVE  request'[w] = r /\ \A v \in Worker \ {w} : request'[v] = request[v]
  BY <1>b, <1>a DEF Begin
<1>c. ASSUME NEW w \in Worker, End(w)
      PROVE  IsIdle(w)' /\ \A v \in Worker \ {w} : request'[v] = request[v]
  BY <1>c, <1>b DEF End, IsIdle
<1>0. CASE UNCHANGED browserVars
  BY <1>0 DEF browserVars, sessionVars, PageInv, BrowserTypeOK, IsIdle, TypeInv,
     SignedOutMeansNoSession
<1>1. ASSUME NEW c \in Worker, StartLogin(c) PROVE PageInv'
  <2> DEFINE r == [NoCall EXCEPT !.stage = "signing_in", !.goal = "login"]
  <2>1. r \in Call /\ WellFormed(r) /\ MayStoreLate(r) /\ r.stage \notin Answered
    BY DEF NoCall, Call, CallStage, WellFormed, MayStoreLate, Answered
  <2>2. \A d \in Worker \ {c} : request'[d] = request[d]
    BY <1>1, <1>b DEF StartLogin, CheckCredentials
  <2>3. call' = [call EXCEPT ![c] = r] /\ UNCHANGED <<stored, page, lost>>
    BY <1>1 DEF StartLogin
  <2> HIDE DEF r
  <2>4. QED
    BY <2>1, <2>2, <2>3, <1>a, PageMoves
<1>2. ASSUME NEW c \in Worker, AnswerLogin(c) PROVE PageInv'
  <2>1. PICK s \in Refresh :
            /\ IssueFirst(c, s)
            /\ call' = IF CallAt(c, "signing_in")
                       THEN [call EXCEPT ![c] = [call[c] EXCEPT !.stage = "granted", !.answer = s]]
                       ELSE call
            /\ UNCHANGED <<stored, page, lost>>
    <3>1. PICK s \in Refresh :
            /\ IssueFirst(c, s)
            /\ call' = IF CallAt(c, "signing_in")
                       THEN [call EXCEPT ![c].stage = "granted", ![c].answer = s]
                       ELSE call
            /\ UNCHANGED <<stored, page, lost>>
      BY <1>2 DEF AnswerLogin
    <3>2. [call EXCEPT ![c].stage = "granted", ![c].answer = s]
            = [call EXCEPT ![c] = [call[c] EXCEPT !.stage = "granted", !.answer = s]]
      BY <1>a DEF Call
    <3>3. QED
      BY <3>1, <3>2
  <2>2. IsIdle(c)' /\ \A d \in Worker \ {c} : request'[d] = request[d]
    BY <2>1, <1>c DEF IssueFirst
  <2> DEFINE r == IF CallAt(c, "signing_in")
                  THEN [call[c] EXCEPT !.stage = "granted", !.answer = s] ELSE call[c]
  <2>3. r \in Call /\ WellFormed(r) /\ (~page => MayStoreLate(r))
    BY <1>a DEF CallAt, Call, CallStage, WellFormed, MayStoreLate
  <2>4. call' = [call EXCEPT ![c] = r]
    BY <2>1, <1>a
  <2> HIDE DEF r
  <2>5. QED
    BY <2>1, <2>2, <2>3, <2>4, <1>a, PageMoves
<1>3. ASSUME NEW c \in Worker, StartCall(c) PROVE PageInv'
  <2> DEFINE r == [NoCall EXCEPT !.stage = "denied"]
  <2>1. r \in Call /\ WellFormed(r) /\ MayStoreLate(r)
    BY DEF NoCall, Call, CallStage, WellFormed, MayStoreLate
  <2>2. call' = [call EXCEPT ![c] = r] /\ UNCHANGED <<request, stored, page, lost>> /\ IsIdle(c)
    BY <1>3 DEF StartCall, IsFree, sessionVars
  <2> HIDE DEF r
  <2>3. QED
    BY <2>1, <2>2, <1>a, PageMoves DEF IsIdle
<1>4. ASSUME NEW c \in Worker, StartLogout(c) PROVE PageInv'
  <2> DEFINE r == [NoCall EXCEPT !.stage = IF stored.fresh THEN "posting" ELSE "denied",
                                 !.goal = "logout", !.body = stored.refresh]
  <2>1. stored.refresh \in Refresh
    BY <1>4, <1>a DEF StartLogout, Session
  <2>2. r \in Call /\ WellFormed(r) /\ MayStoreLate(r)
    BY <2>1 DEF NoCall, Call, CallStage, WellFormed, MayStoreLate
  <2>3. call' = [call EXCEPT ![c] = r] /\ UNCHANGED <<request, stored, page, lost>> /\ IsIdle(c)
    BY <1>4 DEF StartLogout, IsFree, sessionVars
  <2> HIDE DEF r
  <2>4. QED
    BY <2>2, <2>3, <1>a, PageMoves DEF IsIdle
<1>5. ASSUME NEW c \in Worker, ReadStored(c) PROVE PageInv'
  <2>1. UNCHANGED <<request, lost>>
    BY <1>5 DEF ReadStored, sessionVars
  <2>2. CASE stored = None
    BY <1>5, <2>1, <2>2, <1>a, SettlesMove DEF ReadStored
  <2>3. CASE stored # None
    <3> DEFINE r == [call[c] EXCEPT !.stage = "refreshing", !.token = stored.refresh,
                                    !.late = stored.late]
    <3>1. stored.refresh \in Refresh /\ stored.late \in BOOLEAN /\ call[c] \in Call
      BY <2>3, <1>a DEF Session
    <3>2. r \in Call /\ r.stage = "refreshing" /\ r.token = stored.refresh
          /\ r.late = stored.late /\ r.goal = call[c].goal /\ r.body = call[c].body
      BY <3>1 DEF Call, CallStage
    <3>3. call' = [call EXCEPT ![c] = r] /\ UNCHANGED <<stored, page>>
      BY <1>5, <2>3, <1>a DEF ReadStored
    <3> HIDE DEF r
    <3>4. WellFormed(r) /\ (~page => MayStoreLate(r)) /\ r.stage \notin Answered
      BY <3>1, <3>2, <2>3, <1>a DEF WellFormed, MayStoreLate, Answered
    <3>5. QED
      BY <2>1, <3>2, <3>3, <3>4, <1>a, PageMoves
  <2>4. QED
    BY <2>2, <2>3
<1>6. ASSUME NEW c \in Worker, CheckCall(c) \/ SpendCall(c) \/ CheckPosted(c) PROVE PageInv'
  <2>1. PICK r : Begin(c, r) /\ UNCHANGED <<call, stored, page, lost>>
    BY <1>6 DEF CheckCall, CheckRefresh, SpendCall, Spend, CheckPosted, CheckLogout
  <2>2. call[c].stage \notin Answered
    BY <1>6, <1>a DEF CheckCall, SpendCall, Spend, At, CheckPosted, CallAt, Answered,
       IsIdle, Idle
  <2>3. \A d \in Worker \ {c} : IsIdle(d) => IsIdle(d)'
    BY <2>1, <1>b DEF IsIdle
  <2>4. QED
    BY <2>1, <2>2, <2>3 DEF PageInv, BrowserTypeOK, TypeInv, SignedOutMeansNoSession
<1>7. ASSUME NEW c \in Worker, AnswerCall(c) PROVE PageInv'
  <2>1. PICK s \in Refresh :
            /\ IssueNext(c, s)
            /\ call' = IF CallAt(c, "refreshing")
                       THEN [call EXCEPT ![c] = [call[c] EXCEPT !.stage = "granted", !.answer = s]]
                       ELSE call
            /\ UNCHANGED <<stored, page, lost>>
    <3>1. PICK s \in Refresh :
            /\ IssueNext(c, s)
            /\ call' = IF CallAt(c, "refreshing")
                       THEN [call EXCEPT ![c].stage = "granted", ![c].answer = s]
                       ELSE call
            /\ UNCHANGED <<stored, page, lost>>
      BY <1>7 DEF AnswerCall
    <3>2. [call EXCEPT ![c].stage = "granted", ![c].answer = s]
            = [call EXCEPT ![c] = [call[c] EXCEPT !.stage = "granted", !.answer = s]]
      BY <1>a DEF Call
    <3>3. QED
      BY <3>1, <3>2
  <2>2. IsIdle(c)' /\ \A d \in Worker \ {c} : request'[d] = request[d]
    BY <2>1, <1>c DEF IssueNext
  <2> DEFINE r == IF CallAt(c, "refreshing")
                  THEN [call[c] EXCEPT !.stage = "granted", !.answer = s] ELSE call[c]
  <2>3. r \in Call /\ WellFormed(r) /\ (~page => MayStoreLate(r))
    BY <1>a DEF CallAt, Call, CallStage, WellFormed, MayStoreLate
  <2>4. call' = [call EXCEPT ![c] = r]
    BY <2>1, <1>a
  <2> HIDE DEF r
  <2>5. QED
    BY <2>1, <2>2, <2>3, <2>4, <1>a, PageMoves
<1>8. ASSUME NEW c \in Worker, StoreAnswer(c) PROVE PageInv'
  <2> DEFINE r == IF call[c].goal = "logout"
                  THEN [NoCall EXCEPT !.stage = "posting", !.goal = "logout",
                                      !.body = call[c].body, !.retried = TRUE]
                  ELSE NoCall
  <2>1. /\ call[c] \in Call /\ call[c].stage = "granted"
        /\ call[c].answer \in Refresh /\ (call[c].goal = "logout" => call[c].body \in Refresh)
        /\ ~page /\ call[c].goal # "login" => call[c].late
    BY <1>8, <1>a DEF StoreAnswer, CallAt, WellFormed, MayStoreLate
  <2>2. r \in Call /\ WellFormed(r) /\ MayStoreLate(r) /\ r.stage \notin Answered
    BY <2>1 DEF NoCall, Call, CallStage, WellFormed, MayStoreLate, Answered
  <2>3. /\ stored' \in Session /\ stored'.late = call[c].late
        /\ page' \in BOOLEAN
        /\ ~page' => ~page /\ call[c].goal # "login"
    BY <1>8, <2>1, <1>a DEF StoreAnswer, NextSession, Session, Call
  <2>4. call' = [call EXCEPT ![c] = r] /\ UNCHANGED <<request, lost>>
    BY <1>8 DEF StoreAnswer, sessionVars
  <2> HIDE DEF r
  <2>5. QED
    BY <2>1, <2>2, <2>3, <2>4, <1>a, PageMoves
<1>9. ASSUME NEW c \in Worker, RefreshRefused(c) \/ RefreshFails(c) PROVE PageInv'
  <2>1. ClearStored(c) /\ lost' = lost
    BY <1>9 DEF RefreshRefused, RefreshFails
  <2>2. \A d \in Worker \ {c} : request'[d] = request[d]
    BY <1>9, <1>c DEF RefreshRefused, RefreshFails, Abandon, sessionVars
  <2>3. /\ stored' = None /\ page' \in BOOLEAN
        /\ \/ call' = [call EXCEPT ![c] = NoCall] /\ page' = page
           \/ call' = SignedOut([call EXCEPT ![c] = NoCall])
    BY <2>1, <1>a DEF ClearStored
  <2>4. QED
    BY <2>1, <2>2, <2>3, <1>a, NoCallIsTyped, PageMoves
<1>10. ASSUME NEW c \in Worker, AnswerLogout(c) PROVE PageInv'
  <2>1. IsIdle(c)' /\ \A d \in Worker \ {c} : request'[d] = request[d]
    BY <1>10, <1>c DEF AnswerLogout, Logout
  <2> DEFINE r == IF CallAt(c, "posting") THEN [call[c] EXCEPT !.stage = "settling"] ELSE call[c]
  <2>2. r \in Call /\ WellFormed(r) /\ (~page => MayStoreLate(r))
    BY <1>a DEF CallAt, Call, CallStage, WellFormed, MayStoreLate
  <2>3. call' = [call EXCEPT ![c] = r] /\ UNCHANGED <<stored, page, lost>>
    BY <1>10, <1>a DEF AnswerLogout, Step
  <2> HIDE DEF r
  <2>4. QED
    BY <2>1, <2>2, <2>3, <1>a, PageMoves
<1>11. ASSUME NEW c \in Worker, SettleLogout(c) PROVE PageInv'
  BY <1>11, <1>a, SettlesMove DEF SettleLogout, sessionVars
<1>12. ASSUME NEW c \in Worker, LogoutRefused(c) PROVE PageInv'
  <2>1. UNCHANGED <<request, lost>>
    BY <1>12 DEF LogoutRefused, sessionVars
  <2>2. CASE call[c].retried
    BY <1>12, <2>1, <2>2, <1>a, SettlesMove DEF LogoutRefused
  <2>3. CASE ~call[c].retried
    <3> DEFINE r == [call[c] EXCEPT !.stage = "denied"]
    <3>1. r \in Call /\ WellFormed(r) /\ MayStoreLate(r)
      BY <1>a DEF Call, CallStage, WellFormed, MayStoreLate
    <3>2. call' = [call EXCEPT ![c] = r] /\ UNCHANGED <<stored, page>> /\ IsIdle(c)
      BY <1>12, <2>3, <1>a DEF LogoutRefused, Step
    <3> HIDE DEF r
    <3>3. QED
      BY <2>1, <3>1, <3>2, <1>a, PageMoves DEF IsIdle
  <2>4. QED
    BY <2>2, <2>3
<1>13. ASSUME NEW c \in Worker, LoseAnswer(c) PROVE PageInv'
  <2>1. lost' \subseteq Refresh
    BY <1>13, <1>a DEF LoseAnswer, Unanswered, Call
  <2>2. QED
    BY <1>13, <2>1, SettlesMove DEF LoseAnswer, sessionVars
<1>14. ASSUME NEW c \in Worker, CallFails(c) PROVE PageInv'
  BY <1>14, <1>a, <1>c, SettlesMove DEF CallFails, Abandon
<1>15. CASE SidebarSignOut
  <2>1. /\ page' = FALSE /\ stored' = None /\ call' = SignedOut(call)
        /\ UNCHANGED <<request, lost>>
    BY <1>15 DEF SidebarSignOut, HandleSignOut, sessionVars
  <2>2. /\ call' \in [Worker -> Call]
        /\ \A d \in Worker : /\ call'[d].stage = call[d].stage
                             /\ call'[d].goal = call[d].goal
                             /\ call'[d].token = call[d].token
                             /\ call'[d].answer = call[d].answer
                             /\ call'[d].body = call[d].body
                             /\ MayStoreLate(call'[d])
    BY <2>1, <1>a, SignedOutTyped
  <2>3. \A d \in Worker : WellFormed(call'[d]) /\ (call'[d].stage \in Answered => IsIdle(d)')
    BY <2>1, <2>2, <1>a DEF WellFormed, IsIdle
  <2>4. QED
    BY <2>1, <2>2, <2>3, <1>a DEF PageInv, BrowserTypeOK, TypeInv, SignedOutMeansNoSession
<1>16. CASE Reload
  <2>1. /\ page' = (stored # None) /\ stored' = stored
        /\ call' = [c \in Worker |-> NoCall]
        /\ lost' = lost \cup UNION {Unanswered(c) : c \in Worker}
    BY <1>16 DEF Reload
  <2>2. \A c \in Worker : Unanswered(c) \subseteq Refresh
    BY <1>a DEF Unanswered, Call
  <2>3. lost' \subseteq Refresh
    BY <2>1, <2>2, <1>a
  <2>4. QED
    BY <2>1, <2>3, <1>a, NoCallIsTyped DEF PageInv, BrowserTypeOK, TypeInv, SignedOutMeansNoSession
<1>17. CASE ExpireAccess
  <2>1. stored # None /\ stored \in Session /\ stored' = [stored EXCEPT !.fresh = FALSE]
    BY <1>17, <1>a DEF ExpireAccess
  <2>2. stored' \in Session /\ stored'.late = stored.late
    BY <2>1 DEF Session
  <2>3. QED
    BY <1>17, <2>1, <2>2, <1>a DEF ExpireAccess, sessionVars, PageInv, BrowserTypeOK, TypeInv, IsIdle,
       SignedOutMeansNoSession
<1>18. CASE Elsewhere
  <2>1. UNCHANGED <<stored, page, call, lost>>
    BY <1>18 DEF Elsewhere
  <2>2. \A c \in Worker : call[c].stage \in Answered => IsIdle(c)'
    <3>1. CASE request' = request
      BY <3>1, <1>a DEF IsIdle
    <3>2. ASSUME NEW c \in Worker, CallAt(c, "none"), Register(c)
          PROVE  \A d \in Worker : call[d].stage \in Answered => IsIdle(d)'
      <4>1. \A d \in Worker \ {c} : request'[d] = request[d]
        BY <3>2, <1>b, <1>c DEF Register, CheckAddress, CreateUser
      <4>2. QED
        BY <3>2, <4>1, <1>a DEF CallAt, Answered, IsIdle
    <3>3. QED
      BY <1>18, <3>1, <3>2 DEF Elsewhere, SetActive
  <2>3. QED
    BY <2>1, <2>2, <1>a DEF PageInv, BrowserTypeOK, TypeInv, SignedOutMeansNoSession
<1>19. QED
  BY <1>0, <1>1, <1>2, <1>3, <1>4, <1>5, <1>6, <1>7, <1>8, <1>9, <1>10, <1>11, <1>12,
     <1>13, <1>14, <1>15, <1>16, <1>17, <1>18
  DEF BrowserNext, BrowserCall

LEMMA PageInit == BrowserInit => PageInv
<1> SUFFICES ASSUME BrowserInit PROVE PageInv
  OBVIOUS
<1>1. TypeInv
  BY TypeInit DEF BrowserInit, TypeInv, Init, RowsAreNamed, NamesRows, Idle
<1>2. QED
  BY <1>1, NoCallIsTyped DEF BrowserInit, PageInv, BrowserTypeOK, TypeInv, SignedOutMeansNoSession

LEMMA PageAlways == BrowserSpec => []PageInv
BY PageInit, PageStep, PTL DEF BrowserSpec

(* The page, its calls and its storage keep their types, whatever is lost. *)
THEOREM BrowserTypeCorrect == BrowserSpec => []BrowserTypeOK
<1>1. PageInv => BrowserTypeOK
  BY DEF PageInv
<1>2. QED
  BY <1>1, PageAlways, PTL

(* With the page as its client, the server does what it does with any.     *)
THEOREM BrowserImplementsSessions == BrowserSpec => Spec
<1>1. BrowserInit => Init
  BY DEF BrowserInit
<1>2. QED
  BY <1>1, PageAlways, BrowserStepIsSessionStep, PTL DEF BrowserSpec, Spec

(* After a sign-out, only a refresh that was under way brings a session    *)
(* back.                                                                   *)
THEOREM SignOutEndsTheSession == BrowserSpec => []SignedOutMeansNoSession
<1>1. PageInv => SignedOutMeansNoSession
  BY DEF PageInv
<1>2. QED
  BY <1>1, PageAlways, PTL

-----------------------------------------------------------------------------
IsExchanging(c) == request[c].stage \in {"refreshing", "spent"}

IsGranted(c) == call[c].stage = "granted"

(* The server exchanges what a call waits for, or what is lost. *)
ExchangesAreAwaited ==
    \A c \in Worker : IsExchanging(c) =>
        \/ call[c].stage = "refreshing" /\ call[c].token = request[c].token
        \/ request[c].token \in lost

(* Of a spent token in storage, the successor is lost or about to follow.  *)
SpentIsFollowed ==
    stored # None /\ token[stored.refresh].children > 0 =>
        \/ stored.refresh \in lost
        \/ \E c \in Worker : IsGranted(c) /\ call[c].token = stored.refresh

(* A successor that a call was granted is unspent and nowhere else. *)
GrantIsExclusive ==
    \A c \in Worker : IsGranted(c) =>
        /\ token[call[c].answer] # None
        /\ token[call[c].answer].children = 0
        /\ stored # None => stored.refresh # call[c].answer
        /\ \A d \in Worker : /\ call[d].token # call[c].answer
                             /\ IsExchanging(d) => request[d].token # call[c].answer
                             /\ d # c /\ IsGranted(d) => call[d].answer # call[c].answer

(* Storage and calls hold tokens that were issued. *)
HeldIsIssued ==
    /\ stored # None => token[stored.refresh] # None
    /\ \A c \in Worker : call[c].token # None => token[call[c].token] # None

UnspentInv ==
    /\ PageInv
    /\ ExchangesAreAwaited
    /\ SpentIsFollowed
    /\ GrantIsExclusive
    /\ HeldIsIssued

(* What the proofs of the steps need of the types. *)
LEMMA UnspentTyped ==
    ASSUME PageInv
    PROVE  /\ stored # None => stored \in Session /\ stored.refresh \in Refresh
           /\ \A c \in Worker :
                 /\ call[c] \in Call
                 /\ call[c].token \in Refresh \cup {None}
                 /\ IsGranted(c) => call[c].answer \in Refresh
                 /\ IsExchanging(c) => /\ request[c].token \in Refresh
                                       /\ token[request[c].token] # None
           /\ \A t \in Refresh : token[t] # None => token[t].children \in Nat
           /\ None \notin Refresh
BY NoneAssumption
DEF PageInv, BrowserTypeOK, Session, Call, WellFormed, IsGranted, IsExchanging, TypeInv,
    TypeOK, RowsAreNamed, NamesRows, Issued, Token

(* Most steps exchange and store nothing. *)
LEMMA UnspentKept ==
    ASSUME UnspentInv, PageInv',
           \A t \in Refresh : token[t] # None =>
               token'[t] # None /\ token'[t].children = token[t].children,
           lost \subseteq lost',
           \/ stored' = None
           \/ stored # None /\ stored' # None /\ stored'.refresh = stored.refresh,
           \A c \in Worker : IsExchanging(c)' =>
               IsExchanging(c) /\ request'[c].token = request[c].token,
           \A c \in Worker :
               \/ /\ call'[c].stage = call[c].stage
                  /\ call'[c].token = call[c].token
                  /\ call'[c].answer = call[c].answer
               \/ /\ call'[c].stage \notin {"granted", "refreshing"}
                  /\ call'[c].token \in {None, call[c].token}
                  /\ IsGranted(c) /\ call[c].token # None => call[c].token \in lost'
                  /\ call[c].stage = "refreshing" => \/ call[c].token \in lost'
                                                     \/ ~IsExchanging(c)'
    PROVE  UnspentInv'
<1> USE UnspentTyped
<1>t. PageInv
  BY DEF UnspentInv
<1>1. ExchangesAreAwaited'
  <2> SUFFICES ASSUME NEW c \in Worker, IsExchanging(c)'
               PROVE  \/ call'[c].stage = "refreshing" /\ call'[c].token = request'[c].token
                      \/ request'[c].token \in lost'
    BY DEF ExchangesAreAwaited
  <2>1. \/ call[c].stage = "refreshing" /\ call[c].token = request[c].token
        \/ request[c].token \in lost
    BY DEF UnspentInv, ExchangesAreAwaited
  <2>2. QED
    BY <2>1
<1>2. \A c \in Worker : IsGranted(c)' => IsGranted(c) /\ call'[c].answer = call[c].answer
                                                      /\ call'[c].token = call[c].token
  BY DEF IsGranted
<1>3. SpentIsFollowed'
  <2> SUFFICES ASSUME stored' # None, token'[stored'.refresh].children > 0,
                      stored'.refresh \notin lost'
               PROVE  \E c \in Worker : IsGranted(c)' /\ call'[c].token = stored'.refresh
    BY DEF SpentIsFollowed
  <2>1. stored # None /\ stored'.refresh = stored.refresh /\ stored.refresh \in Refresh
    BY <1>t
  <2>2. token[stored.refresh].children > 0
    BY <2>1 DEF UnspentInv, HeldIsIssued
  <2>3. PICK c \in Worker : IsGranted(c) /\ call[c].token = stored.refresh
    BY <2>1, <2>2 DEF UnspentInv, SpentIsFollowed
  <2>4. call[c].token # None /\ call[c].token \notin lost'
    BY <2>1, <2>3, <1>t
  <2>5. IsGranted(c)' /\ call'[c].token = call[c].token
    BY <2>3, <2>4 DEF IsGranted
  <2>6. QED
    BY <2>1, <2>3, <2>5
<1>4. GrantIsExclusive'
  <2> SUFFICES ASSUME NEW c \in Worker, IsGranted(c)'
               PROVE  /\ token'[call'[c].answer] # None
                      /\ token'[call'[c].answer].children = 0
                      /\ stored' # None => stored'.refresh # call'[c].answer
                      /\ \A d \in Worker : /\ call'[d].token # call'[c].answer
                                           /\ IsExchanging(d)' => request'[d].token # call'[c].answer
                                           /\ d # c /\ IsGranted(d)' => call'[d].answer # call'[c].answer
    BY DEF GrantIsExclusive
  <2>1. IsGranted(c) /\ call'[c].answer = call[c].answer
    BY <1>2
  <2>2. call[c].answer \in Refresh /\ call[c].answer # None
    BY <2>1, <1>t
  <2>3. /\ token[call[c].answer] # None
        /\ token[call[c].answer].children = 0
        /\ stored # None => stored.refresh # call[c].answer
        /\ \A d \in Worker : /\ call[d].token # call[c].answer
                             /\ IsExchanging(d) => request[d].token # call[c].answer
                             /\ d # c /\ IsGranted(d) => call[d].answer # call[c].answer
    BY <2>1 DEF UnspentInv, GrantIsExclusive
  <2>4. token'[call'[c].answer] # None /\ token'[call'[c].answer].children = 0
    BY <2>1, <2>2, <2>3
  <2>5. stored' # None => stored'.refresh # call'[c].answer
    BY <2>1, <2>3
  <2>6. ASSUME NEW d \in Worker
        PROVE  /\ call'[d].token # call'[c].answer
               /\ IsExchanging(d)' => request'[d].token # call'[c].answer
               /\ d # c /\ IsGranted(d)' => call'[d].answer # call'[c].answer
    BY <1>2, <2>1, <2>2, <2>3
  <2>7. QED
    BY <2>4, <2>5, <2>6
<1>5. HeldIsIssued'
  <2>1. stored' # None => token'[stored'.refresh] # None
    BY <1>t DEF UnspentInv, HeldIsIssued
  <2>2. ASSUME NEW c \in Worker, call'[c].token # None PROVE token'[call'[c].token] # None
    <3>1. call'[c].token = call[c].token /\ call[c].token \in Refresh
      BY <2>2, <1>t
    <3>2. QED
      BY <2>2, <3>1 DEF UnspentInv, HeldIsIssued
  <2>3. QED
    BY <2>1, <2>2 DEF HeldIsIssued
<1>6. QED
  BY <1>1, <1>3, <1>4, <1>5 DEF UnspentInv

(* The server issues s, and a call that waits for it is granted s. *)
LEMMA UnspentAnswered ==
    ASSUME UnspentInv, PageInv', NEW c \in Worker, NEW s \in Refresh,
           token[s] = None, token'[s] # None, token'[s].children = 0,
           \A t \in Refresh : token[t] # None => token'[t] # None,
           \A t \in Refresh : token[t] # None =>
               \/ token'[t].children = token[t].children
               \/ IsExchanging(c) /\ t = request[c].token,
           ~ IsExchanging(c)',
           \A d \in Worker \ {c} : request'[d] = request[d] /\ call'[d] = call[d],
           UNCHANGED <<stored, lost>>,
           \/ call'[c] = call[c] /\ ~(IsExchanging(c) /\ call[c].stage = "refreshing")
           \/ /\ ~ IsGranted(c)
              /\ call'[c].stage = "granted"
              /\ call'[c].token = call[c].token
              /\ call'[c].answer = s
    PROVE  UnspentInv'
<1> USE UnspentTyped
<1>t. PageInv
  BY DEF UnspentInv
<1>1. ExchangesAreAwaited'
  <2> SUFFICES ASSUME NEW d \in Worker, IsExchanging(d)'
               PROVE  \/ call'[d].stage = "refreshing" /\ call'[d].token = request'[d].token
                      \/ request'[d].token \in lost'
    BY DEF ExchangesAreAwaited
  <2>1. d # c
    OBVIOUS
  <2>2. IsExchanging(d) /\ request'[d] = request[d] /\ call'[d] = call[d]
    BY <2>1 DEF IsExchanging
  <2>3. QED
    BY <2>2 DEF UnspentInv, ExchangesAreAwaited
<1>2. \A d \in Worker : call'[d].token = call[d].token /\ (IsGranted(d) => IsGranted(d)')
  BY DEF IsGranted
<1>3. SpentIsFollowed'
  <2> SUFFICES ASSUME stored # None, token'[stored.refresh].children > 0,
                      stored.refresh \notin lost
               PROVE  \E d \in Worker : IsGranted(d)' /\ call'[d].token = stored.refresh
    BY DEF SpentIsFollowed
  <2>1. stored.refresh \in Refresh /\ token[stored.refresh] # None
    BY <1>t DEF UnspentInv, HeldIsIssued
  <2>2. CASE token'[stored.refresh].children = token[stored.refresh].children
    <3>1. PICK d \in Worker : IsGranted(d) /\ call[d].token = stored.refresh
      BY <2>2 DEF UnspentInv, SpentIsFollowed
    <3>2. QED
      BY <3>1, <1>2
  <2>3. CASE IsExchanging(c) /\ stored.refresh = request[c].token
    <3>1. call[c].stage = "refreshing" /\ call[c].token = stored.refresh
      BY <2>3 DEF UnspentInv, ExchangesAreAwaited
    <3>2. IsGranted(c)' /\ call'[c].token = stored.refresh
      BY <2>3, <3>1 DEF IsGranted
    <3>3. QED
      BY <3>2
  <2>4. QED
    BY <2>1, <2>2, <2>3
<1>4. GrantIsExclusive'
  <2> SUFFICES ASSUME NEW d \in Worker, IsGranted(d)'
               PROVE  /\ token'[call'[d].answer] # None
                      /\ token'[call'[d].answer].children = 0
                      /\ stored # None => stored.refresh # call'[d].answer
                      /\ \A e \in Worker : /\ call'[e].token # call'[d].answer
                                           /\ IsExchanging(e)' => request'[e].token # call'[d].answer
                                           /\ e # d /\ IsGranted(e)' => call'[e].answer # call'[d].answer
    BY DEF GrantIsExclusive
  <2>0. \A e \in Worker : IsExchanging(e)' =>
            e # c /\ IsExchanging(e) /\ request'[e].token = request[e].token
    BY DEF IsExchanging
  <2>1. \A e \in Worker : IsGranted(e)' =>
            \/ IsGranted(e) /\ call'[e].answer = call[e].answer
            \/ e = c /\ call'[e].answer = s
    BY DEF IsGranted
  <2>2. \A e \in Worker : IsGranted(e) =>
            /\ call[e].answer \in Refresh /\ token[call[e].answer] # None
            /\ call[e].answer # s
    BY <1>t DEF UnspentInv, GrantIsExclusive
  <2>3. CASE IsGranted(d) /\ call'[d].answer = call[d].answer
    <3>1. /\ call[d].answer \in Refresh
          /\ token[call[d].answer] # None
          /\ token[call[d].answer].children = 0
          /\ stored # None => stored.refresh # call[d].answer
          /\ \A e \in Worker : /\ call[e].token # call[d].answer
                               /\ IsExchanging(e) => request[e].token # call[d].answer
                               /\ e # d /\ IsGranted(e) => call[e].answer # call[d].answer
      BY <1>t, <2>3 DEF UnspentInv, GrantIsExclusive
    <3>2. token'[call[d].answer] # None /\ token'[call[d].answer].children = 0
      BY <3>1
    <3>3. \A e \in Worker : e # d /\ IsGranted(e)' => call'[e].answer # call[d].answer
      BY <2>1, <2>2, <2>3, <3>1
    <3>4. QED
      BY <1>2, <2>0, <2>3, <3>1, <3>2, <3>3
  <2>4. CASE d = c /\ call'[d].answer = s
    <3>1. stored # None => stored.refresh # s
      BY DEF UnspentInv, HeldIsIssued
    <3>2. \A e \in Worker : call[e].token # s
      BY <1>t DEF UnspentInv, HeldIsIssued
    <3>3. \A e \in Worker : IsExchanging(e) => request[e].token # s
      BY <1>t
    <3>4. \A e \in Worker : e # d /\ IsGranted(e)' => call'[e].answer # s
      BY <2>1, <2>2, <2>4
    <3>5. QED
      BY <1>2, <2>0, <2>4, <3>1, <3>2, <3>3, <3>4
  <2>5. QED
    BY <2>1, <2>3, <2>4
<1>5. HeldIsIssued'
  <2>1. stored # None => token'[stored.refresh] # None
    BY <1>t DEF UnspentInv, HeldIsIssued
  <2>2. ASSUME NEW d \in Worker, call'[d].token # None PROVE token'[call'[d].token] # None
    <3>1. call'[d].token = call[d].token /\ call[d].token \in Refresh
      BY <2>2, <1>2, <1>t
    <3>2. QED
      BY <2>2, <3>1 DEF UnspentInv, HeldIsIssued
  <2>3. QED
    BY <2>1, <2>2 DEF HeldIsIssued
<1>6. QED
  BY <1>1, <1>3, <1>4, <1>5 DEF UnspentInv

(* A granted call puts its answer into storage. *)
LEMMA UnspentStored ==
    ASSUME UnspentInv, PageInv', NEW c \in Worker, StoreAnswer(c)
    PROVE  UnspentInv'
<1> USE UnspentTyped
<1>t. PageInv
  BY DEF UnspentInv
<1> DEFINE s == call[c].answer
<1>1. /\ IsGranted(c) /\ s \in Refresh /\ s # None
      /\ stored' # None /\ stored'.refresh = s
      /\ UNCHANGED <<token, request, lost>>
  <2>1. IsGranted(c)
    BY DEF StoreAnswer, CallAt, IsGranted
  <2>2. stored' = NextSession(c) /\ UNCHANGED <<token, request, lost>>
    BY DEF StoreAnswer, sessionVars
  <2>3. stored' # None
    <3>1. call[c].answer \in Refresh /\ call[c].late \in BOOLEAN
      BY <2>1, <1>t DEF Call
    <3>2. NextSession(c) \in Session
      BY <3>1 DEF NextSession, Session
    <3>3. QED
      BY <2>2, <3>2, NoSessionAssumption
  <2>4. QED
    BY <2>1, <2>2, <2>3, <1>t DEF NextSession
<1>2. /\ call'[c].stage \notin {"granted", "refreshing"} /\ call'[c].token = None
      /\ \A d \in Worker \ {c} : call'[d] = call[d]
  BY DEF StoreAnswer, NoCall, PageInv, BrowserTypeOK
<1>3. /\ token[s] # None
      /\ token[s].children = 0
      /\ \A d \in Worker : d # c /\ IsGranted(d) => call[d].answer # s
  BY <1>1 DEF UnspentInv, GrantIsExclusive
<1>4. ExchangesAreAwaited'
  <2> SUFFICES ASSUME NEW d \in Worker, IsExchanging(d)
               PROVE  \/ call'[d].stage = "refreshing" /\ call'[d].token = request[d].token
                      \/ request[d].token \in lost
    BY <1>1 DEF ExchangesAreAwaited, IsExchanging
  <2>1. \/ call[d].stage = "refreshing" /\ call[d].token = request[d].token
        \/ request[d].token \in lost
    BY DEF UnspentInv, ExchangesAreAwaited
  <2>2. QED
    BY <1>1, <1>2, <2>1 DEF IsGranted
<1>5. SpentIsFollowed'
  BY <1>1, <1>3 DEF SpentIsFollowed
<1>6. GrantIsExclusive'
  <2> SUFFICES ASSUME NEW d \in Worker, IsGranted(d)'
               PROVE  /\ token[call'[d].answer] # None
                      /\ token[call'[d].answer].children = 0
                      /\ s # call'[d].answer
                      /\ \A e \in Worker : /\ call'[e].token # call'[d].answer
                                           /\ IsExchanging(e) => request[e].token # call'[d].answer
                                           /\ e # d /\ IsGranted(e)' => call'[e].answer # call'[d].answer
    BY <1>1 DEF GrantIsExclusive, IsExchanging
  <2>1. \A e \in Worker : IsGranted(e)' => e # c /\ IsGranted(e) /\ call'[e] = call[e]
    BY <1>2 DEF IsGranted
  <2>2. d # c /\ IsGranted(d) /\ call'[d] = call[d]
    BY <2>1
  <2>3. /\ call[d].answer \in Refresh /\ call[d].answer # None
        /\ token[call[d].answer] # None
        /\ token[call[d].answer].children = 0
        /\ \A e \in Worker : /\ call[e].token # call[d].answer
                             /\ IsExchanging(e) => request[e].token # call[d].answer
                             /\ e # d /\ IsGranted(e) => call[e].answer # call[d].answer
    BY <1>t, <2>2 DEF UnspentInv, GrantIsExclusive
  <2>4. \A e \in Worker : call'[e].token # call[d].answer
    BY <1>2, <2>3
  <2>5. QED
    BY <1>3, <2>1, <2>2, <2>3, <2>4
<1>7. HeldIsIssued'
  <2>1. token'[stored'.refresh] # None
    BY <1>1, <1>3
  <2>2. \A d \in Worker : call'[d].token # None => token'[call'[d].token] # None
    BY <1>1, <1>2 DEF UnspentInv, HeldIsIssued
  <2>3. QED
    BY <2>1, <2>2 DEF HeldIsIssued
<1>8. QED
  BY <1>4, <1>5, <1>6, <1>7 DEF UnspentInv

(* A call ends: one that waits for an exchange, or was granted one, only   *)
(* with its token lost or its request over.                                *)
LEMMA UnspentSettled ==
    ASSUME UnspentInv, PageInv', NEW c \in Worker,
           \A t \in Refresh : token[t] # None =>
               token'[t] # None /\ token'[t].children = token[t].children,
           lost \subseteq lost',
           stored' = None \/ stored' = stored,
           \A d \in Worker : IsExchanging(d)' =>
               IsExchanging(d) /\ request'[d].token = request[d].token,
           \/ call' = [call EXCEPT ![c] = NoCall]
           \/ call' = SignedOut([call EXCEPT ![c] = NoCall]),
           IsGranted(c) /\ call[c].token # None => call[c].token \in lost',
           call[c].stage = "refreshing" =>
               call[c].token \in lost' \/ ~ IsExchanging(c)'
    PROVE  UnspentInv'
<1> DEFINE calls == [call EXCEPT ![c] = NoCall]
<1>1. call \in [Worker -> Call] /\ calls \in [Worker -> Call]
  BY NoCallIsTyped DEF UnspentInv, PageInv, BrowserTypeOK
<1>2. calls[c] = NoCall /\ \A d \in Worker \ {c} : calls[d] = call[d]
  BY <1>1
<1> HIDE DEF calls
<1>3. \A d \in Worker : /\ call'[d].stage = calls[d].stage
                        /\ call'[d].token = calls[d].token
                        /\ call'[d].answer = calls[d].answer
  <2>1. call' = calls \/ call' = SignedOut(calls)
    BY DEF calls
  <2>2. QED
    BY <1>1, <2>1, SignedOutTyped
<1>4. call'[c].stage \notin {"granted", "refreshing"} /\ call'[c].token = None
  BY <1>2, <1>3 DEF NoCall
<1>5. \A d \in Worker \ {c} : /\ call'[d].stage = call[d].stage
                              /\ call'[d].token = call[d].token
                              /\ call'[d].answer = call[d].answer
  BY <1>2, <1>3
<1>6. stored' = None \/ (stored # None /\ stored' # None /\ stored'.refresh = stored.refresh)
  OBVIOUS
<1>7. QED
  BY <1>4, <1>5, <1>6, UnspentKept

LEMMA SettleSettles ==
    ASSUME NEW c \in Worker, Settle(c)
    PROVE  /\ stored' = None \/ stored' = stored
           /\ \/ call' = [call EXCEPT ![c] = NoCall]
              \/ call' = SignedOut([call EXCEPT ![c] = NoCall])
BY DEF Settle, HandleSignOut

LEMMA UnspentStep == UnspentInv /\ [BrowserNext]_browserVars => UnspentInv'
<1> SUFFICES ASSUME UnspentInv, [BrowserNext]_browserVars PROVE UnspentInv'
  OBVIOUS
<1> PageInv /\ PageInv'
  BY PageStep DEF UnspentInv
<1>a. /\ call \in [Worker -> Call] /\ stored \in Session \cup {None}
      /\ request \in [Worker -> Request]
      /\ token \in [Refresh -> Token \cup {None}]
      /\ \A c \in Worker : call[c].stage \in Answered => IsIdle(c)
  BY DEF PageInv, BrowserTypeOK, TypeInv, TypeOK
<1>b. ASSUME NEW w \in Worker, NEW r, Begin(w, r)
      PROVE  request'[w] = r /\ \A v \in Worker \ {w} : request'[v] = request[v]
  BY <1>b, <1>a DEF Begin
<1>c. ASSUME NEW w \in Worker, End(w)
      PROVE  /\ ~ IsExchanging(w)'
             /\ \A v \in Worker \ {w} : request'[v] = request[v]
             /\ \A d \in Worker : IsExchanging(d)' =>
                    IsExchanging(d) /\ request'[d].token = request[d].token
  BY <1>c, <1>b DEF End, IsExchanging, Idle
<1>d. ASSUME UNCHANGED <<token, request, call, lost>>,
             stored' = None
             \/ (stored # None /\ stored' # None /\ stored'.refresh = stored.refresh)
      PROVE  UnspentInv'
  BY <1>d, UnspentKept DEF IsExchanging
<1>e. ASSUME UNCHANGED <<token, request, stored, lost>>, NEW c \in Worker, NEW r,
             call' = [call EXCEPT ![c] = r],
             call[c].stage \notin {"granted", "refreshing"},
             r.stage \notin {"granted", "refreshing"}, r.token \in {None, call[c].token}
      PROVE  UnspentInv'
  <2>1. call'[c] = r /\ \A d \in Worker \ {c} : call'[d] = call[d]
    BY <1>e, <1>a
  <2>2. stored' = None \/ (stored # None /\ stored' # None /\ stored'.refresh = stored.refresh)
    BY <1>e
  <2>3. QED
    BY <1>e, <2>1, <2>2, UnspentKept DEF IsExchanging, IsGranted
<1>f. ASSUME NEW t \in Issued, Revoke(t)
      PROVE  \A s \in Refresh : token[s] # None =>
                 token'[s] # None /\ token'[s].children = token[s].children
  <2>1. TypeInv /\ t \in Refresh /\ token[t] \in Token
    BY <1>a DEF PageInv, Issued
  <2>2. token' = [token EXCEPT ![t] = [token[t] EXCEPT !.revoked = TRUE]]
    BY <1>f DEF Revoke
  <2>3. \A s \in Refresh : token[s] # None <=> token'[s] # None
    BY <1>f, <2>1, RevokeTyped
  <2>4. QED
    BY <2>1, <2>2, <2>3, <1>a DEF Token
<1>0. CASE UNCHANGED browserVars
  BY <1>0, <1>d DEF browserVars, sessionVars
<1>1. ASSUME NEW c \in Worker, StartLogin(c) PROVE UnspentInv'
  <2> DEFINE r == [NoCall EXCEPT !.stage = "signing_in", !.goal = "login"]
             q == [Idle EXCEPT !.stage = "login", !.version = password]
  <2>1. r.stage = "signing_in" /\ r.token = None /\ q.stage = "login"
    BY DEF NoCall, Idle
  <2>2. call' = [call EXCEPT ![c] = r] /\ UNCHANGED <<token, stored, lost>>
        /\ call[c].stage = "none" /\ Begin(c, q)
    BY <1>1 DEF StartLogin, IsFree, CallAt, CheckCredentials
  <2> HIDE DEF r, q
  <2>3. call'[c] = r /\ \A d \in Worker \ {c} : call'[d] = call[d]
    BY <2>2, <1>a
  <2>4. \A d \in Worker : IsExchanging(d)' =>
            IsExchanging(d) /\ request'[d].token = request[d].token
    BY <2>1, <2>2, <1>b DEF IsExchanging
  <2>5. stored' = None \/ (stored # None /\ stored' # None /\ stored'.refresh = stored.refresh)
    BY <2>2
  <2>6. QED
    BY <2>1, <2>2, <2>3, <2>4, <2>5, UnspentKept DEF IsGranted
<1>2. ASSUME NEW c \in Worker, AnswerLogin(c) PROVE UnspentInv'
  <2>1. PICK s \in Refresh :
            /\ IssueFirst(c, s)
            /\ call' = IF CallAt(c, "signing_in")
                       THEN [call EXCEPT ![c].stage = "granted", ![c].answer = s]
                       ELSE call
            /\ UNCHANGED <<stored, lost>>
    BY <1>2 DEF AnswerLogin
  <2>2. /\ token[s] = None /\ token'[s] # None /\ token'[s].children = 0
        /\ \A t \in Refresh \ {s} : token'[t] = token[t]
    <3>1. token' = [token EXCEPT ![s] = NewToken(c)] /\ token[s] = None
      BY <2>1 DEF IssueFirst
    <3>2. NewToken(c) # None /\ NewToken(c).children = 0
      BY NewTokenTyped, NoneAssumption DEF NewToken, PageInv
    <3>3. QED
      BY <3>1, <3>2, <1>a
  <2>3. ~ IsExchanging(c)' /\ \A d \in Worker \ {c} : request'[d] = request[d]
    BY <2>1, <1>c DEF IssueFirst
  <2>4. ~ IsExchanging(c)
    BY <2>1 DEF IssueFirst, At, IsExchanging
  <2>5. /\ \A d \in Worker \ {c} : call'[d] = call[d]
        /\ \/ call'[c] = call[c]
           \/ /\ ~ IsGranted(c)
              /\ call'[c].stage = "granted"
              /\ call'[c].token = call[c].token
              /\ call'[c].answer = s
    BY <2>1, <1>a DEF CallAt, IsGranted, Call
  <2>6. QED
    BY <2>1, <2>2, <2>3, <2>4, <2>5, UnspentAnswered
<1>3. ASSUME NEW c \in Worker, StartCall(c) \/ StartLogout(c) PROVE UnspentInv'
  <2>1. PICK r : /\ call' = [call EXCEPT ![c] = r]
                 /\ r.stage \in {"denied", "posting"} /\ r.token = None
    <3>1. CASE StartCall(c)
      <4> DEFINE r == [NoCall EXCEPT !.stage = "denied"]
      <4>1. r.stage = "denied" /\ r.token = None
        BY DEF NoCall
      <4>2. call' = [call EXCEPT ![c] = r]
        BY <3>1 DEF StartCall
      <4> HIDE DEF r
      <4>3. QED
        BY <4>1, <4>2
    <3>2. CASE StartLogout(c)
      <4> DEFINE r == [NoCall EXCEPT !.stage = IF stored.fresh THEN "posting" ELSE "denied",
                                     !.goal = "logout", !.body = stored.refresh]
      <4>1. r.stage \in {"denied", "posting"} /\ r.token = None
        BY DEF NoCall
      <4>2. call' = [call EXCEPT ![c] = r]
        BY <3>2 DEF StartLogout
      <4> HIDE DEF r
      <4>3. QED
        BY <4>1, <4>2
    <3>3. QED
      BY <1>3, <3>1, <3>2
  <2>2. UNCHANGED <<token, request, stored, lost>> /\ call[c].stage = "none"
    BY <1>3 DEF StartCall, StartLogout, IsFree, CallAt, sessionVars
  <2>3. QED
    BY <2>1, <2>2, <1>e
<1>4. ASSUME NEW c \in Worker, ReadStored(c) PROVE UnspentInv'
  <2>1. UNCHANGED <<token, request, lost>> /\ call[c].stage = "denied" /\ ~ IsExchanging(c)
    BY <1>4, <1>a DEF ReadStored, CallAt, sessionVars, Answered, IsIdle, Idle, IsExchanging
  <2>2. CASE stored = None
    <3>1. Settle(c)
      BY <1>4, <2>2 DEF ReadStored
    <3>2. QED
      BY <2>1, <3>1, SettleSettles, UnspentSettled DEF IsExchanging, IsGranted
  <2>3. CASE stored # None
    <3>1. /\ \A d \in Worker \ {c} : call'[d] = call[d]
          /\ call'[c].stage = "refreshing" /\ call'[c].token = stored.refresh
          /\ stored' = stored
      BY <1>4, <2>3, <1>a DEF ReadStored, Call
    <3>2. stored.refresh \in Refresh /\ token[stored.refresh] # None
      BY <2>3, UnspentTyped DEF UnspentInv, HeldIsIssued
    <3>3. /\ \A d \in Worker : IsGranted(d)' <=> IsGranted(d)
          /\ \A d \in Worker : IsGranted(d) => d # c /\ call'[d] = call[d]
          /\ \A d \in Worker : IsExchanging(d)' <=> IsExchanging(d)
          /\ \A d \in Worker : IsExchanging(d) => d # c
      BY <2>1, <3>1 DEF IsGranted, IsExchanging
    <3>4. ExchangesAreAwaited'
      BY <2>1, <3>1, <3>3 DEF UnspentInv, ExchangesAreAwaited
    <3>5. SpentIsFollowed'
      BY <2>1, <2>3, <3>1, <3>3 DEF UnspentInv, SpentIsFollowed
    <3>6. GrantIsExclusive'
      <4> SUFFICES ASSUME NEW d \in Worker, IsGranted(d)
                   PROVE  /\ token[call[d].answer] # None
                          /\ token[call[d].answer].children = 0
                          /\ stored.refresh # call[d].answer
                          /\ \A e \in Worker :
                                /\ call'[e].token # call[d].answer
                                /\ IsExchanging(e) => request[e].token # call[d].answer
                                /\ e # d /\ IsGranted(e) => call'[e].answer # call[d].answer
        BY <2>1, <3>1, <3>3 DEF GrantIsExclusive
      <4>1. /\ token[call[d].answer] # None
            /\ token[call[d].answer].children = 0
            /\ stored.refresh # call[d].answer
            /\ \A e \in Worker : /\ call[e].token # call[d].answer
                                 /\ IsExchanging(e) => request[e].token # call[d].answer
                                 /\ e # d /\ IsGranted(e) => call[e].answer # call[d].answer
        BY <2>3 DEF UnspentInv, GrantIsExclusive
      <4>2. QED
        BY <3>1, <3>3, <4>1
    <3>7. HeldIsIssued'
      BY <2>1, <3>1, <3>2 DEF UnspentInv, HeldIsIssued
    <3>8. QED
      BY <3>4, <3>5, <3>6, <3>7 DEF UnspentInv
  <2>4. QED
    BY <2>2, <2>3
<1>5. ASSUME NEW c \in Worker, CheckCall(c) PROVE UnspentInv'
  <2> DEFINE r(race) == [Idle EXCEPT !.stage = "refreshing", !.token = call[c].token,
                                     !.version = token[call[c].token].version, !.race = race]
  <2>1. PICK race : request'[c] = r(race)
    BY <1>5, <1>b DEF CheckCall, CheckRefresh
  <2>2. r(race).stage = "refreshing" /\ r(race).token = call[c].token
    BY DEF Idle
  <2>3. /\ request'[c].stage = "refreshing" /\ request'[c].token = call[c].token
        /\ \A d \in Worker \ {c} : request'[d] = request[d]
        /\ call[c].stage = "refreshing" /\ ~ IsExchanging(c)
        /\ UNCHANGED <<token, call, stored, lost>>
    BY <1>5, <2>1, <2>2, <1>b
    DEF CheckCall, CheckRefresh, CallAt, IsIdle, Idle, IsExchanging
  <2>4. ExchangesAreAwaited'
    BY <2>3 DEF UnspentInv, ExchangesAreAwaited, IsExchanging
  <2>5. SpentIsFollowed' /\ HeldIsIssued'
    BY <2>3 DEF UnspentInv, SpentIsFollowed, HeldIsIssued, IsGranted
  <2>6. GrantIsExclusive'
    BY <2>3 DEF UnspentInv, GrantIsExclusive, IsGranted, IsExchanging
  <2>7. QED
    BY <2>4, <2>5, <2>6 DEF UnspentInv
<1>6. ASSUME NEW c \in Worker, SpendCall(c) \/ CheckPosted(c) \/ AnswerLogout(c)
      PROVE  UnspentInv'
  <2>1. \A t \in Refresh : token[t] # None =>
            token'[t] # None /\ token'[t].children = token[t].children
    <3>1. CASE CheckPosted(c)
      BY <3>1 DEF CheckPosted, CheckLogout
    <3>2. CASE SpendCall(c) \/ AnswerLogout(c)
      <4>1. request[c].token \in Issued /\ Revoke(request[c].token)
        BY <3>2 DEF SpendCall, Spend, AnswerLogout, Logout, At, PageInv, TypeInv,
           RowsAreNamed, NamesRows
      <4>2. QED
        BY <4>1, <1>f
    <3>3. QED
      BY <1>6, <3>1, <3>2
  <2>2. \A d \in Worker : IsExchanging(d)' =>
            IsExchanging(d) /\ request'[d].token = request[d].token
    <3>1. CASE SpendCall(c)
      <4>1. /\ request'[c] = [request[c] EXCEPT !.stage = "spent"]
            /\ \A d \in Worker \ {c} : request'[d] = request[d]
            /\ request[c].stage = "refreshing"
        BY <3>1, <1>b DEF SpendCall, Spend, At
      <4>2. request'[c].token = request[c].token
        BY <4>1, <1>a DEF Request
      <4>3. QED
        BY <4>1, <4>2 DEF IsExchanging
    <3>2. CASE CheckPosted(c)
      <4> DEFINE r == [Idle EXCEPT !.stage = "logging_out", !.token = call[c].body]
      <4>1. r.stage = "logging_out"
        BY DEF Idle
      <4>2. Begin(c, r)
        BY <3>2 DEF CheckPosted, CheckLogout
      <4> HIDE DEF r
      <4>3. QED
        BY <4>1, <4>2, <1>b DEF IsExchanging
    <3>3. CASE AnswerLogout(c)
      BY <3>3, <1>c DEF AnswerLogout, Logout
    <3>4. QED
      BY <1>6, <3>1, <3>2, <3>3
  <2>3. \A d \in Worker :
            \/ call'[d] = call[d]
            \/ /\ call[d].stage = "posting" /\ call'[d].stage = "settling"
               /\ call'[d].token = call[d].token
    BY <1>6, <1>a DEF SpendCall, CheckPosted, AnswerLogout, Step, CallAt, Call
  <2>4. UNCHANGED <<stored, lost>>
    BY <1>6 DEF SpendCall, CheckPosted, AnswerLogout
  <2>5. stored' = None \/ (stored # None /\ stored' # None /\ stored'.refresh = stored.refresh)
    BY <2>4
  <2>6. QED
    BY <2>1, <2>2, <2>3, <2>4, <2>5, UnspentKept DEF IsGranted
<1>7. ASSUME NEW c \in Worker, AnswerCall(c) PROVE UnspentInv'
  <2>1. PICK s \in Refresh :
            /\ IssueNext(c, s)
            /\ call' = IF CallAt(c, "refreshing")
                       THEN [call EXCEPT ![c].stage = "granted", ![c].answer = s]
                       ELSE call
            /\ UNCHANGED <<stored, lost>>
    BY <1>7 DEF AnswerCall
  <2> DEFINE t == request[c].token
  <2>2. /\ t \in Refresh /\ token[t] # None /\ token[t] \in Token /\ t # s
        /\ token[s] = None /\ IsExchanging(c)
    BY <2>1, <1>a DEF IssueNext, At, PageInv, TypeInv, RowsAreNamed, NamesRows, Issued,
       IsExchanging
  <2>3. /\ token'[s] # None /\ token'[s].children = 0
        /\ token'[t] # None
        /\ \A u \in Refresh \ {s, t} : token'[u] = token[u]
    <3> DEFINE parent == [token[t] EXCEPT !.children = @ + 1]
    <3>1. token' = [token EXCEPT ![s] = NewToken(c), ![t] = parent]
      BY <2>1, <2>2, <1>a DEF IssueNext
    <3>2. parent # None
      BY <2>2, NoneAssumption DEF Token
    <3>3. NewToken(c) # None /\ NewToken(c).children = 0
      BY NewTokenTyped, NoneAssumption DEF NewToken, PageInv
    <3> HIDE DEF parent, t
    <3>4. QED
      BY <3>1, <3>2, <3>3, <2>2, <1>a
  <2>4. ~ IsExchanging(c)' /\ \A d \in Worker \ {c} : request'[d] = request[d]
    BY <2>1, <1>c DEF IssueNext
  <2>5. /\ \A d \in Worker \ {c} : call'[d] = call[d]
        /\ \/ call'[c] = call[c] /\ call[c].stage # "refreshing"
           \/ /\ ~ IsGranted(c)
              /\ call'[c].stage = "granted"
              /\ call'[c].token = call[c].token
              /\ call'[c].answer = s
    BY <2>1, <1>a DEF CallAt, IsGranted, Call
  <2>6. \A u \in Refresh : token[u] # None =>
            /\ token'[u] # None
            /\ \/ token'[u].children = token[u].children
               \/ IsExchanging(c) /\ u = t
    BY <2>2, <2>3
  <2>7. QED
    BY <2>1, <2>2, <2>3, <2>4, <2>5, <2>6, UnspentAnswered
<1>8. ASSUME NEW c \in Worker, StoreAnswer(c) PROVE UnspentInv'
  BY <1>8, UnspentStored
<1>9. ASSUME NEW c \in Worker, RefreshRefused(c) \/ RefreshFails(c) PROVE UnspentInv'
  <2>1. /\ ClearStored(c) /\ UNCHANGED <<token, lost>>
        /\ call[c].stage = "refreshing"
    BY <1>9 DEF RefreshRefused, RefreshFails, Abandon, sessionVars, CallAt
  <2>2. /\ ~ IsExchanging(c)'
        /\ \A d \in Worker : IsExchanging(d)' =>
               IsExchanging(d) /\ request'[d].token = request[d].token
    <3>1. CASE RefreshRefused(c)
      BY <3>1 DEF RefreshRefused, sessionVars, IsIdle, Idle, IsExchanging
    <3>2. CASE RefreshFails(c)
      BY <3>2, <1>c DEF RefreshFails, Abandon
    <3>3. QED
      BY <1>9, <3>1, <3>2
  <2>3. /\ stored' = None
        /\ \/ call' = [call EXCEPT ![c] = NoCall]
           \/ call' = SignedOut([call EXCEPT ![c] = NoCall])
    BY <2>1 DEF ClearStored
  <2>4. QED
    BY <2>1, <2>2, <2>3, UnspentSettled DEF IsGranted
<1>10. ASSUME NEW c \in Worker, SettleLogout(c) \/ LogoutRefused(c) PROVE UnspentInv'
  <2>1. /\ UNCHANGED <<token, request, lost>>
        /\ call[c].stage \in {"settling", "posting"}
    BY <1>10 DEF SettleLogout, LogoutRefused, CallAt, sessionVars
  <2>2. CASE Settle(c)
    BY <2>1, <2>2, SettleSettles, UnspentSettled DEF IsExchanging, IsGranted
  <2>3. CASE Step(c, "denied") /\ UNCHANGED stored
    <3> DEFINE r == [call[c] EXCEPT !.stage = "denied"]
    <3>1. r.stage = "denied" /\ r.token = call[c].token
      BY <1>a DEF Call
    <3>2. call' = [call EXCEPT ![c] = r]
      BY <2>3 DEF Step
    <3> HIDE DEF r
    <3>3. QED
      BY <2>1, <2>3, <3>1, <3>2, <1>e
  <2>4. QED
    BY <1>10, <2>2, <2>3 DEF SettleLogout, LogoutRefused
<1>11. ASSUME NEW c \in Worker, LoseAnswer(c) PROVE UnspentInv'
  <2>1. UNCHANGED <<token, request>> /\ Settle(c) /\ lost' = lost \cup Unanswered(c)
    BY <1>11 DEF LoseAnswer, sessionVars
  <2>2. call[c].stage \in {"refreshing", "granted"} /\ call[c].token # None
            => call[c].token \in lost'
    BY <2>1 DEF Unanswered
  <2>3. call[c].stage = "refreshing" => call[c].token # None
    BY NoneAssumption DEF PageInv, WellFormed
  <2>4. QED
    BY <2>1, <2>2, <2>3, SettleSettles, UnspentSettled DEF IsExchanging, IsGranted
<1>12. ASSUME NEW c \in Worker, CallFails(c) PROVE UnspentInv'
  <2>1. /\ Settle(c) /\ End(c) /\ ~IsIdle(c) /\ UNCHANGED <<token, lost>>
        /\ call[c].stage # "refreshing"
    BY <1>12 DEF CallFails, Abandon, CallAt
  <2>2. ~ IsGranted(c)
    BY <2>1, <1>a DEF IsGranted, Answered
  <2>3. QED
    BY <2>1, <2>2, <1>c, SettleSettles, UnspentSettled
<1>13. CASE SidebarSignOut
  <2>1. stored' = None /\ call' = SignedOut(call) /\ UNCHANGED <<token, request, lost>>
    BY <1>13 DEF SidebarSignOut, HandleSignOut, sessionVars
  <2>2. \A d \in Worker : /\ call'[d].stage = call[d].stage
                          /\ call'[d].token = call[d].token
                          /\ call'[d].answer = call[d].answer
    BY <2>1, <1>a, SignedOutTyped
  <2>3. QED
    BY <2>1, <2>2, UnspentKept DEF IsExchanging
<1>14. CASE Reload
  <2>1. /\ call' = [c \in Worker |-> NoCall] /\ UNCHANGED <<token, request, stored>>
        /\ lost' = lost \cup UNION {Unanswered(c) : c \in Worker}
    BY <1>14 DEF Reload, sessionVars
  <2>2. \A c \in Worker : call[c].stage \in {"refreshing", "granted"} /\ call[c].token # None
                              => call[c].token \in lost'
    <3> SUFFICES ASSUME NEW c \in Worker, call[c].stage \in {"refreshing", "granted"},
                        call[c].token # None
                 PROVE  call[c].token \in lost'
      OBVIOUS
    <3>1. call[c].token \in Unanswered(c)
      BY DEF Unanswered
    <3>2. QED
      BY <2>1, <3>1
  <2>3. \A c \in Worker : call[c].stage = "refreshing" => call[c].token # None
    BY NoneAssumption DEF PageInv, WellFormed
  <2>4. \A c \in Worker : call'[c].stage = "none" /\ call'[c].token = None
    BY <2>1 DEF NoCall
  <2>5. stored' = None \/ (stored # None /\ stored' # None /\ stored'.refresh = stored.refresh)
    BY <2>1
  <2>6. QED
    BY <2>1, <2>2, <2>3, <2>4, <2>5, UnspentKept DEF IsExchanging, IsGranted
<1>15. CASE ExpireAccess
  <2>1. stored # None /\ stored \in Session /\ stored' = [stored EXCEPT !.fresh = FALSE]
        /\ UNCHANGED <<token, request, call, lost>>
    BY <1>15, <1>a DEF ExpireAccess, sessionVars
  <2>2. stored' \in Session /\ stored'.refresh = stored.refresh
    BY <2>1 DEF Session
  <2>3. QED
    BY <2>1, <2>2, <1>d, NoSessionAssumption
<1>16. CASE Elsewhere
  <2>1. UNCHANGED <<token, stored, call, lost>>
    BY <1>16 DEF Elsewhere, Register, CheckAddress, CreateUser, SetActive
  <2>2. \A d \in Worker : IsExchanging(d)' =>
            IsExchanging(d) /\ request'[d].token = request[d].token
    <3>1. CASE request' = request
      BY <3>1 DEF IsExchanging
    <3>2. ASSUME NEW c \in Worker, CreateUser(c)
          PROVE  \A d \in Worker : IsExchanging(d)' =>
                     IsExchanging(d) /\ request'[d].token = request[d].token
      BY <3>2, <1>c DEF CreateUser
    <3>3. ASSUME NEW c \in Worker, CheckAddress(c)
          PROVE  \A d \in Worker : IsExchanging(d)' =>
                     IsExchanging(d) /\ request'[d].token = request[d].token
      <4>1. PICK r : Begin(c, r) /\ r.stage = "registering"
        BY <3>3 DEF CheckAddress, Idle
      <4>2. QED
        BY <4>1, <1>b DEF IsExchanging
    <3>4. QED
      BY <1>16, <3>1, <3>2, <3>3 DEF Elsewhere, Register, SetActive
  <2>3. stored' = None \/ (stored # None /\ stored' # None /\ stored'.refresh = stored.refresh)
    BY <2>1
  <2>4. QED
    BY <2>1, <2>2, <2>3, UnspentKept
<1>17. QED
  BY <1>0, <1>1, <1>2, <1>3, <1>4, <1>5, <1>6, <1>7, <1>8, <1>9, <1>10, <1>11, <1>12,
     <1>13, <1>14, <1>15, <1>16
  DEF BrowserNext, BrowserCall

(* The session that parallel calls leave in storage was not exchanged yet, *)
(* unless the answer with its successor was lost.                          *)
THEOREM StorageKeepsUp == BrowserSpec => []StoredTokenIsUnspent
<1>1. BrowserInit => UnspentInv
  <2> SUFFICES ASSUME BrowserInit PROVE UnspentInv
    OBVIOUS
  <2>1. PageInv
    BY PageInit
  <2>2. QED
    BY <2>1 DEF BrowserInit, Init, Idle, NoCall, UnspentInv, ExchangesAreAwaited,
       SpentIsFollowed, GrantIsExclusive, HeldIsIssued, IsExchanging, IsGranted
<1>2. UnspentInv => StoredTokenIsUnspent
  BY DEF UnspentInv, SpentIsFollowed, StoredTokenIsUnspent, NoCalls, CallAt, IsGranted
<1>3. QED
  BY <1>1, <1>2, UnspentStep, PTL DEF BrowserSpec
=============================================================================
