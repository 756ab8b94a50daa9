------------------------------ MODULE Accounts ------------------------------
(***************************************************************************)
(* Accounts and sessions (app.py): first-run setup, login with its lockout *)
(* and second step, reset links and invites, the owner's handling of       *)
(* accounts, and check_auth, which every request passes.  A session is the *)
(* signed cookie itself: each answer sends it back, so an answer that comes *)
(* late puts an older one back in the browser.  Handlers read their row,   *)
(* spend their time (hashing, an inquiry about a leaked password) and then *)
(* write.  The rank checks decide only which requests are refused and a    *)
(* refusal changes nothing: any request of an open session may be granted. *)
(***************************************************************************)
EXTENDS Naturals, FiniteSets, Functions

CONSTANTS Usernames,  \* names; one whose account was deleted may be given again
          Browsers,
          Threshold,  \* LOGIN_LOCKOUT_THRESHOLD
          MaxEpoch, MaxSid, MaxActs  \* bounds: password changes, sessions opened, handlers begun

VARIABLES account,  \* name -> [here, uid, epoch, fails, locked, mfa], the row it has or had
          reset,    \* name -> its row in password_reset_requests
          invite,   \* an invite is pending
          cookie,   \* browser -> its session cookie
          late,     \* browser -> the cookie an answer under way will set, or Nothing
          work,     \* browser -> the handler that has read and not yet written
          active,   \* the session ids in _active_sessions
          opened,   \* session ids given
          acts,     \* handlers begun
          revoked   \* sessions that existed when their account changed its password or left

accountVars == <<account, reset, invite, cookie, late, work, active, opened, acts, revoked>>

Sids == 1..MaxSid
Session(k, n, u, e, s) == [kind |-> k, name |-> n, uid |-> u, epoch |-> e, sid |-> s]
Anyone == CHOOSE n \in Usernames : TRUE
NoSession == Session("none", Anyone, 0, 0, 0)
Nothing == Session("nothing", Anyone, 0, 0, 0)
Sessions == [kind : {"none", "nothing", "in", "mfa"}, name : Usernames,
             uid : 0..MaxActs + 1, epoch : 0..MaxEpoch + 1, sid : 0..MaxSid]
NoHandler == [op |-> "none", name |-> Anyone, uid |-> 0, epoch |-> 0, fails |-> 0,
              mfa |-> FALSE, session |-> NoSession]
Here(n) == account[n].here
\* users.id: the accounts a name has had are told apart by their number
Is(n, u) == Here(n) /\ account[n].uid = u
Held == {s \in {cookie[b] : b \in Browsers} \cup {late[b] : b \in Browsers}
              \cup {work[b].session : b \in Browsers} : s.kind = "in"}

Row(h, u, e) == [here |-> h, uid |-> u, epoch |-> e, fails |-> 0, locked |-> FALSE, mfa |-> FALSE]

\* a first start, or a restart: accounts and cookies are kept, active sessions forgotten
AccountsInit ==
    /\ \/ /\ account = [n \in Usernames |-> Row(FALSE, 0, 0)]
          /\ cookie = [b \in Browsers |-> NoSession] /\ opened = 0 /\ acts = 0
       \/ /\ account = [n \in Usernames |-> Row(TRUE, 1, 1)]
          /\ opened = Cardinality(Browsers) /\ acts = MaxActs - 3
          /\ LET sid == CHOOSE f \in Injection(Browsers, 1..opened) : TRUE
             IN cookie \in {[b \in Browsers |-> Session("in", who[b], 1, 1, sid[b])] :
                           who \in [Browsers -> Usernames]}
    /\ reset = [n \in Usernames |-> "none"] /\ invite = FALSE
    /\ late = [b \in Browsers |-> Nothing] /\ work = [b \in Browsers |-> NoHandler]
    /\ active = {} /\ revoked = {}

Touched(s) == active \cup {s}     \* touch_active_session
Untouched(s) == active \ {s}     \* remove_active_session

----------------------------------------------------------------------------
(* check_auth: what it makes of the cookie a request carries.             *)

\* Mutant: the epoch is not compared
CurrentIfKnown(c) == c.kind = "in" /\ Here(c.name)
\* not idle too long, and opened under the account's present password
Current(c) == c.kind = "in" /\ Here(c.name) /\ account[c.name].epoch = c.epoch

\* the board's poll: the answer, under way, brings the cookie it came with
Poll(b) == /\ late[b] = Nothing /\ Current(cookie[b])
           /\ late' = [late EXCEPT ![b] = cookie[b]]
           /\ active' = Touched(cookie[b].sid)
           /\ UNCHANGED <<account, reset, invite, cookie, work, opened, revoked>>
\* expired, by idleness or by its epoch: the answer clears the cookie
PollExpired(b) == /\ late[b] = Nothing /\ cookie[b].kind = "in"
                  /\ late' = [late EXCEPT ![b] = NoSession]
                  /\ active' = Untouched(cookie[b].sid)
                  /\ UNCHANGED <<account, reset, invite, cookie, work, opened, revoked>>
Answered(b) == /\ late[b] # Nothing /\ cookie' = [cookie EXCEPT ![b] = late[b]]
               /\ late' = [late EXCEPT ![b] = Nothing]
               /\ UNCHANGED <<account, reset, invite, work, active, opened, revoked>>

\* a handler for logged-in users is let in and reads the row of n
Begin(b, op, n) ==
    /\ work[b] = NoHandler /\ Current(cookie[b]) /\ Here(n)
    /\ work' = [work EXCEPT ![b] = [op |-> op, name |-> n, uid |-> account[n].uid,
                                    epoch |-> account[n].epoch, fails |-> 0, mfa |-> FALSE,
                                    session |-> cookie[b]]]
    /\ active' = Touched(cookie[b].sid)
    /\ UNCHANGED <<account, reset, invite, cookie, late, opened, revoked>>

----------------------------------------------------------------------------
(* Opening and closing a session.                                          *)

\* _establish_session
Establish(b, n, u, e) == /\ opened < MaxSid /\ opened' = opened + 1
                         /\ cookie' = [cookie EXCEPT ![b] = Session("in", n, u, e, opened + 1)]
                         /\ active' = Touched(opened + 1)

\* _do_login_attempt reads the row; a locked account is refused
LoginBegin(b, n) ==
    /\ work[b] = NoHandler /\ cookie[b].kind # "in" /\ Here(n) /\ ~account[n].locked
    /\ work' = [work EXCEPT ![b] = [op |-> "login", name |-> n, uid |-> account[n].uid,
                                    epoch |-> account[n].epoch, fails |-> account[n].fails,
                                    mfa |-> account[n].mfa, session |-> NoSession]]
    /\ UNCHANGED <<account, reset, invite, cookie, late, active, opened, revoked>>
\* the password is right: failures are cleared and the row read again, or the
\* row as it was read is what the session is made of
LoginEnd(b) ==
    /\ work[b].op = "login"
    /\ LET n == work[b].name
           clears == work[b].fails > 0
           row == IF clears THEN account[n] ELSE work[b]
       IN /\ clears => Is(n, work[b].uid)
          /\ account' = IF clears
                        THEN [account EXCEPT ![n].fails = 0, ![n].locked = FALSE]
                        ELSE account
          /\ IF row.mfa
             THEN cookie' = [cookie EXCEPT ![b] = Session("mfa", n, row.uid, 0, 0)]
                  /\ UNCHANGED <<active, opened>>
             ELSE Establish(b, n, row.uid, row.epoch)
    /\ work' = [work EXCEPT ![b] = NoHandler]
    /\ UNCHANGED <<reset, invite, late, revoked>>
\* _register_failed_login counts on from the row as it was read
Failed(n, u, fails) == IF Is(n, u)
                       THEN [account EXCEPT ![n].fails = fails + 1,
                                            ![n].locked = fails + 1 >= Threshold]
                       ELSE account
LoginWrong(b) ==
    /\ work[b].op = "login" /\ work[b].fails < Threshold
    /\ account' = Failed(work[b].name, work[b].uid, work[b].fails)
    /\ work' = [work EXCEPT ![b] = NoHandler]
    /\ UNCHANGED <<reset, invite, cookie, late, active, opened, revoked>>
\* login_2fa: the row is read anew, and the code right or wrong
Challenged(b) == /\ work[b] = NoHandler /\ cookie[b].kind = "mfa"
                 /\ Is(cookie[b].name, cookie[b].uid) /\ account[cookie[b].name].mfa
SecondStep(b) ==
    /\ Challenged(b)
    /\ Establish(b, cookie[b].name, cookie[b].uid, account[cookie[b].name].epoch)
    /\ UNCHANGED <<account, reset, invite, late, work, revoked>>
SecondStepWrong(b) ==
    /\ Challenged(b) /\ account[cookie[b].name].fails < Threshold
    /\ account' = Failed(cookie[b].name, cookie[b].uid, account[cookie[b].name].fails)
    /\ UNCHANGED <<reset, invite, cookie, late, work, active, opened, revoked>>
LockEnds(n) == /\ account[n].locked /\ account' = [account EXCEPT ![n].locked = FALSE]
               /\ UNCHANGED <<reset, invite, cookie, late, work, active, opened, revoked>>
Logout(b) == /\ work[b] = NoHandler /\ cookie[b].kind # "none"
             /\ cookie' = [cookie EXCEPT ![b] = NoSession]
             /\ active' = IF cookie[b].kind = "in" THEN Untouched(cookie[b].sid) ELSE active
             /\ UNCHANGED <<account, reset, invite, late, work, opened, revoked>>

----------------------------------------------------------------------------
(* Accounts that begin, change and end.                                    *)

\* login in setup mode, and accept_invite: the checks, then the account
JoinBegin(b, n) ==
    /\ work[b] = NoHandler /\ cookie[b].kind # "in" /\ ~Here(n)
    /\ \E op \in {"set-up", "join"} :
          /\ IF op = "join" THEN invite ELSE \A m \in Usernames : ~Here(m)
          /\ work' = [work EXCEPT ![b] = [NoHandler EXCEPT !.op = op, !.name = n]]
    /\ UNCHANGED <<account, reset, invite, cookie, late, active, opened, revoked>>
\* the name's next account, at the first epoch again
Given(n) == [account EXCEPT ![n] = Row(TRUE, @.uid + 1, 1)]
\* the set-up replaces an account that came to have the name since its check
JoinEnd(b) ==
    /\ work[b].op = "set-up" \/ (work[b].op = "join" /\ ~Here(work[b].name))
    /\ account' = Given(work[b].name)
    /\ Establish(b, work[b].name, account[work[b].name].uid + 1, 1)
    /\ invite' = (invite /\ work[b].op = "set-up")
    /\ work' = [work EXCEPT ![b] = NoHandler]
    /\ UNCHANGED <<reset, late, revoked>>
\* "already exists", or any other refusal; a login's, when its row is gone
Refused(b) == /\ work[b].op # "none" /\ work' = [work EXCEPT ![b] = NoHandler]
              /\ work[b].op = "login" => ~Is(work[b].name, work[b].uid)
              /\ cookie' = [cookie EXCEPT ![b] = IF work[b].session.kind = "in"
                                                THEN work[b].session ELSE @]
              /\ UNCHANGED <<account, reset, invite, late, active, opened, revoked>>
\* api_users_create
Create(b, n) ==
    /\ work[b].op = "set" /\ ~Here(n) /\ account' = Given(n)
    /\ work' = [work EXCEPT ![b] = NoHandler] /\ cookie' = [cookie EXCEPT ![b] = work[b].session]
    /\ UNCHANGED <<reset, invite, late, active, opened, revoked>>

\* password_hash=?, password_epoch=password_epoch+1 and the lockout cleared
NewPassword(n) == [account EXCEPT ![n].epoch = @ + 1, ![n].fails = 0, ![n].locked = FALSE]
Revoke(n) == revoked' = revoked \cup {s \in Held : s.name = n}

\* api_change_password: the session follows its own change, from the row read
\* before; the row changed is the one that has the name by now, if one has
ChangeOwn(b) ==
    /\ work[b].op = "own" /\ account[work[b].name].epoch < MaxEpoch
    /\ IF Here(work[b].name)
       THEN account' = [account EXCEPT ![work[b].name].epoch = @ + 1] /\ Revoke(work[b].name)
       ELSE UNCHANGED <<account, revoked>>
    /\ cookie' = [cookie EXCEPT ![b] = [work[b].session EXCEPT !.epoch = work[b].epoch + 1]]
    /\ work' = [work EXCEPT ![b] = NoHandler]
    /\ UNCHANGED <<reset, invite, late, active, opened>>
\* api_users_update with a password
SetPassword(b) ==
    /\ work[b].op = "set" /\ Is(work[b].name, work[b].uid)
    /\ account[work[b].name].epoch < MaxEpoch
    /\ account' = NewPassword(work[b].name) /\ Revoke(work[b].name)
    /\ work' = [work EXCEPT ![b] = NoHandler] /\ cookie' = [cookie EXCEPT ![b] = work[b].session]
    /\ UNCHANGED <<reset, invite, late, active, opened>>
\* api_users_delete, never of one's own account
Delete(b) ==
    /\ work[b].op = "delete" /\ Is(work[b].name, work[b].uid)
    /\ <<work[b].session.name, work[b].session.uid>> # <<work[b].name, work[b].uid>>
    /\ account' = [account EXCEPT ![work[b].name].here = FALSE] /\ Revoke(work[b].name)
    /\ work' = [work EXCEPT ![b] = NoHandler] /\ cookie' = [cookie EXCEPT ![b] = work[b].session]
    /\ UNCHANGED <<reset, invite, late, active, opened>>
\* api_mfa_confirm, by the id in the session, and api_mfa_disable or an administrator's reset
SetMfa(b, on) ==
    /\ work[b].op = (IF on THEN "own" ELSE "set") /\ Is(work[b].name, work[b].uid)
    /\ on => work[b].session.uid = work[b].uid
    /\ account' = [account EXCEPT ![work[b].name].mfa = on]
    /\ work' = [work EXCEPT ![b] = NoHandler] /\ cookie' = [cookie EXCEPT ![b] = work[b].session]
    /\ UNCHANGED <<reset, invite, late, active, opened, revoked>>

\* forgot_password, its approval or denial, and reset_password_page
Forgot(n) == /\ Here(n) /\ reset[n] = "none" /\ reset' = [reset EXCEPT ![n] = "pending"]
             /\ UNCHANGED <<account, invite, cookie, late, work, active, opened, revoked>>
Resolve(b, how) ==
    /\ work[b].op = "set" /\ Here(work[b].name) /\ reset[work[b].name] = "pending"
    /\ reset' = [reset EXCEPT ![work[b].name] = how] /\ work' = [work EXCEPT ![b] = NoHandler]
    /\ cookie' = [cookie EXCEPT ![b] = work[b].session]
    /\ UNCHANGED <<account, invite, late, active, opened, revoked>>
ResetBegin(b, n) ==
    /\ work[b] = NoHandler /\ cookie[b].kind # "in" /\ reset[n] = "approved"
    /\ work' = [work EXCEPT ![b] = [NoHandler EXCEPT !.op = "reset", !.name = n]]
    /\ UNCHANGED <<account, reset, invite, cookie, late, active, opened, revoked>>
ResetEnd(b) ==
    /\ work[b].op = "reset" /\ account[work[b].name].epoch < MaxEpoch
    /\ account' = IF Here(work[b].name) THEN NewPassword(work[b].name) ELSE account
    /\ Revoke(work[b].name) /\ reset' = [reset EXCEPT ![work[b].name] = "none"]
    /\ work' = [work EXCEPT ![b] = NoHandler]
    /\ UNCHANGED <<invite, cookie, late, active, opened>>
\* _prune_password_reset_requests, _prune_invites, and a revoked invite
Prune == /\ \/ \E n \in Usernames : reset[n] # "none" /\ reset' = [reset EXCEPT ![n] = "none"]
               /\ UNCHANGED invite
            \/ invite /\ invite' = FALSE /\ UNCHANGED reset
         /\ UNCHANGED <<account, cookie, late, work, active, opened, revoked>>
\* api_invites_create
Invite(b) == /\ work[b].op = "set" /\ invite' = TRUE /\ work' = [work EXCEPT ![b] = NoHandler]
             /\ cookie' = [cookie EXCEPT ![b] = work[b].session]
             /\ UNCHANGED <<account, reset, late, active, opened, revoked>>

----------------------------------------------------------------------------
(* The dictionary of active sessions.                                      *)

\* _active_sessions_snapshot, for the count in the board's footer, ACTIVE_SESSION_WINDOW
\* after the entry was touched
Snapshot(s) == /\ s \in active /\ active' = Untouched(s)
               /\ UNCHANGED <<account, reset, invite, cookie, late, work, opened, revoked>>

Begins(b) == \/ \E n \in Usernames : Begin(b, "set", n) \/ Begin(b, "delete", n)
             \/ Begin(b, "own", cookie[b].name)
Enters(b) == \E n \in Usernames : LoginBegin(b, n) \/ JoinBegin(b, n) \/ ResetBegin(b, n)
Other(b) == \/ PollExpired(b) \/ Answered(b) \/ Logout(b)
            \/ LoginEnd(b) \/ LoginWrong(b) \/ SecondStep(b) \/ SecondStepWrong(b)
            \/ JoinEnd(b) \/ Refused(b) \/ ChangeOwn(b) \/ SetPassword(b) \/ Delete(b)
            \/ Invite(b) \/ ResetEnd(b)
            \/ (\E on \in BOOLEAN : SetMfa(b, on))
            \/ (\E how \in {"approved", "none"} : Resolve(b, how))
            \/ (\E n \in Usernames : Create(b, n))
Housekeeping == Prune \/ (\E n \in Usernames : LockEnds(n)) \/ \E s \in Sids : Snapshot(s)

Act == acts < MaxActs /\ acts' = acts + 1
AccountsNext == \/ \E b \in Browsers : (Poll(b) \/ Begins(b) \/ Enters(b)) /\ Act
                \/ \E n \in Usernames : Forgot(n) /\ Act
                \/ (Housekeeping \/ \E b \in Browsers : Other(b)) /\ UNCHANGED acts

AccountsSpec == AccountsInit /\ [][AccountsNext]_accountVars

----------------------------------------------------------------------------
(* Types, counts and cookies: every number is in its range, and a cookie   *)
(* names a session that was opened.                                        *)
AccountsTypeOK ==
    /\ account \in [Usernames -> [here : BOOLEAN, uid : 0..MaxActs + 1, epoch : 0..MaxEpoch,
                                 fails : 0..Threshold, locked : BOOLEAN, mfa : BOOLEAN]]
    /\ reset \in [Usernames -> {"none", "pending", "approved"}] /\ invite \in BOOLEAN
    /\ cookie \in [Browsers -> Sessions] /\ late \in [Browsers -> Sessions]
    /\ active \subseteq Sids /\ opened \in 0..MaxSid
    /\ \A s \in Held : s.sid \in 1..opened

(* Whoever's password was changed, by the account's holder, an             *)
(* administrator or a reset link, or whose account was deleted: a session   *)
(* that existed then is never let in again, whatever late answer brings     *)
(* its cookie back and however the handlers that change it overlap, unless  *)
(* its name has been given to another account since.                       *)
Another(s) == account[s.name].uid # s.uid
LetsIn == \A b \in Browsers :
             (Poll(b) \/ Begins(b)) /\ cookie[b] \in revoked => Another(cookie[b])
RevokedStaysOut == [][LetsIn]_accountVars
=============================================================================
