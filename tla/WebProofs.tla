----------------------------- MODULE WebProofs ------------------------------
(***************************************************************************)
(* Revoked sessions, for every number of accounts, browsers and handlers;  *)
(* weather alerts, for every interval, deferral and backoff; the cache of  *)
(* rpt.conf, for every number of requests, writes and faults; and the      *)
(* edits of rpt.conf, for texts of any length, sections and keys.          *)
(***************************************************************************)
EXTENDS Accounts, Announcer, ConfFile, ConfLines,
        SequenceTheorems, WellFoundedInduction, TLAPS


Account == [here : BOOLEAN, uid : Nat, epoch : Nat, fails : Nat,
            locked : BOOLEAN, mfa : BOOLEAN]
IsSession(s) == /\ s = Session(s.kind, s.name, s.uid, s.epoch, s.sid)
                /\ s.uid \in Nat /\ s.epoch \in Nat
IsOn(f) == f = [b \in Browsers |-> f[b]]

Shape == /\ account \in [Usernames -> Account]
         /\ IsOn(cookie) /\ IsOn(late) /\ IsOn(work)
         /\ \A b \in Browsers : /\ IsSession(cookie[b]) /\ IsSession(late[b])
                                /\ IsSession(work[b].session)
                                /\ work[b].uid \in Nat
                                /\ work[b].epoch \in Nat /\ work[b].fails \in Nat
                                /\ late[b].kind # "mfa"
                                /\ cookie[b].kind = "mfa" => cookie[b].name \in Usernames

(* An open session, and what a handler has read of an account, is of one    *)
(* the name has or had, and never ahead of the one it has.                 *)
Known(n, u, e) == /\ n \in Usernames /\ u <= account[n].uid
                  /\ Is(n, u) => e <= account[n].epoch
HeldKnown == \A s \in Held : Known(s.name, s.uid, s.epoch)
WorkKnown == \A b \in Browsers :
                /\ work[b].op # "none" => work[b].name \in Usernames
                /\ work[b].op \in {"login", "own"}
                      => Known(work[b].name, work[b].uid, work[b].epoch)
                /\ work[b].op \in {"own", "set", "delete"} => work[b].session.kind = "in"
                /\ work[b].op = "own" => /\ work[b].session.name = work[b].name
                                         /\ work[b].session.uid <= work[b].uid
(* What was revoked is behind its account, or its account is gone.         *)
Past(s) == /\ s.name \in Usernames /\ s.uid \in Nat /\ s.epoch \in Nat
           /\ s.uid <= account[s.name].uid
           /\ Is(s.name, s.uid) => s.epoch < account[s.name].epoch
RevokedPast == \A s \in revoked : Past(s)

IInv == Shape /\ HeldKnown /\ WorkKnown /\ RevokedPast

(* No account comes back or loses a password change: a name is given again *)
(* to an account of its own number.                                        *)
Grows == \A n \in Usernames :
            /\ account[n].uid <= account'[n].uid
            /\ account'[n].uid = account[n].uid /\ account'[n].here
                  => account[n].here /\ account[n].epoch <= account'[n].epoch

LEMMA Constants == IsSession(NoSession) /\ IsSession(Nothing) /\ NoSession.kind = "none"
                   /\ Nothing.kind = "nothing"
                   /\ NoHandler.session = NoSession /\ NoHandler.op = "none"
                   /\ NoHandler.uid = 0 /\ NoHandler.epoch = 0 /\ NoHandler.fails = 0
BY DEF IsSession, NoSession, Nothing, Session, NoHandler

(* Whatever a step does, it keeps the invariant when accounts only grow and *)
(* each new session, reading and revocation is in order.                   *)
LEMMA StepIInv ==
    ASSUME IInv, Shape', Grows,
           \A s \in Held' : s \in Held \/ Known(s.name, s.uid, s.epoch)',
           \A b \in Browsers : \/ work'[b] = work[b]
                               \/ /\ work'[b].op # "none" => work'[b].name \in Usernames
                                  /\ work'[b].op \in {"login", "own"}
                                        => Known(work[b].name, work[b].uid, work[b].epoch)'
                                  /\ work'[b].op \in {"own", "set", "delete"}
                                        => work'[b].session.kind = "in"
                                  /\ work'[b].op = "own"
                                        => /\ work'[b].session.name = work'[b].name
                                           /\ work'[b].session.uid <= work'[b].uid,
           \A s \in revoked' : s \in revoked \/ Past(s)'
    PROVE  IInv'
<1>1. \A n \in Usernames : /\ account[n].epoch \in Nat /\ account'[n].epoch \in Nat
                            /\ account[n].uid \in Nat /\ account'[n].uid \in Nat
  BY DEF IInv, Shape, Account
<1>2. ASSUME NEW n, NEW u \in Nat, NEW e \in Nat, Known(n, u, e) PROVE Known(n, u, e)'
  BY <1>1, <1>2 DEF Known, Grows, Is, Here
<1>3. \A s \in Held : s.uid \in Nat /\ s.epoch \in Nat
  BY DEF IInv, Shape, Held, IsSession
<1>4. HeldKnown'
  BY <1>2, <1>3 DEF IInv, HeldKnown
<1>5. \A b \in Browsers : work[b].uid \in Nat /\ work[b].epoch \in Nat
  BY DEF IInv, Shape
<1>6. WorkKnown'
  BY <1>2, <1>5 DEF IInv, WorkKnown
<1>7. ASSUME NEW s, Past(s) PROVE Past(s)'
  BY <1>1, <1>7 DEF Past, Grows, Is, Here
<1>8. RevokedPast'
  BY <1>7 DEF IInv, RevokedPast
<1> QED BY <1>4, <1>6, <1>8 DEF IInv

LEMMA InitIInv == AccountsInit => IInv
<1> SUFFICES ASSUME AccountsInit PROVE IInv
  OBVIOUS
<1>1. \A b \in Browsers : work[b] = NoHandler /\ late[b] = Nothing
  BY DEF AccountsInit
<1>2. IsOn(late) /\ IsOn(work) /\ revoked = {}
  BY DEF AccountsInit, IsOn
<1>3. ASSUME account = [n \in Usernames |-> Row(FALSE, 0, 0)],
             cookie = [b \in Browsers |-> NoSession]
      PROVE  IInv
  <2>1. account \in [Usernames -> Account]
    <3>1. Row(FALSE, 0, 0) \in Account
      BY DEF Account, Row
    <3> QED BY <1>3, <3>1
  <2>2. Shape
    <3>1. \A b \in Browsers : cookie[b] = NoSession
      BY <1>3
    <3>2. IsOn(cookie)
      BY <1>3 DEF IsOn
    <3> QED BY <1>1, <1>2, <2>1, <3>1, <3>2, Constants DEF Shape
  <2>3. Held = {}
    BY <1>1, <1>3, Constants DEF Held
  <2> QED BY <1>1, <1>2, <2>2, <2>3, Constants DEF IInv, HeldKnown, WorkKnown, RevokedPast
<1>4. ASSUME account = [n \in Usernames |-> Row(TRUE, 1, 1)],
             NEW sid, NEW who \in [Browsers -> Usernames],
             cookie = [b \in Browsers |-> Session("in", who[b], 1, 1, sid[b])]
      PROVE  IInv
  <2>1. \A b \in Browsers : /\ IsSession(cookie[b]) /\ cookie[b].epoch = 1 /\ cookie[b].uid = 1
                            /\ cookie[b].name \in Usernames
    BY <1>4 DEF IsSession, Session
  <2>2. account \in [Usernames -> Account]
    <3>1. Row(TRUE, 1, 1) \in Account
      BY DEF Account, Row
    <3> QED BY <1>4, <3>1
  <2>3. Shape
    <3>1. \A b \in Browsers : cookie[b].kind = "in"
      BY <1>4 DEF Session
    <3>2. IsOn(cookie)
      BY <1>4 DEF IsOn
    <3> QED BY <1>1, <1>2, <2>1, <2>2, <3>1, <3>2, Constants DEF Shape
  <2>4. \A s \in Held : s.epoch = 1 /\ s.uid = 1 /\ s.name \in Usernames
    BY <1>1, <2>1, Constants DEF Held
  <2>5. \A n \in Usernames : account[n].uid = 1 /\ account[n].epoch = 1
    BY <1>4 DEF Row
  <2>6. HeldKnown
    BY <2>4, <2>5 DEF HeldKnown, Known
  <2> QED BY <1>1, <1>2, <2>3, <2>6, Constants DEF IInv, WorkKnown, RevokedPast
<1> DEFINE g == CHOOSE f \in Injection(Browsers, 1..opened) : TRUE
<1>5. \/ account = [n \in Usernames |-> Row(FALSE, 0, 0)] /\ cookie = [b \in Browsers |-> NoSession]
      \/ /\ account = [n \in Usernames |-> Row(TRUE, 1, 1)]
         /\ \E who \in [Browsers -> Usernames] :
               cookie = [b \in Browsers |-> Session("in", who[b], 1, 1, g[b])]
  BY DEF AccountsInit
<1>6. CASE account = [n \in Usernames |-> Row(FALSE, 0, 0)] /\ cookie = [b \in Browsers |-> NoSession]
  BY <1>3, <1>6
<1> HIDE DEF g
<1>7. ASSUME account = [n \in Usernames |-> Row(TRUE, 1, 1)], NEW who \in [Browsers -> Usernames],
             cookie = [b \in Browsers |-> Session("in", who[b], 1, 1, g[b])]
      PROVE  IInv
  BY <1>4, <1>7, Zenon
<1> QED BY <1>5, <1>6, <1>7, Zenon

(* Steps that move no more than cookies about.                             *)
LEMMA CookieStep ==
    ASSUME IInv, UNCHANGED <<account, work, revoked>>, NEW b \in Browsers, NEW c, NEW l,
           IsSession(c), IsSession(l), c.kind = "in" => c \in Held \/ Known(c.name, c.uid, c.epoch),
           l.kind = "in" => l \in Held, l.kind # "mfa",
           c.kind = "mfa" => c.name \in Usernames,
           cookie' = [cookie EXCEPT ![b] = c], late' = [late EXCEPT ![b] = l]
    PROVE  IInv'
<1>1. Shape'
  BY DEF IInv, Shape, IsOn, IsSession
<1>2. Grows
  BY DEF IInv, Shape, Account, Grows
<1>3. \A s \in Held' : s \in Held \/ Known(s.name, s.uid, s.epoch)'
  BY DEF IInv, Shape, IsOn, Held, Known, Is, Here
<1> QED BY <1>1, <1>2, <1>3, StepIInv

LEMMA OfBrowser == ASSUME IInv, NEW b \in Browsers
                   PROVE  /\ IsSession(cookie[b]) /\ IsSession(late[b])
                          /\ IsSession(work[b].session)
                          /\ cookie = [cookie EXCEPT ![b] = cookie[b]]
                          /\ late = [late EXCEPT ![b] = late[b]]
                          /\ \A s \in {cookie[b], late[b], work[b].session} :
                                s.kind = "in" => s \in Held
                          /\ late[b].kind # "mfa"
                          /\ cookie[b].kind = "mfa" => cookie[b].name \in Usernames
BY DEF IInv, Shape, IsOn, Held

LEMMA PollIInv == ASSUME IInv, NEW b \in Browsers, Poll(b) PROVE IInv'
BY OfBrowser, CookieStep DEF Poll, Current

LEMMA PollExpiredIInv == ASSUME IInv, NEW b \in Browsers, PollExpired(b) PROVE IInv'
BY OfBrowser, CookieStep, Constants DEF PollExpired

LEMMA AnsweredIInv == ASSUME IInv, NEW b \in Browsers, Answered(b) PROVE IInv'
BY OfBrowser, CookieStep, Constants DEF Answered

LEMMA LogoutIInv == ASSUME IInv, NEW b \in Browsers, Logout(b) PROVE IInv'
BY OfBrowser, CookieStep, Constants DEF Logout

LEMMA SessionFacts ==
    ASSUME NEW k, NEW n, NEW u \in Nat, NEW e \in Nat, NEW i
    PROVE  /\ IsSession(Session(k, n, u, e, i)) /\ Session(k, n, u, e, i).kind = k
           /\ Session(k, n, u, e, i).name = n /\ Session(k, n, u, e, i).uid = u
           /\ Session(k, n, u, e, i).epoch = e
BY DEF IsSession, Session

LEMMA SecondStepIInv == ASSUME IInv, NEW b \in Browsers, SecondStep(b) PROVE IInv'
<1> DEFINE n == cookie[b].name
           u == cookie[b].uid
<1>1. n \in Usernames /\ Is(n, u) /\ account[n].epoch \in Nat /\ account[n].uid \in Nat
  BY OfBrowser DEF SecondStep, Challenged, IInv, Shape, Account
<1>2. Known(n, u, account[n].epoch) /\ u \in Nat
  BY <1>1 DEF Known, Is
<1> DEFINE c == Session("in", n, u, account[n].epoch, opened + 1)
<1>3. cookie' = [cookie EXCEPT ![b] = c]
  BY DEF SecondStep, Establish
<1>4. IsSession(c) /\ c.kind = "in" /\ Known(c.name, c.uid, c.epoch)
  BY <1>1, <1>2, SessionFacts
<1> HIDE DEF c
<1> QED BY <1>3, <1>4, OfBrowser, CookieStep DEF SecondStep

(* Steps that leave sessions and handlers alone.                           *)
LEMMA AccountStep ==
    ASSUME IInv, UNCHANGED <<cookie, late, work, revoked>>, account' \in [Usernames -> Account],
           Grows
    PROVE  IInv'
<1>1. Shape' /\ Held' = Held
  BY DEF IInv, Shape, IsOn, Held, IsSession
<1> QED BY <1>1, StepIInv

LEMMA Same == ASSUME IInv, UNCHANGED account PROVE account' \in [Usernames -> Account] /\ Grows
BY DEF IInv, Shape, Account, Grows

(* One account changes.                                                    *)
LEMMA AccountChange ==
    ASSUME IInv, NEW n \in Usernames, account' = [account EXCEPT ![n] = account'[n]],
           account'[n] \in Account,
           account[n].uid <= account'[n].uid,
           account'[n].uid = account[n].uid /\ account'[n].here
              => account[n].here /\ account[n].epoch <= account'[n].epoch
    PROVE  account' \in [Usernames -> Account] /\ Grows
<1>1. account \in [Usernames -> Account]
  BY DEF IInv, Shape
<1>2. account' \in [Usernames -> Account]
  BY <1>1
<1>3. \A m \in Usernames \ {n} : account'[m] = account[m]
  BY <1>1
<1>4. \A m \in Usernames : account[m].epoch \in Nat /\ account[m].uid \in Nat
  BY <1>1 DEF Account
<1> QED BY <1>1, <1>2, <1>3, <1>4 DEF Grows

(* One account changes and keeps its number, its epoch and its place.      *)
LEMMA SameAccount ==
    ASSUME IInv, NEW n \in Usernames, NEW a \in Account, account' = [account EXCEPT ![n] = a],
           a.here = account[n].here, a.uid = account[n].uid, a.epoch = account[n].epoch
    PROVE  /\ account' \in [Usernames -> Account] /\ Grows
           /\ account'[n] = a
<1>1. account'[n] = a /\ account' = [account EXCEPT ![n] = account'[n]]
  BY DEF IInv, Shape
<1>2. account[n].epoch \in Nat /\ account[n].uid \in Nat
  BY DEF IInv, Shape, Account
<1>3. account[n].uid <= account'[n].uid /\ account[n].epoch <= account'[n].epoch
  BY <1>1, <1>2
<1> QED BY <1>1, <1>3, AccountChange

(* Failures and lockout may change as they like.                           *)
LEMMA FailsGrow == ASSUME IInv, NEW n \in Usernames, NEW f \in Nat, NEW l \in BOOLEAN,
                          account' = [account EXCEPT ![n] = [account[n] EXCEPT !.fails = f,
                                                                               !.locked = l]]
                   PROVE  /\ account' \in [Usernames -> Account] /\ Grows
                          /\ account'[n].here = account[n].here
                          /\ account'[n].uid = account[n].uid
                          /\ account'[n].epoch = account[n].epoch
<1> DEFINE a == [account[n] EXCEPT !.fails = f, !.locked = l]
<1>1. account[n] \in Account
  BY DEF IInv, Shape
<1>2. /\ a \in Account /\ a.here = account[n].here
      /\ a.uid = account[n].uid /\ a.epoch = account[n].epoch
  BY <1>1 DEF Account
<1> HIDE DEF a
<1>3. account' = [account EXCEPT ![n] = a]
  BY DEF a
<1> QED BY <1>2, <1>3, SameAccount

LEMMA FailedGrows == ASSUME IInv, NEW n \in Usernames, NEW u, NEW f \in Nat,
                            account' = Failed(n, u, f)
                     PROVE  account' \in [Usernames -> Account] /\ Grows
<1>1. CASE ~Is(n, u)
  BY <1>1, Same DEF Failed
<1>2. CASE Is(n, u)
  <2> DEFINE l == f + 1 >= Threshold
  <2>1. account' = [account EXCEPT ![n] = [account[n] EXCEPT !.fails = f + 1, !.locked = l]]
    BY <1>2 DEF Failed, IInv, Shape
  <2>2. l \in BOOLEAN /\ f + 1 \in Nat
    OBVIOUS
  <2> HIDE DEF l
  <2> QED BY <2>1, <2>2, FailsGrow
<1> QED BY <1>1, <1>2

LEMMA SecondStepWrongIInv == ASSUME IInv, NEW b \in Browsers, SecondStepWrong(b) PROVE IInv'
<1> DEFINE n == cookie[b].name
<1>1. n \in Usernames /\ account[n].fails \in Nat
  BY OfBrowser DEF SecondStepWrong, Challenged, IInv, Shape, Account
<1>2. account' = Failed(n, cookie[b].uid, account[n].fails)
  BY DEF SecondStepWrong
<1>3. account' \in [Usernames -> Account] /\ Grows
  BY <1>1, <1>2, FailedGrows
<1> QED BY <1>3, AccountStep DEF SecondStepWrong

LEMMA LockEndsIInv == ASSUME IInv, NEW n \in Usernames, LockEnds(n) PROVE IInv'
<1> DEFINE a == [account[n] EXCEPT !.locked = FALSE]
<1>1. account[n] \in Account
  BY DEF IInv, Shape
<1>2. /\ a \in Account /\ a.here = account[n].here
      /\ a.uid = account[n].uid /\ a.epoch = account[n].epoch
  BY <1>1 DEF Account
<1> HIDE DEF a
<1>3. account' = [account EXCEPT ![n] = a]
  BY DEF LockEnds, IInv, Shape, a
<1> QED BY <1>2, <1>3, SameAccount, AccountStep DEF LockEnds

LEMMA HousekeepingIInv == ASSUME IInv, Prune \/ (\E s \in Sids : Snapshot(s))
                                       \/ (\E n \in Usernames : Forgot(n))
                          PROVE  IInv'
BY Same, AccountStep DEF Prune, Snapshot, Forgot

(* A handler begins.                                                       *)
LEMMA BeginStep ==
    ASSUME IInv, NEW b \in Browsers, UNCHANGED <<account, cookie, late, revoked>>,
           work' = [work EXCEPT ![b] = work'[b]], IsSession(work'[b].session),
           work'[b].uid \in Nat, work'[b].epoch \in Nat, work'[b].fails \in Nat, work'[b].name \in Usernames,
           work'[b].session.kind = "in" => work'[b].session \in Held,
           work'[b].op \in {"login", "own"} => Known(work'[b].name, work'[b].uid, work'[b].epoch),
           work'[b].op \in {"own", "set", "delete"} => work'[b].session.kind = "in",
           work'[b].op = "own" => /\ work'[b].session.name = work'[b].name
                                  /\ work'[b].session.uid <= work'[b].uid
    PROVE  IInv'
<1>1. IsOn(work)' /\ \A c \in Browsers \ {b} : work'[c] = work[c]
  BY DEF IInv, Shape, IsOn
<1>2. Shape'
  BY <1>1 DEF IInv, Shape, IsOn, IsSession
<1>3. \A s \in Held' : s \in Held
  BY <1>1 DEF Held
<1>4. work'[b].op \in {"login", "own"} => Known(work[b].name, work[b].uid, work[b].epoch)'
  BY <1>1 DEF Known, Is, Here
<1> QED BY <1>1, <1>2, <1>3, <1>4, Same, StepIInv

LEMMA BeginIInv == ASSUME IInv, NEW b \in Browsers, NEW op \in {"set", "delete", "own"},
                          NEW n \in Usernames, Begin(b, op, n), op = "own" => n = cookie[b].name
                   PROVE  IInv'
<1>1. /\ work'[b] = [op |-> op, name |-> n, uid |-> account[n].uid, epoch |-> account[n].epoch,
                     fails |-> 0, mfa |-> FALSE, session |-> cookie[b]]
      /\ work' = [work EXCEPT ![b] = work'[b]]
  BY DEF Begin, IInv, Shape, IsOn
<1>2. account[n].epoch \in Nat /\ account[n].uid \in Nat
  BY DEF IInv, Shape, Account
<1>3. Known(n, account[n].uid, account[n].epoch)
  BY <1>2 DEF Known
<1>4. cookie[b].kind = "in" /\ UNCHANGED <<account, cookie, late, revoked>>
  BY DEF Begin, Current
<1>5. cookie[b] \in Held /\ IsSession(cookie[b])
  BY <1>4, OfBrowser
<1>6. op = "own" => cookie[b].uid <= account[n].uid
  BY <1>5 DEF IInv, HeldKnown, Known
<1>7. /\ work'[b].op = op /\ work'[b].name = n /\ work'[b].uid = account[n].uid
      /\ work'[b].epoch = account[n].epoch /\ work'[b].fails = 0 /\ work'[b].session = cookie[b]
  BY <1>1
<1> QED BY <1>1, <1>2, <1>3, <1>4, <1>5, <1>6, <1>7, BeginStep

LEMMA LoginBeginIInv == ASSUME IInv, NEW b \in Browsers, NEW n \in Usernames, LoginBegin(b, n)
                        PROVE  IInv'
<1>1. /\ work'[b] = [op |-> "login", name |-> n, uid |-> account[n].uid,
                     epoch |-> account[n].epoch, fails |-> account[n].fails,
                     mfa |-> account[n].mfa, session |-> NoSession]
      /\ work' = [work EXCEPT ![b] = work'[b]]
  BY DEF LoginBegin, IInv, Shape, IsOn
<1>2. account[n].epoch \in Nat /\ account[n].uid \in Nat /\ account[n].fails \in Nat
  BY DEF IInv, Shape, Account
<1>3. Known(n, account[n].uid, account[n].epoch)
  BY <1>2 DEF Known
<1>4. UNCHANGED <<account, cookie, late, revoked>>
  BY DEF LoginBegin
<1>5. /\ work'[b].op = "login" /\ work'[b].name = n /\ work'[b].uid = account[n].uid
      /\ work'[b].epoch = account[n].epoch /\ work'[b].fails = account[n].fails
      /\ work'[b].session = NoSession
  BY <1>1
<1> QED BY <1>1, <1>2, <1>3, <1>4, <1>5, Constants, BeginStep

LEMMA EnterIInv == ASSUME IInv, NEW b \in Browsers, NEW n \in Usernames,
                          JoinBegin(b, n) \/ ResetBegin(b, n)
                   PROVE  IInv'
<1>1. PICK op \in {"join", "set-up", "reset"} : work' = [work EXCEPT ![b] = [NoHandler EXCEPT !.op = op,
                                                                              !.name = n]]
  BY DEF JoinBegin, ResetBegin
<1>2. work'[b] = [NoHandler EXCEPT !.op = op, !.name = n] /\ work' = [work EXCEPT ![b] = work'[b]]
  BY <1>1 DEF IInv, Shape, IsOn
<1>3. /\ work'[b].op = op /\ work'[b].name = n /\ work'[b].uid = 0 /\ work'[b].epoch = 0
      /\ work'[b].fails = 0 /\ work'[b].session = NoSession
  BY <1>2 DEF NoHandler
<1>4. UNCHANGED <<account, cookie, late, revoked>>
  BY DEF JoinBegin, ResetBegin
<1>5. work'[b].op \notin {"login", "own", "set", "delete"}
  BY <1>3
<1>6. IsSession(work'[b].session) /\ work'[b].session.kind # "in"
  BY <1>3, Constants
<1>7. work'[b].uid \in Nat /\ work'[b].epoch \in Nat /\ work'[b].fails \in Nat /\ work'[b].name \in Usernames
  BY <1>3
<1> QED BY <1>2, <1>4, <1>5, <1>6, <1>7, BeginStep

(* A handler ends: its answer sets a cookie, its account may have changed, *)
(* and what was revoked is past.                                           *)
LEMMA FinishStep ==
    ASSUME IInv, NEW b \in Browsers, UNCHANGED late, account' \in [Usernames -> Account], Grows,
           work' = [work EXCEPT ![b] = NoHandler], cookie' = [cookie EXCEPT ![b] = cookie'[b]],
           IsSession(cookie'[b]), cookie'[b].kind = "mfa" => cookie'[b].name \in Usernames,
           cookie'[b].kind = "in" => \/ cookie'[b] \in Held
                                     \/ Known(cookie[b].name, cookie[b].uid, cookie[b].epoch)',
           \A s \in revoked' : s \in revoked \/ Past(s)'
    PROVE  IInv'
<1>1. /\ IsOn(work)' /\ IsOn(cookie)' /\ work'[b] = NoHandler
      /\ \A c \in Browsers \ {b} : work'[c] = work[c] /\ cookie'[c] = cookie[c]
  BY DEF IInv, Shape, IsOn
<1>2. Shape'
  BY <1>1, Constants DEF IInv, Shape, IsOn, IsSession
<1>3. ASSUME NEW s \in Held' PROVE s \in Held \/ Known(s.name, s.uid, s.epoch)'
  <2>1. PICK c \in Browsers : s \in {cookie'[c], late[c], work'[c].session} /\ s.kind = "in"
    BY DEF Held
  <2>2. CASE s = cookie'[b]
    BY <2>1, <2>2 DEF Known, Is, Here
  <2>4. CASE s = late[b]
    BY <2>1, <2>4, OfBrowser
  <2>5. CASE s = work'[b].session
    BY <1>1, <2>1, <2>5, Constants
  <2>3. CASE c # b
    BY <1>1, <2>1, <2>3, OfBrowser
  <2> QED BY <2>1, <2>2, <2>3, <2>4, <2>5
<1> QED BY <1>1, <1>2, <1>3, Constants, StepIInv

(* The same when the answer sets the cookie the handler's request came with. *)
LEMMA OwnCookieStep ==
    ASSUME IInv, NEW b \in Browsers, UNCHANGED late, account' \in [Usernames -> Account], Grows,
           work' = [work EXCEPT ![b] = NoHandler], cookie' = [cookie EXCEPT ![b] = work[b].session],
           work[b].op \in {"own", "set", "delete"},
           \A s \in revoked' : s \in revoked \/ Past(s)'
    PROVE  IInv'
<1>1. cookie'[b] = work[b].session /\ work[b].session.kind = "in"
  BY DEF IInv, Shape, IsOn, WorkKnown
<1> QED BY <1>1, OfBrowser, FinishStep

LEMMA RefusedIInv == ASSUME IInv, NEW b \in Browsers, Refused(b) PROVE IInv'
<1> USE DEF Refused
<1>1. cookie'[b] = IF work[b].session.kind = "in" THEN work[b].session ELSE cookie[b]
  BY DEF IInv, Shape, IsOn
<1>2. cookie' = [cookie EXCEPT ![b] = cookie'[b]]
  BY <1>1 DEF IInv, Shape, IsOn
<1> QED BY <1>1, <1>2, Same, OfBrowser, FinishStep

LEMMA InviteIInv == ASSUME IInv, NEW b \in Browsers, Invite(b) PROVE IInv'
BY Same, OwnCookieStep DEF Invite

LEMMA ResolveIInv == ASSUME IInv, NEW b \in Browsers, NEW how, Resolve(b, how) PROVE IInv'
BY Same, OwnCookieStep DEF Resolve

LEMMA SetMfaIInv == ASSUME IInv, NEW b \in Browsers, NEW on \in BOOLEAN, SetMfa(b, on)
                    PROVE  IInv'
<1> DEFINE n == work[b].name
           a == [account[n] EXCEPT !.mfa = on]
<1>1. n \in Usernames /\ work[b].op \in {"own", "set"}
  BY DEF SetMfa, IInv, WorkKnown
<1>2. account[n] \in Account
  BY <1>1 DEF IInv, Shape
<1>3. /\ a \in Account /\ a.here = account[n].here
      /\ a.uid = account[n].uid /\ a.epoch = account[n].epoch
  BY <1>2 DEF Account
<1> HIDE DEF a
<1>4. account' = [account EXCEPT ![n] = a]
  BY <1>1 DEF SetMfa, IInv, Shape, a
<1> QED BY <1>1, <1>3, <1>4, SameAccount, OwnCookieStep DEF SetMfa

LEMMA LoginWrongIInv == ASSUME IInv, NEW b \in Browsers, LoginWrong(b) PROVE IInv'
<1> DEFINE n == work[b].name
<1>1. n \in Usernames /\ work[b].fails \in Nat
  BY DEF LoginWrong, IInv, Shape, WorkKnown
<1>2. account' = Failed(n, work[b].uid, work[b].fails)
  BY DEF LoginWrong
<1>3. account' \in [Usernames -> Account] /\ Grows
  BY <1>1, <1>2, FailedGrows
<1>4. cookie' = [cookie EXCEPT ![b] = cookie'[b]] /\ cookie'[b] = cookie[b]
  BY OfBrowser DEF LoginWrong
<1> QED BY <1>3, <1>4, OfBrowser, FinishStep DEF LoginWrong

LEMMA LoginEndIInv == ASSUME IInv, NEW b \in Browsers, LoginEnd(b) PROVE IInv'
<1> DEFINE n == work[b].name
           u == IF work[b].fails > 0 THEN account[n].uid ELSE work[b].uid
           e == IF work[b].fails > 0 THEN account[n].epoch ELSE work[b].epoch
<1>1. /\ n \in Usernames /\ account[n].epoch \in Nat /\ account[n].uid \in Nat
      /\ Known(n, work[b].uid, work[b].epoch)
      /\ work[b].uid \in Nat /\ work[b].epoch \in Nat
  BY DEF LoginEnd, IInv, Shape, WorkKnown, Account
<1>2. u \in Nat /\ e \in Nat /\ Known(n, u, e)
  BY <1>1 DEF Known
<1>3. /\ account' \in [Usernames -> Account] /\ Grows /\ account'[n].here = account[n].here
      /\ account'[n].uid = account[n].uid /\ account'[n].epoch = account[n].epoch
  <2>1. CASE ~(work[b].fails > 0)
    BY <2>1, Same DEF LoginEnd
  <2>2. CASE work[b].fails > 0
    <3>1. account' = [account EXCEPT ![n] = [account[n] EXCEPT !.fails = 0, !.locked = FALSE]]
      BY <1>1, <2>2 DEF LoginEnd, IInv, Shape
    <3> QED BY <1>1, <3>1, FailsGrow
  <2> QED BY <2>1, <2>2
<1>4. PICK c : /\ cookie' = [cookie EXCEPT ![b] = c]
               /\ \/ c = Session("mfa", n, u, 0, 0)
                  \/ c = Session("in", n, u, e, opened + 1)
  BY DEF LoginEnd, Establish
<1> HIDE DEF u, e
<1>5. cookie'[b] = c /\ cookie' = [cookie EXCEPT ![b] = cookie'[b]]
  BY <1>4 DEF IInv, Shape, IsOn
<1>6. /\ IsSession(c) /\ c.name = n /\ c.kind \in {"mfa", "in"} /\ c.uid = u
      /\ c.kind = "in" => c.epoch = e
  BY <1>2, <1>4, SessionFacts
<1>7. c.kind = "in" => Known(cookie[b].name, cookie[b].uid, cookie[b].epoch)'
  BY <1>1, <1>2, <1>3, <1>5, <1>6 DEF Known, Is, Here
<1> QED BY <1>1, <1>3, <1>5, <1>6, <1>7, FinishStep DEF LoginEnd

(* A name is given, for the first time or again.                           *)
LEMMA NewAccount ==
    ASSUME IInv, NEW n \in Usernames, account' = Given(n)
    PROVE  /\ account' \in [Usernames -> Account] /\ Grows
           /\ account'[n].uid = account[n].uid + 1 /\ account'[n].epoch = 1
<1>1. account[n].uid \in Nat
  BY DEF IInv, Shape, Account
<1> DEFINE a == Row(TRUE, account[n].uid + 1, 1)
<1>2. a \in Account /\ a.uid = account[n].uid + 1 /\ a.epoch = 1
  BY <1>1 DEF Account, Row
<1>3. account'[n] = a /\ account' = [account EXCEPT ![n] = account'[n]]
  BY DEF IInv, Shape, Given
<1> HIDE DEF a
<1> QED BY <1>1, <1>2, <1>3, AccountChange

LEMMA JoinEndIInv == ASSUME IInv, NEW b \in Browsers, JoinEnd(b) PROVE IInv'
<1> DEFINE n == work[b].name
<1>1. n \in Usernames /\ account[n].uid + 1 \in Nat
  BY DEF JoinEnd, IInv, WorkKnown, Shape, Account
<1>2. /\ account' \in [Usernames -> Account] /\ Grows
      /\ account'[n].uid = account[n].uid + 1 /\ account'[n].epoch = 1
  BY <1>1, NewAccount DEF JoinEnd
<1>3. /\ cookie'[b] = Session("in", n, account[n].uid + 1, 1, opened + 1)
      /\ cookie' = [cookie EXCEPT ![b] = cookie'[b]]
  BY DEF JoinEnd, Establish, IInv, Shape, IsOn
<1>4. /\ IsSession(cookie'[b]) /\ cookie'[b].kind = "in" /\ cookie'[b].name = n
      /\ cookie'[b].uid = account[n].uid + 1 /\ cookie'[b].epoch = 1
  BY <1>1, <1>3, SessionFacts
<1>5. Known(cookie[b].name, cookie[b].uid, cookie[b].epoch)'
  BY <1>1, <1>2, <1>4 DEF Known, Is
<1> QED BY <1>2, <1>3, <1>4, <1>5, FinishStep DEF JoinEnd

LEMMA CreateIInv == ASSUME IInv, NEW b \in Browsers, NEW n \in Usernames, Create(b, n) PROVE IInv'
<1>1. account' \in [Usernames -> Account] /\ Grows
  BY NewAccount DEF Create
<1> QED BY <1>1, OwnCookieStep DEF Create

(* A password changes, or an account is deleted: its sessions are behind.  *)
LEMMA RevokePast ==
    ASSUME IInv, NEW n \in Usernames, Revoke(n), account' \in [Usernames -> Account], Grows,
           account'[n].uid = account[n].uid,
           account'[n].here => account[n].epoch < account'[n].epoch
    PROVE  \A s \in revoked' : s \in revoked \/ Past(s)'
<1> SUFFICES ASSUME NEW s \in Held, s.name = n PROVE Past(s)'
  BY DEF Revoke
<1>1. Known(s.name, s.uid, s.epoch) /\ s.uid \in Nat /\ s.epoch \in Nat
  BY DEF IInv, HeldKnown, Shape, Held, IsSession
<1>2. /\ account[n].epoch \in Nat /\ account'[n].epoch \in Nat
      /\ account[n].uid \in Nat /\ account'[n].here => account[n].here
  BY DEF IInv, Shape, Account, Grows
<1> QED BY <1>1, <1>2 DEF Known, Past, Is, Here

Renew(x, e, f, l) == [x EXCEPT !.epoch = e, !.fails = f, !.locked = l]

LEMMA Renewed ==
    ASSUME NEW x \in Account, NEW e \in Nat, NEW f \in Nat, NEW l \in BOOLEAN
    PROVE  /\ Renew(x, e, f, l) \in Account /\ Renew(x, e, f, l).here = x.here
           /\ Renew(x, e, f, l).uid = x.uid /\ Renew(x, e, f, l).epoch = e
BY DEF Account, Renew

(* A new password, with or without the lockout cleared.                    *)
LEMMA Passworded ==
    ASSUME IInv, NEW n \in Usernames, Here(n), Revoke(n), NEW f \in Nat, NEW l \in BOOLEAN,
           account' = [account EXCEPT ![n] = account'[n]],
           account'[n] = Renew(account[n], account[n].epoch + 1, f, l)
    PROVE  /\ account' \in [Usernames -> Account] /\ Grows
           /\ account'[n].uid = account[n].uid /\ account'[n].epoch = account[n].epoch + 1
           /\ \A s \in revoked' : s \in revoked \/ Past(s)'
<1>1. account[n] \in Account /\ account[n].epoch \in Nat /\ account[n].uid \in Nat
      /\ account[n].here
  BY DEF IInv, Shape, Account, Here
<1> DEFINE e == account[n].epoch + 1
<1>2. e \in Nat /\ account'[n] = Renew(account[n], e, f, l)
  BY <1>1
<1>3. /\ account'[n] \in Account /\ account'[n].uid = account[n].uid /\ account'[n].epoch = e
      /\ account'[n].here = account[n].here
  <2> HIDE DEF e
  <2>1. /\ Renew(account[n], e, f, l) \in Account
        /\ Renew(account[n], e, f, l).here = account[n].here
        /\ Renew(account[n], e, f, l).uid = account[n].uid
        /\ Renew(account[n], e, f, l).epoch = e
    <3>1. account[n] \in Account /\ e \in Nat /\ f \in Nat /\ l \in BOOLEAN
      BY <1>1, <1>2
    <3> QED BY ONLY <3>1, Renewed
  <2> QED BY ONLY <1>2, <2>1
<1>4. account[n].uid <= account'[n].uid /\ account[n].epoch < account'[n].epoch
      /\ account[n].epoch <= account'[n].epoch
  BY <1>1, <1>3
<1>5. account' \in [Usernames -> Account] /\ Grows
  BY <1>1, <1>3, <1>4, AccountChange
<1> QED BY <1>3, <1>4, <1>5, RevokePast

LEMMA ChangeOwnIInv == ASSUME IInv, NEW b \in Browsers, ChangeOwn(b) PROVE IInv'
<1> DEFINE n == work[b].name
<1>1. /\ n \in Usernames /\ work[b].session.name = n /\ work[b].session.kind = "in"
      /\ work[b].session.uid <= work[b].uid /\ work[b].uid \in Nat /\ work[b].epoch \in Nat
      /\ Known(n, work[b].uid, work[b].epoch)
  BY DEF ChangeOwn, IInv, Shape, WorkKnown
<1>2. account[n] \in Account /\ account[n].fails \in Nat /\ account[n].locked \in BOOLEAN
      /\ account[n].epoch \in Nat /\ account[n].uid \in Nat
  BY <1>1 DEF IInv, Shape, Account
<1>3. /\ account' \in [Usernames -> Account] /\ Grows
      /\ account'[n].uid = account[n].uid
      /\ IF Here(n) THEN account'[n].epoch = account[n].epoch + 1 ELSE ~account'[n].here
      /\ \A s \in revoked' : s \in revoked \/ Past(s)'
  <2>1. CASE Here(n)
    <3>1. account' = [account EXCEPT ![n] = account'[n]]
          /\ account'[n] = [account[n] EXCEPT !.epoch = account[n].epoch + 1]
      BY <1>1, <2>1 DEF ChangeOwn, IInv, Shape
    <3>2. account'[n] = Renew(account[n], account[n].epoch + 1, account[n].fails,
                              account[n].locked)
      BY <1>2, <3>1 DEF Account, Renew
    <3>3. Revoke(n)
      BY <2>1 DEF ChangeOwn
    <3> QED BY ZenonT(60), <1>1, <1>2, <2>1, <3>1, <3>2, <3>3, Passworded
  <2>2. CASE ~Here(n)
    BY <2>2, Same DEF ChangeOwn, Here
  <2> QED BY <2>1, <2>2
<1>4. /\ cookie'[b] = [work[b].session EXCEPT !.epoch = work[b].epoch + 1]
      /\ cookie' = [cookie EXCEPT ![b] = cookie'[b]]
  BY DEF ChangeOwn, IInv, Shape, IsOn
<1>5. IsSession(work[b].session) /\ work[b].session.uid \in Nat
  BY OfBrowser DEF IsSession
<1>6. /\ IsSession(cookie'[b]) /\ cookie'[b].kind = "in" /\ cookie'[b].name = n
      /\ cookie'[b].uid = work[b].session.uid /\ cookie'[b].epoch = work[b].epoch + 1
  BY <1>1, <1>4, <1>5 DEF IsSession, Session
<1>7. Known(cookie[b].name, cookie[b].uid, cookie[b].epoch)'
  BY <1>1, <1>2, <1>3, <1>5, <1>6 DEF Known, Is, Here
<1> QED BY <1>3, <1>4, <1>6, <1>7, FinishStep DEF ChangeOwn

LEMMA NewPasswordIs ==
    ASSUME IInv, NEW n \in Usernames, account' = NewPassword(n)
    PROVE  /\ account' = [account EXCEPT ![n] = account'[n]]
           /\ account'[n] = Renew(account[n], account[n].epoch + 1, 0, FALSE)
BY DEF NewPassword, Renew, IInv, Shape, Account

LEMMA SetPasswordIInv == ASSUME IInv, NEW b \in Browsers, SetPassword(b) PROVE IInv'
<1> DEFINE n == work[b].name
<1>1. n \in Usernames /\ Here(n) /\ Revoke(n)
  BY DEF SetPassword, IInv, WorkKnown, Is
<1>2. /\ account' \in [Usernames -> Account] /\ Grows
      /\ \A s \in revoked' : s \in revoked \/ Past(s)'
  BY <1>1, NewPasswordIs, Passworded DEF SetPassword
<1> QED BY <1>2, OwnCookieStep DEF SetPassword

LEMMA ResetEndIInv == ASSUME IInv, NEW b \in Browsers, ResetEnd(b) PROVE IInv'
<1> DEFINE n == work[b].name
<1>1. n \in Usernames /\ Revoke(n)
  BY DEF ResetEnd, IInv, WorkKnown
<1>2. /\ account' \in [Usernames -> Account] /\ Grows
      /\ \A s \in revoked' : s \in revoked \/ Past(s)'
  <2>1. CASE Here(n)
    BY <1>1, <2>1, NewPasswordIs, Passworded DEF ResetEnd
  <2>2. CASE ~Here(n)
    <3>1. UNCHANGED account
      BY <2>2 DEF ResetEnd
    <3>2. account' \in [Usernames -> Account] /\ Grows
      BY <3>1, Same
    <3> QED BY <1>1, <2>2, <3>1, <3>2, RevokePast DEF Here
  <2> QED BY <2>1, <2>2
<1>3. cookie' = [cookie EXCEPT ![b] = cookie'[b]] /\ cookie'[b] = cookie[b]
  BY OfBrowser DEF ResetEnd
<1> QED BY <1>2, <1>3, OfBrowser, FinishStep DEF ResetEnd

LEMMA DeleteIInv == ASSUME IInv, NEW b \in Browsers, Delete(b) PROVE IInv'
<1> DEFINE n == work[b].name
           a == [account[n] EXCEPT !.here = FALSE]
<1>1. n \in Usernames /\ Revoke(n)
  BY DEF Delete, IInv, WorkKnown
<1>2. account[n] \in Account /\ account[n].uid \in Nat
  BY <1>1 DEF IInv, Shape, Account
<1>3. a \in Account /\ a.here = FALSE /\ a.uid = account[n].uid
  BY <1>2 DEF Account
<1>4. account'[n] = a /\ account' = [account EXCEPT ![n] = account'[n]]
  BY <1>1 DEF Delete, IInv, Shape
<1> HIDE DEF a
<1>5. /\ account' \in [Usernames -> Account] /\ Grows
      /\ account'[n].uid = account[n].uid /\ ~account'[n].here
  BY <1>1, <1>2, <1>3, <1>4, AccountChange
<1>6. \A s \in revoked' : s \in revoked \/ Past(s)'
  BY <1>1, <1>5, RevokePast
<1> QED BY <1>5, <1>6, OwnCookieStep DEF Delete

LEMMA OtherIInv == ASSUME IInv, NEW b \in Browsers, Other(b) PROVE IInv'
BY PollExpiredIInv, AnsweredIInv, LogoutIInv, LoginEndIInv, LoginWrongIInv, SecondStepIInv,
   SecondStepWrongIInv, JoinEndIInv, RefusedIInv, ChangeOwnIInv, SetPasswordIInv, DeleteIInv,
   InviteIInv, ResetEndIInv, SetMfaIInv, ResolveIInv, CreateIInv DEF Other

LEMMA NextIInv == ASSUME IInv, [AccountsNext]_accountVars PROVE IInv'
<1>1. CASE UNCHANGED accountVars
  BY <1>1, Same, AccountStep DEF accountVars
<1>2. ASSUME NEW b \in Browsers, Poll(b) \/ Begins(b) \/ Enters(b) PROVE IInv'
  <2>1. CASE Poll(b)
    BY <2>1, PollIInv
  <2>2. CASE Begins(b)
    <3>1. ASSUME NEW n \in Usernames, Begin(b, "set", n) \/ Begin(b, "delete", n) PROVE IInv'
      BY <3>1, BeginIInv
    <3>2. ASSUME Begin(b, "own", cookie[b].name) PROVE IInv'
      <4>1. cookie[b].kind = "in" /\ cookie[b] \in Held
        BY <3>2, OfBrowser DEF Begin, Current
      <4>2. cookie[b].name \in Usernames
        BY <4>1 DEF IInv, HeldKnown, Known
      <4> QED BY <3>2, <4>2, BeginIInv
    <3> QED BY <2>2, <3>1, <3>2 DEF Begins
  <2>3. CASE Enters(b)
    BY <2>3, LoginBeginIInv, EnterIInv DEF Enters
  <2> QED BY <1>2, <2>1, <2>2, <2>3
<1>3. ASSUME NEW n \in Usernames, Forgot(n) PROVE IInv'
  BY <1>3, HousekeepingIInv
<1>4. CASE Housekeeping
  BY <1>4, HousekeepingIInv, LockEndsIInv DEF Housekeeping
<1>5. ASSUME NEW b \in Browsers, Other(b) PROVE IInv'
  BY <1>5, OtherIInv
<1> QED BY <1>1, <1>2, <1>3, <1>4, <1>5 DEF AccountsNext

(* Sessions and accounts stay in step, however often a name is given        *)
(* again: no open session and no reading is ahead of the account it is of, *)
(* and what was revoked is behind that account for good, or it is gone.    *)
THEOREM SessionsInStep == AccountsSpec => []IInv
<1>1. IInv /\ [AccountsNext]_accountVars => IInv'
  BY NextIInv
<1> QED BY <1>1, InitIInv, PTL DEF AccountsSpec

(* check_auth never lets in a session that existed when its account        *)
(* changed its password or left, however late answers bring its cookie     *)
(* back and however many handlers overlap, unless the name has been given   *)
(* to another account since.                                               *)
THEOREM RevokedAlwaysOut == AccountsSpec => RevokedStaysOut
<1>1. IInv => LetsIn
  <2> SUFFICES ASSUME IInv, NEW b \in Browsers, Poll(b) \/ Begins(b), cookie[b] \in revoked
               PROVE  Another(cookie[b])
    BY DEF LetsIn
  <2>1. Current(cookie[b])
    BY DEF Begins, Begin, Poll
  <2>2. Past(cookie[b])
    BY DEF IInv, RevokedPast
  <2>3. account[cookie[b].name].epoch \in Nat
    BY <2>2 DEF IInv, Shape, Account, Past
  <2> QED BY <2>1, <2>2, <2>3 DEF Current, Here, Is, Past, Another
<1> QED BY <1>1, SessionsInStep, PTL DEF RevokedStaysOut

-----------------------------------------------------------------------------
(* The announcement of a weather alert.                                    *)

(* While an alert is awaited nobody has stopped it since the last tick.    *)
Counted == /\ nws.listed <=> nws.left > 0
           /\ wait > 0 => nws.listed /\ Awaited

(* What the poller has read in its pass holds while an alert is awaited:   *)
(* whatever makes it untrue starts the count anew.                         *)
PassKnows ==
    /\ poll.pc # "sleep" => poll.sleep = 0
    /\ poll.pc \in {"inactive", "prune"} => wait = 0
    /\ poll.pc # "sleep" /\ wait > 0 => poll.cfg = "on"
    /\ poll.pc = "sync" /\ wait > 0 => poll.key > 0
    /\ poll.pc \in {"insert", "update"} => poll.key > 0
    /\ poll.pc = "update" /\ wait > 0 => row.there
    /\ poll.pc = "insert" => ~row.there /\ sound
    /\ poll.pc = "expire" /\ row.there => row.life = 0

(* A row lasts its grace beyond its alert, and its file as long as it does *)
(* unless it is being taken down; a request and a snapshot are about it.   *)
RowKept ==
    /\ row.there => row.life >= row.exp /\ (row.exp > 0 => row.life >= row.exp + Grace)
    /\ row.there /\ ~sound => admin = "delete" \/ poll.pc \in {"expire", "prune"}
    /\ admin \in {"edit", "update", "delete"} => row.there
    /\ sched.own => row.there /\ sched.pc \in {"seen", "fire"}

(* The poller's next pass comes in time, unless the last one left a row    *)
(* that outlives the sleep after it.                                       *)
Polled == wait > 0 => wait + poll.sleep <= MaxSleep \/ (row.there /\ row.life > poll.sleep)

(* A row's age when it is played at the latest, and that it is played then. *)
Ripe == Most(1, IF row.played THEN Interval + MaxDefer ELSE MaxDefer)
Waits == wait > 0 /\ row.there /\ poll.pc # "expire"
Played == Waits => /\ wait <= (IF row.played THEN 0 ELSE MaxSleep) + Cap(row.age, Ripe)
                   /\ row.age >= Ripe => sched.pc = "due" \/ sched.own

(* A row that is over is met by the next pass, which takes it down.        *)
TakenDown ==
    /\ over.life > 0 => /\ row.there /\ row.life = 0 /\ poll.pc \in {"sleep", "expire"}
                        /\ over.life + poll.sleep <= MaxSleep
    /\ over.gone > 0 => /\ row.there /\ ~nws.listed /\ nws.up /\ cfg # "off"
                        /\ poll.pc \in {"sleep", "expire", "fetch", "inactive", "prune"}
                        /\ poll.pc \in {"expire", "fetch"} => poll.cfg # "off"
                        /\ over.gone + poll.sleep <= MaxSleep

AlertsInv == /\ AlertsTypeOK /\ Counted /\ PassKnows /\ RowKept /\ Polled /\ Played /\ TakenDown

LEMMA Bounds ==
    /\ Longest \in Nat /\ 0 \in 0..(Longest + 1)
    /\ \A n \in 0..(Longest + 1) : Cap(n + 1, Longest + 1) \in 0..(Longest + 1)
    /\ [life |-> 0, gone |-> 0] \in [life : 0..Late, gone : 0..Late]
<1>1. Longest \in Nat /\ Late \in Nat
  BY AnnouncerConstants DEF Longest, Late, Most
<1> QED BY <1>1 DEF Cap

(* What a row that is there holds.                                         *)
LEMMA RowThere ==
    ASSUME AlertsTypeOK, row.there
    PROVE  /\ row \in Rows /\ row.enabled \in BOOLEAN /\ row.kept \in BOOLEAN
           /\ row.played \in BOOLEAN
           /\ row.exp \in Nat /\ row.life \in Nat
           /\ row.age \in Nat /\ row.age <= Interval + MaxDefer
<1>1. row \in Rows
  BY DEF AlertsTypeOK, NoRow
<1>2. /\ row.enabled \in BOOLEAN /\ row.kept \in BOOLEAN
      /\ row.played \in BOOLEAN /\ row.exp \in 0..Term
      /\ row.life \in 0..(Term + Grace) /\ row.age \in 0..(Interval + MaxDefer)
  BY <1>1 DEF Rows
<1> QED BY <1>1, <1>2

(* A pass that did not fail ends in the base interval, any in one at most  *)
(* MaxSleep.                                                               *)
LEMMA Sleeps ==
    ASSUME AlertsTypeOK, NEW l \in 0..6, Sleep(l)
    PROVE  /\ poll' \in Passes /\ poll'.pc = "sleep" /\ poll'.key = 0
           /\ poll'.sleep \in 1..MaxSleep /\ (l = 0 => poll'.sleep = 1)
<1>1. l = 0 \/ l = 1 \/ l = 2 \/ l = 3 \/ l = 4 \/ l = 5 \/ l = 6
  OBVIOUS
<1>2. Twice[l + 1] \in Nat \ {0} /\ (l = 0 => Twice[l + 1] = 1)
  BY <1>1 DEF Twice
<1>3. PICK n \in 1..MaxSleep : n = Cap(Twice[l + 1], MaxSleep) /\ (l = 0 => n = 1)
  BY <1>2, AnnouncerConstants DEF Cap
<1>4. poll \in Passes /\ poll' = [poll EXCEPT !.pc = "sleep", !.level = l, !.key = 0, !.sleep = n]
  BY <1>3 DEF AlertsTypeOK, Sleep
<1>5. 0 \in 0..Term /\ n \in 0..MaxSleep
  BY <1>3, AnnouncerConstants
<1>6. poll' \in Passes
  BY <1>4, <1>5 DEF Passes
<1>7. poll'.pc = "sleep" /\ poll'.key = 0 /\ poll'.sleep = n
  BY <1>4
<1> QED BY <1>3, <1>6, <1>7

LEMMA BaseSleep ==
    ASSUME AlertsTypeOK, Sleep(0)
    PROVE  poll' \in Passes /\ poll'.pc = "sleep" /\ poll'.key = 0 /\ poll'.sleep = 1
BY Sleeps

LEMMA IssueInv == ASSUME AlertsInv, Issue PROVE AlertsInv'
<1>1. AlertsTypeOK'
  <2>1. nws' \in Services
    <3>1. Term \in 0..Term
      BY AnnouncerConstants
    <3> QED BY <3>1 DEF AlertsInv, AlertsTypeOK, Issue, Services
  <2>2. wait' \in 0..(Longest + 1)
    BY Bounds DEF AlertsInv, AlertsTypeOK, Issue
  <2>3. over' \in [life : 0..Late, gone : 0..Late]
    BY Bounds DEF AlertsInv, AlertsTypeOK, Issue
  <2>4. budget' \in Budgets
    BY AnnouncerConstants DEF AlertsInv, AlertsTypeOK, Issue, Spend, Budgets
  <2> QED BY <2>1, <2>2, <2>3, <2>4 DEF AlertsInv, AlertsTypeOK, Issue
<1>2. Counted'
  BY AnnouncerConstants DEF AlertsInv, AlertsTypeOK, Counted, Awaited, Services, Issue
<1>3. PassKnows'
  BY DEF AlertsInv, PassKnows, Issue
<1>4. RowKept'
  BY DEF AlertsInv, RowKept, Issue
<1>5. Polled'
  BY DEF AlertsInv, Polled, Issue
<1>6. Played'
  BY DEF AlertsInv, Played, Waits, Ripe, Issue
<1>7. TakenDown'
  BY DEF AlertsInv, TakenDown, Issue
<1> QED BY <1>1, <1>2, <1>3, <1>4, <1>5, <1>6, <1>7 DEF AlertsInv

LEMMA CancelInv == ASSUME AlertsInv, Cancel PROVE AlertsInv'
<1>1. AlertsTypeOK'
  <2>1. nws' \in Services
    <3>1. 0 \in 0..Term
      BY AnnouncerConstants
    <3> QED BY <3>1 DEF AlertsInv, AlertsTypeOK, Cancel, Services
  <2>2. wait' \in 0..(Longest + 1)
    BY Bounds DEF Cancel
  <2> QED BY <2>1, <2>2 DEF AlertsInv, AlertsTypeOK, Cancel
<1>2. Counted'
  BY DEF Counted, Cancel
<1>3. PassKnows'
  BY DEF AlertsInv, PassKnows, Cancel
<1>4. RowKept'
  BY DEF AlertsInv, RowKept, Cancel
<1>5. Polled'
  BY DEF Polled, Cancel
<1>6. Played'
  BY DEF Played, Waits, Cancel
<1>7. TakenDown'
  BY DEF AlertsInv, TakenDown, Cancel
<1> QED BY <1>1, <1>2, <1>3, <1>4, <1>5, <1>6, <1>7 DEF AlertsInv

LEMMA UpOrDownInv == ASSUME AlertsInv, UpOrDown PROVE AlertsInv'
<1>1. AlertsTypeOK'
  BY Bounds DEF AlertsInv, AlertsTypeOK, UpOrDown, Services
<1>2. Counted'
  BY DEF AlertsInv, Counted, UpOrDown
<1>3. PassKnows'
  BY DEF AlertsInv, PassKnows, UpOrDown
<1>4. RowKept'
  BY DEF AlertsInv, RowKept, UpOrDown
<1>5. Polled'
  BY DEF Polled, UpOrDown
<1>6. Played'
  BY DEF Played, Waits, UpOrDown
<1>7. TakenDown'
  BY DEF AlertsInv, TakenDown, UpOrDown
<1> QED BY <1>1, <1>2, <1>3, <1>4, <1>5, <1>6, <1>7 DEF AlertsInv

(* What a tick does to the row, the poller and the scheduler.              *)
LEMMA TickRow ==
    ASSUME AlertsInv, AlertsTick
    PROVE  /\ row'.there = row.there
           /\ sched.pc = "done" /\ ~sched.own /\ sched'.pc = "due" /\ ~sched'.own
           /\ poll.pc = "sleep" /\ poll'.pc = "sleep" /\ poll.sleep \in 1..MaxSleep
           /\ poll'.sleep = poll.sleep - 1
           /\ row.there => /\ row'.life = Less(row.life) /\ row'.exp = Less(row.exp)
                           /\ row'.age = Cap(row.age + 1, Interval + MaxDefer)
                           /\ row'.enabled = row.enabled /\ row'.kept = row.kept
                           /\ row'.played = row.played
                           /\ row.life \in Nat /\ row.exp \in Nat /\ row.age \in Nat
                           /\ row.age <= Interval + MaxDefer /\ row.played \in BOOLEAN
<1>1. /\ sched.pc = "done" /\ ~sched.own /\ sched'.pc = "due" /\ ~sched'.own
      /\ poll.pc = "sleep" /\ poll'.pc = "sleep" /\ poll'.sleep = poll.sleep - 1
  BY DEF AlertsInv, AlertsTick, At, RowKept
<1>2. poll.sleep \in 1..MaxSleep
  BY DEF AlertsInv, AlertsTypeOK, AlertsTick, Passes
<1>3. CASE row.there
  <2>1. row' = [row EXCEPT !.life = Less(@), !.exp = Less(@),
                           !.age = Cap(@ + 1, Interval + MaxDefer)]
    BY <1>3 DEF AlertsTick, Older
  <2>2. row \in Rows
    BY <1>3, RowThere DEF AlertsInv
  <2>3. /\ row'.there = row.there /\ row'.life = Less(row.life) /\ row'.exp = Less(row.exp)
        /\ row'.age = Cap(row.age + 1, Interval + MaxDefer)
        /\ row'.enabled = row.enabled /\ row'.kept = row.kept /\ row'.played = row.played
    BY <2>1, <2>2
  <2> QED BY <1>1, <1>2, <1>3, <2>3, RowThere DEF AlertsInv
<1>4. CASE ~row.there
  BY <1>1, <1>2, <1>4 DEF AlertsTick, Older
<1> QED BY <1>3, <1>4

LEMMA TickWait ==
    ASSUME AlertsInv, AlertsTick
    PROVE  /\ wait \in Nat /\ wait' \in Nat /\ wait' <= wait + 1
           /\ wait' > 0 /\ row.there => row.enabled
BY Bounds DEF AlertsInv, AlertsTypeOK, AlertsTick, Older, Awaited, Cap

LEMMA AlertsTickInv == ASSUME AlertsInv, AlertsTick PROVE AlertsInv'
<1>1. AlertsTypeOK'
  <2>1. nws' \in Services
    <3>1. nws.left \in 0..Term /\ Less(nws.left) \in 0..Term
      BY AnnouncerConstants DEF AlertsInv, AlertsTypeOK, Services, Less
    <3>2. nws \in Services /\ nws' = [nws EXCEPT !.left = Less(nws.left), !.listed = nws.left > 1]
      BY DEF AlertsInv, AlertsTypeOK, AlertsTick, Older
    <3>3. (nws.left > 1) = TRUE \/ (nws.left > 1) = FALSE
      BY <3>1
    <3> QED BY <3>1, <3>2, <3>3 DEF Services
  <2>2. row' \in {NoRow} \cup Rows
    <3>1. CASE row.there
      <4>1. row \in Rows
        BY <3>1, RowThere DEF AlertsInv
      <4>2. /\ \A n \in 0..Term : Less(n) \in 0..Term
            /\ \A n \in 0..(Term + Grace) : Less(n) \in 0..(Term + Grace)
            /\ \A n \in 0..(Interval + MaxDefer) :
                  Cap(n + 1, Interval + MaxDefer) \in 0..(Interval + MaxDefer)
        BY AnnouncerConstants DEF Less, Cap
      <4> QED BY <3>1, <4>1, <4>2 DEF AlertsTick, Older, Rows
    <3>2. CASE ~row.there
      BY <3>2 DEF AlertsInv, AlertsTypeOK, AlertsTick, Older
    <3> QED BY <3>1, <3>2
  <2>3. poll' \in Passes
    BY AnnouncerConstants DEF AlertsInv, AlertsTypeOK, AlertsTick, Passes
  <2>4. sched' \in Cycles
    BY DEF AlertsInv, AlertsTypeOK, AlertsTick, At, Cycles
  <2>5. over' \in [life : 0..Late, gone : 0..Late]
    BY AnnouncerConstants DEF AlertsInv, AlertsTypeOK, AlertsTick, Older, Cap, Late
  <2>6. wait' \in 0..(Longest + 1)
    BY Bounds DEF AlertsInv, AlertsTypeOK, AlertsTick, Older
  <2> QED BY <2>1, <2>2, <2>3, <2>4, <2>5, <2>6 DEF AlertsInv, AlertsTypeOK, AlertsTick
<1>2. Counted'
  BY DEF AlertsInv, AlertsTypeOK, Counted, RowKept, Awaited, Services, Cycles, AlertsTick,
     Older, Less
<1>3. PassKnows'
  BY DEF PassKnows, AlertsTick
<1>4. RowKept'
  <2>1. row'.there => row'.life >= row'.exp /\ (row'.exp > 0 => row'.life >= row'.exp + Grace)
    <3>1. CASE row.there
      BY <3>1, TickRow, AnnouncerConstants DEF AlertsInv, RowKept, Less
    <3> QED BY <3>1, TickRow
  <2> QED BY <2>1, TickRow DEF AlertsInv, RowKept, AlertsTick
<1>5. Polled'
  <2> SUFFICES ASSUME wait' > 0
               PROVE  wait' + poll'.sleep <= MaxSleep \/ (row'.there /\ row'.life > poll'.sleep)
    BY DEF Polled
  <2>1. CASE wait = 0
    BY <2>1, TickRow, TickWait
  <2>2. CASE wait > 0
    BY <2>2, TickRow, TickWait, AnnouncerConstants DEF AlertsInv, Polled, Less
  <2> QED BY <2>1, <2>2, TickWait
<1>6. Played'
  <2> SUFFICES ASSUME Waits'
               PROVE  wait' <= (IF row'.played THEN 0 ELSE MaxSleep) + Cap(row'.age, Ripe')
    BY TickRow DEF Played
  <2>1. wait' > 0 /\ row.there /\ row'.there
    BY TickRow DEF Waits
  <2>2. Ripe' = Ripe /\ Ripe \in Nat \ {0} /\ Ripe <= Interval + MaxDefer
    BY <2>1, TickRow, AnnouncerConstants DEF Ripe, Most
  <2>3. CASE wait = 0
    BY <2>1, <2>2, <2>3, TickRow, TickWait, AnnouncerConstants DEF Cap
  <2>4. CASE wait > 0
    <3>1. wait <= (IF row.played THEN 0 ELSE MaxSleep) + Cap(row.age, Ripe) /\ row.age < Ripe
      BY <2>1, <2>2, <2>4, TickRow DEF AlertsInv, Played, Waits
    <3>2. /\ row.age \in Nat /\ row.age <= Interval + MaxDefer
          /\ row'.played = row.played /\ row.played \in BOOLEAN
      BY <2>1, TickRow
    <3>3. row'.age = row.age + 1
      BY <2>1, <2>2, <3>1, <3>2, TickRow, AnnouncerConstants DEF Cap
    <3>4. Cap(row.age, Ripe) = row.age /\ Cap(row'.age, Ripe') = row.age + 1
      BY <2>2, <3>1, <3>2, <3>3 DEF Cap
    <3>5. wait <= (IF row.played THEN 0 ELSE MaxSleep) + row.age
      BY <3>1, <3>4
    <3>6. wait \in Nat /\ wait' \in Nat /\ wait' <= wait + 1
      BY <2>1, TickWait
    <3> QED BY <3>2, <3>4, <3>5, <3>6, AnnouncerConstants
  <2> QED BY <2>1, <2>3, <2>4, TickWait
<1>7. TakenDown'
  BY AnnouncerConstants DEF AlertsInv, AlertsTypeOK, Counted, TakenDown, Cap, Services,
     Passes, Late, AlertsTick, Older, Less
<1> QED BY <1>1, <1>2, <1>3, <1>4, <1>5, <1>6, <1>7 DEF AlertsInv

LEMMA PollExpireInv == ASSUME AlertsInv, PollExpire PROVE AlertsInv'
<1>1. AlertsTypeOK'
  BY DEF AlertsInv, AlertsTypeOK, PollExpire, BeginAt, Passes
<1>2. Counted'
  BY DEF AlertsInv, Counted, Awaited, PollExpire
<1>3. PassKnows'
  BY DEF AlertsInv, Counted, PassKnows, Awaited, PollExpire, Expired, BeginAt
<1>4. RowKept'
  BY DEF AlertsInv, RowKept, PollExpire, BeginAt
<1>5. Polled'
  BY DEF AlertsInv, Polled, PollExpire, BeginAt
<1>6. Played'
  BY DEF Played, Waits, PollExpire, BeginAt
<1>7. TakenDown'
  BY DEF AlertsInv, TakenDown, PollExpire, BeginAt
<1> QED BY <1>1, <1>2, <1>3, <1>4, <1>5, <1>6, <1>7 DEF AlertsInv

LEMMA PollDropExpiredInv == ASSUME AlertsInv, PollDropExpired PROVE AlertsInv'
<1>1. AlertsTypeOK'
  BY Bounds DEF AlertsInv, AlertsTypeOK, PollDropExpired, Removed, Goto, Passes, Cycles,
     Admins
<1>2. Counted'
  BY DEF AlertsInv, Counted, Awaited, NoRow, PollDropExpired, Removed
<1>3. PassKnows'
  BY DEF AlertsInv, PassKnows, PollDropExpired, Goto
<1>4. RowKept'
  BY DEF RowKept, NoRow, PollDropExpired, Removed
<1>5. Polled'
  BY DEF AlertsInv, PassKnows, Polled, PollDropExpired, Goto
<1>6. Played'
  BY DEF Played, Waits, NoRow, PollDropExpired, Removed
<1>7. TakenDown'
  BY DEF TakenDown, PollDropExpired, Removed
<1> QED BY <1>1, <1>2, <1>3, <1>4, <1>5, <1>6, <1>7 DEF AlertsInv

LEMMA PollBeginInv == ASSUME AlertsInv, PollBegin PROVE AlertsInv'
<1>1. AlertsTypeOK'
  BY DEF AlertsInv, AlertsTypeOK, PollBegin, BeginAt, Passes
<1>2. Counted'
  BY DEF AlertsInv, Counted, Awaited, PollBegin
<1>3. PassKnows'
  BY DEF AlertsInv, Counted, PassKnows, Awaited, PollBegin, BeginAt
<1>4. RowKept'
  BY DEF AlertsInv, RowKept, PollBegin
<1>5. Polled'
  BY DEF AlertsInv, Polled, PollBegin, BeginAt
<1>6. Played'
  BY DEF AlertsInv, Played, Waits, Ripe, PollBegin
<1>7. TakenDown'
  BY DEF AlertsInv, TakenDown, PollBegin, BeginAt, Expired
<1> QED BY <1>1, <1>2, <1>3, <1>4, <1>5, <1>6, <1>7 DEF AlertsInv

LEMMA PollIdleInv == ASSUME AlertsInv, PollIdle PROVE AlertsInv'
<1>0. poll' \in Passes /\ poll'.pc = "sleep" /\ poll'.key = 0 /\ poll'.sleep = 1
  BY BaseSleep DEF AlertsInv, PollIdle
<1>1. AlertsTypeOK'
  <2>1. poll' \in Passes
    BY <1>0
  <2> QED BY <2>1 DEF AlertsInv, AlertsTypeOK, PollIdle
<1>2. Counted'
  BY DEF AlertsInv, Counted, Awaited, PollIdle
<1>3. PassKnows'
  BY <1>0 DEF PassKnows
<1>4. RowKept'
  BY DEF AlertsInv, RowKept, PollIdle
<1>5. Polled'
  BY DEF AlertsInv, PassKnows, Polled, PollIdle, Fetches
<1>6. Played'
  BY DEF AlertsInv, Played, Waits, Ripe, PollIdle
<1>7. TakenDown'
  BY DEF AlertsInv, TakenDown, PollIdle, Fetches
<1> QED BY <1>1, <1>2, <1>3, <1>4, <1>5, <1>6, <1>7 DEF AlertsInv

LEMMA PollDownInv == ASSUME AlertsInv, PollDown PROVE AlertsInv'
<1>0. poll' \in Passes /\ poll'.pc = "sleep" /\ poll'.key = 0 /\ poll'.sleep \in 1..MaxSleep
  <2>1. Cap(poll.level + 1, 6) \in 0..6
    BY DEF AlertsInv, AlertsTypeOK, Passes, Cap
  <2> QED BY <2>1, Sleeps DEF AlertsInv, PollDown
<1>1. AlertsTypeOK'
  <2>1. poll' \in Passes
    BY <1>0
  <2> QED BY <2>1 DEF AlertsInv, AlertsTypeOK, PollDown
<1>2. Counted'
  BY DEF AlertsInv, Counted, Awaited, PollDown
<1>3. PassKnows'
  BY <1>0 DEF PassKnows
<1>4. RowKept'
  BY DEF AlertsInv, RowKept, PollDown
<1>5. Polled'
  BY DEF AlertsInv, Counted, Polled, Awaited, PollDown
<1>6. Played'
  BY DEF AlertsInv, Played, Waits, Ripe, PollDown
<1>7. TakenDown'
  BY DEF AlertsInv, TakenDown, PollDown
<1> QED BY <1>1, <1>2, <1>3, <1>4, <1>5, <1>6, <1>7 DEF AlertsInv

LEMMA PollFetchInv == ASSUME AlertsInv, PollFetch PROVE AlertsInv'
<1>1. AlertsTypeOK'
  <2>1. poll' \in Passes
    <3>1. nws.left \in 0..Term /\ 0 \in 0..Term
      BY AnnouncerConstants DEF AlertsInv, AlertsTypeOK, Services
    <3> QED BY <3>1 DEF AlertsInv, AlertsTypeOK, PollFetch, Passes
  <2> QED BY <2>1 DEF AlertsInv, AlertsTypeOK, PollFetch
<1>2. Counted'
  BY DEF AlertsInv, Counted, Awaited, PollFetch
<1>3. PassKnows'
  BY DEF AlertsInv, AlertsTypeOK, Counted, PassKnows, PollFetch
<1>4. RowKept'
  BY DEF AlertsInv, RowKept, PollFetch
<1>5. Polled'
  BY DEF AlertsInv, Polled, PollFetch
<1>6. Played'
  BY DEF AlertsInv, Played, Waits, Ripe, PollFetch
<1>7. TakenDown'
  BY DEF AlertsInv, TakenDown, PollFetch
<1> QED BY <1>1, <1>2, <1>3, <1>4, <1>5, <1>6, <1>7 DEF AlertsInv

LEMMA PollUnlinkInv == ASSUME AlertsInv, PollUnlink PROVE AlertsInv'
<1>1. AlertsTypeOK'
  BY DEF AlertsInv, AlertsTypeOK, PollUnlink, Goto, Passes
<1>2. Counted'
  BY DEF AlertsInv, Counted, Awaited, PollUnlink
<1>3. PassKnows'
  BY DEF AlertsInv, PassKnows, PollUnlink, Goto
<1>4. RowKept'
  BY DEF AlertsInv, RowKept, PollUnlink, Goto
<1>5. Polled'
  BY DEF AlertsInv, Polled, PollUnlink, Goto
<1>6. Played'
  BY DEF AlertsInv, Played, Waits, Ripe, PollUnlink
<1>7. TakenDown'
  BY DEF AlertsInv, TakenDown, PollUnlink, Goto
<1> QED BY <1>1, <1>2, <1>3, <1>4, <1>5, <1>6, <1>7 DEF AlertsInv

LEMMA PollPruneInv == ASSUME AlertsInv, PollPrune PROVE AlertsInv'
<1>1. AlertsTypeOK'
  BY Bounds DEF AlertsInv, AlertsTypeOK, PollPrune, Removed, Goto, Passes, Cycles,
     Admins
<1>2. Counted'
  BY DEF AlertsInv, Counted, Awaited, NoRow, PollPrune, Removed
<1>3. PassKnows'
  BY DEF AlertsInv, PassKnows, PollPrune, Goto
<1>4. RowKept'
  BY DEF RowKept, NoRow, PollPrune, Removed
<1>5. Polled'
  BY DEF AlertsInv, PassKnows, Polled, PollPrune
<1>6. Played'
  BY DEF Played, Waits, NoRow, PollPrune, Removed
<1>7. TakenDown'
  BY DEF TakenDown, PollPrune, Removed
<1> QED BY <1>1, <1>2, <1>3, <1>4, <1>5, <1>6, <1>7 DEF AlertsInv

LEMMA PollSynthInv == ASSUME AlertsInv, PollSynth PROVE AlertsInv'
<1>1. AlertsTypeOK'
  BY DEF AlertsInv, AlertsTypeOK, PollSynth, Goto, Passes
<1>2. Counted'
  BY DEF AlertsInv, Counted, Awaited, PollSynth
<1>3. PassKnows'
  BY DEF AlertsInv, PassKnows, PollSynth, SyncNew, Tracks, Goto
<1>4. RowKept'
  BY DEF AlertsInv, RowKept, PollSynth
<1>5. Polled'
  BY DEF AlertsInv, Polled, PollSynth, Goto
<1>6. Played'
  BY DEF Played, Waits, PollSynth, SyncNew
<1>7. TakenDown'
  BY DEF AlertsInv, TakenDown, PollSynth, SyncNew
<1> QED BY <1>1, <1>2, <1>3, <1>4, <1>5, <1>6, <1>7 DEF AlertsInv

LEMMA PollInsertInv == ASSUME AlertsInv, PollInsert PROVE AlertsInv'
<1>0. poll' \in Passes /\ poll'.pc = "sleep" /\ poll'.key = 0 /\ poll'.sleep = 1
  BY BaseSleep DEF AlertsInv, PollInsert
<1>1. AlertsTypeOK'
  <2>1. row' \in {NoRow} \cup Rows
    BY AnnouncerConstants DEF AlertsInv, AlertsTypeOK, PollInsert, NewRow, Rows, Passes
  <2>2. poll' \in Passes
    BY <1>0
  <2> QED BY <2>1, <2>2 DEF AlertsInv, AlertsTypeOK, PollInsert
<1>2. Counted'
  BY DEF AlertsInv, Counted, Awaited, PollInsert, NewRow
<1>3. PassKnows'
  BY <1>0 DEF PassKnows
<1>4. RowKept'
  BY AnnouncerConstants DEF AlertsInv, AlertsTypeOK, PassKnows, RowKept, Passes, PollInsert,
     NewRow
<1>5. Polled'
  <2>1. row'.there /\ row'.life \in Nat \ {0, 1}
    BY AnnouncerConstants DEF AlertsInv, AlertsTypeOK, Passes, PassKnows, PollInsert, NewRow
  <2>2. poll'.sleep = 1
    BY <1>0
  <2> QED BY <2>1, <2>2 DEF Polled
<1>6. Played'
  BY AnnouncerConstants DEF AlertsInv, AlertsTypeOK, PassKnows, Polled, Played, Ripe, Most,
     Cap, PollInsert, NewRow
<1>7. TakenDown'
  BY DEF AlertsInv, TakenDown, PollInsert
<1> QED BY <1>1, <1>2, <1>3, <1>4, <1>5, <1>6, <1>7 DEF AlertsInv

LEMMA PollResynthInv == ASSUME AlertsInv, PollResynth PROVE AlertsInv'
<1>1. AlertsTypeOK'
  BY DEF AlertsInv, AlertsTypeOK, PollResynth, Goto, Passes
<1>2. Counted'
  BY DEF AlertsInv, Counted, Awaited, PollResynth
<1>3. PassKnows'
  BY DEF AlertsInv, PassKnows, PollResynth, SyncChanged, Tracks, Goto
<1>4. RowKept'
  BY DEF AlertsInv, RowKept, PollResynth
<1>5. Polled'
  BY DEF AlertsInv, Polled, PollResynth, Goto
<1>6. Played'
  BY DEF AlertsInv, Played, Waits, Ripe, PollResynth, SyncChanged, Tracks
<1>7. TakenDown'
  BY DEF AlertsInv, TakenDown, PollResynth, SyncChanged, Tracks
<1> QED BY <1>1, <1>2, <1>3, <1>4, <1>5, <1>6, <1>7 DEF AlertsInv

LEMMA PollUpdateInv == ASSUME AlertsInv, PollUpdate PROVE AlertsInv'
<1>0. poll' \in Passes /\ poll'.pc = "sleep" /\ poll'.key = 0 /\ poll'.sleep = 1
  BY BaseSleep DEF AlertsInv, PollUpdate
<1>1. AlertsTypeOK'
  <2>1. row' \in {NoRow} \cup Rows
    <3>1. poll.key \in 0..Term /\ poll.key + Grace \in 0..(Term + Grace)
      BY AnnouncerConstants DEF AlertsInv, AlertsTypeOK, Passes
    <3>2. row.there => row \in Rows
      BY RowThere DEF AlertsInv
    <3> QED BY <3>1, <3>2 DEF AlertsInv, AlertsTypeOK, PollUpdate, Rows
  <2>2. poll' \in Passes
    BY <1>0
  <2> QED BY <2>1, <2>2 DEF AlertsInv, AlertsTypeOK, PollUpdate
<1>2. Counted'
  BY DEF AlertsInv, Counted, Awaited, PollUpdate
<1>3. PassKnows'
  BY <1>0 DEF PassKnows
<1>4. RowKept'
  BY AnnouncerConstants DEF AlertsInv, AlertsTypeOK, RowKept, Passes, PollUpdate
<1>5. Polled'
  <2>1. row.there => row'.there /\ row'.life \in Nat \ {0, 1}
    <3>1. poll.key \in Nat \ {0}
      BY DEF AlertsInv, AlertsTypeOK, Passes, PassKnows, PollUpdate
    <3>2. row.there => row \in Rows
      BY RowThere DEF AlertsInv
    <3> QED BY <3>1, <3>2, AnnouncerConstants DEF PollUpdate
  <2>2. wait' = wait
    BY DEF PollUpdate
  <2> QED BY <1>0, <2>1, <2>2 DEF AlertsInv, PassKnows, Polled, PollUpdate
<1>6. Played'
  BY DEF AlertsInv, Played, Waits, Ripe, PollUpdate
<1>7. TakenDown'
  BY DEF AlertsInv, TakenDown, PollUpdate
<1> QED BY <1>1, <1>2, <1>3, <1>4, <1>5, <1>6, <1>7 DEF AlertsInv

LEMMA PollSynthFailsInv == ASSUME AlertsInv, PollSynthFails PROVE AlertsInv'
<1>0. poll' \in Passes /\ poll'.pc = "sleep" /\ poll'.key = 0 /\ poll'.sleep = 1
  BY BaseSleep DEF AlertsInv, PollSynthFails
<1>1. AlertsTypeOK'
  <2>1. poll' \in Passes
    BY <1>0
  <2>2. wait' \in 0..(Longest + 1)
    BY Bounds DEF PollSynthFails
  <2>3. budget' \in Budgets
    BY AnnouncerConstants DEF AlertsInv, AlertsTypeOK, PollSynthFails, Fault, Budgets
  <2> QED BY <2>1, <2>2, <2>3 DEF AlertsInv, AlertsTypeOK, PollSynthFails
<1>2. Counted'
  BY DEF AlertsInv, Counted, PollSynthFails
<1>3. PassKnows'
  BY <1>0 DEF PassKnows
<1>4. RowKept'
  BY DEF AlertsInv, RowKept, PollSynthFails, SyncNew, SyncChanged, Tracks
<1>5. Polled'
  BY DEF Polled, PollSynthFails
<1>6. Played'
  BY DEF Played, Waits, PollSynthFails
<1>7. TakenDown'
  BY DEF AlertsInv, TakenDown, PollSynthFails, SyncNew, SyncChanged, Tracks
<1> QED BY <1>1, <1>2, <1>3, <1>4, <1>5, <1>6, <1>7 DEF AlertsInv

LEMMA PollDoneInv == ASSUME AlertsInv, PollDone PROVE AlertsInv'
<1>0. poll' \in Passes /\ poll'.pc = "sleep" /\ poll'.key = 0 /\ poll'.sleep = 1
  BY BaseSleep DEF AlertsInv, PollDone
<1>1. AlertsTypeOK'
  <2>1. poll' \in Passes
    BY <1>0
  <2> QED BY <2>1 DEF AlertsInv, AlertsTypeOK, PollDone
<1>2. Counted'
  BY DEF AlertsInv, Counted, Awaited, PollDone
<1>3. PassKnows'
  BY <1>0 DEF PassKnows
<1>4. RowKept'
  BY DEF AlertsInv, RowKept, PollDone
<1>5. Polled'
  <2>1. wait > 0 => row.there /\ row.exp = poll.key /\ poll.key > 0
    BY DEF AlertsInv, PassKnows, PollDone, SyncNew, SyncChanged, Tracks
  <2>2. wait > 0 => row.life \in Nat \ {0, 1}
    BY <2>1, RowThere, AnnouncerConstants DEF AlertsInv, RowKept
  <2>3. poll'.sleep = 1 /\ row' = row /\ wait' = wait
    BY <1>0 DEF PollDone
  <2> QED BY <2>1, <2>2, <2>3 DEF Polled
<1>6. Played'
  BY DEF AlertsInv, Played, Waits, Ripe, PollDone
<1>7. TakenDown'
  BY DEF AlertsInv, TakenDown, PollDone
<1> QED BY <1>1, <1>2, <1>3, <1>4, <1>5, <1>6, <1>7 DEF AlertsInv

LEMMA SchedSkipInv == ASSUME AlertsInv, SchedSkip PROVE AlertsInv'
<1>1. AlertsTypeOK'
  BY DEF AlertsInv, AlertsTypeOK, SchedSkip, Over, Cycles
<1>2. Counted'
  BY DEF AlertsInv, Counted, Awaited, SchedSkip
<1>3. PassKnows'
  BY DEF AlertsInv, PassKnows, SchedSkip
<1>4. RowKept'
  BY DEF AlertsInv, RowKept, SchedSkip, Over
<1>5. Polled'
  BY DEF AlertsInv, Polled, SchedSkip
<1>6. Played'
  <2>1. Waits => ~(row.age >= Ripe)
    <3> SUFFICES ASSUME Waits PROVE ~(row.age >= Ripe)
      OBVIOUS
    <3>1. row.age \in Nat /\ row.played \in BOOLEAN /\ row.enabled /\ row.kept /\ row.there
      BY RowThere DEF AlertsInv, Counted, Awaited, Waits
    <3>2. CASE row.played
      BY <3>1, <3>2, AnnouncerConstants DEF SchedSkip, MustSee, MaySee, Due, Forced, Ripe, Most
    <3>3. CASE ~row.played
      BY <3>1, <3>3, AnnouncerConstants DEF SchedSkip, MustSee, MaySee, Due, Forced, Ripe, Most
    <3> QED BY <3>1, <3>2, <3>3
  <2> QED BY <2>1 DEF AlertsInv, Played, Waits, SchedSkip, Ripe
<1>7. TakenDown'
  BY DEF AlertsInv, TakenDown, SchedSkip
<1> QED BY <1>1, <1>2, <1>3, <1>4, <1>5, <1>6, <1>7 DEF AlertsInv

LEMMA SchedSeesInv == ASSUME AlertsInv, SchedSees PROVE AlertsInv'
<1>1. AlertsTypeOK'
  BY DEF AlertsInv, AlertsTypeOK, SchedSees, Cycles
<1>2. Counted'
  BY DEF AlertsInv, Counted, Awaited, SchedSees
<1>3. PassKnows'
  BY DEF AlertsInv, PassKnows, SchedSees
<1>4. RowKept'
  BY DEF AlertsInv, RowKept, SchedSees, MaySee
<1>5. Polled'
  BY DEF AlertsInv, Polled, SchedSees
<1>6. Played'
  BY DEF AlertsInv, Played, Waits, Ripe, SchedSees
<1>7. TakenDown'
  BY DEF AlertsInv, TakenDown, SchedSees
<1> QED BY <1>1, <1>2, <1>3, <1>4, <1>5, <1>6, <1>7 DEF AlertsInv

LEMMA SchedGoneInv == ASSUME AlertsInv, SchedGone PROVE AlertsInv'
<1>1. AlertsTypeOK'
  BY DEF AlertsInv, AlertsTypeOK, SchedGone, Over, Cycles
<1>2. Counted'
  BY DEF AlertsInv, Counted, Awaited, SchedGone
<1>3. PassKnows'
  BY DEF AlertsInv, PassKnows, SchedGone
<1>4. RowKept'
  BY DEF AlertsInv, RowKept, SchedGone, Over
<1>5. Polled'
  BY DEF AlertsInv, Polled, SchedGone
<1>6. Played'
  BY DEF AlertsInv, Counted, Played, Waits, Ripe, Awaited, SchedGone
<1>7. TakenDown'
  BY DEF AlertsInv, TakenDown, SchedGone
<1> QED BY <1>1, <1>2, <1>3, <1>4, <1>5, <1>6, <1>7 DEF AlertsInv

LEMMA SchedCheckedInv == ASSUME AlertsInv, SchedChecked PROVE AlertsInv'
<1>1. AlertsTypeOK'
  BY DEF AlertsInv, AlertsTypeOK, SchedChecked, At, Cycles
<1>2. Counted'
  BY DEF AlertsInv, Counted, Awaited, SchedChecked
<1>3. PassKnows'
  BY DEF AlertsInv, PassKnows, SchedChecked
<1>4. RowKept'
  BY DEF AlertsInv, RowKept, SchedChecked, At
<1>5. Polled'
  BY DEF AlertsInv, Polled, SchedChecked
<1>6. Played'
  BY DEF AlertsInv, Played, Waits, Ripe, SchedChecked, At
<1>7. TakenDown'
  BY DEF AlertsInv, TakenDown, SchedChecked
<1> QED BY <1>1, <1>2, <1>3, <1>4, <1>5, <1>6, <1>7 DEF AlertsInv

LEMMA SchedFireInv == ASSUME AlertsInv, SchedFire PROVE AlertsInv'
<1>1. AlertsTypeOK'
  <2>1. row' \in {NoRow} \cup Rows
    <3>1. 0 \in 0..(Interval + MaxDefer)
      BY AnnouncerConstants
    <3>2. sched.own => row \in Rows
      BY RowThere DEF AlertsInv, RowKept
    <3> QED BY <3>1, <3>2 DEF AlertsInv, AlertsTypeOK, SchedFire, Rows
  <2>2. sched' \in Cycles
    BY DEF SchedFire, Over, Cycles
  <2>3. wait' \in 0..(Longest + 1)
    BY Bounds DEF AlertsInv, AlertsTypeOK, SchedFire
  <2> QED BY <2>1, <2>2, <2>3 DEF AlertsInv, AlertsTypeOK, SchedFire
<1>2. Counted'
  BY DEF AlertsInv, Counted, Awaited, SchedFire
<1>3. PassKnows'
  BY DEF AlertsInv, PassKnows, SchedFire
<1>4. RowKept'
  BY DEF AlertsInv, RowKept, SchedFire, Over
<1>5. Polled'
  BY DEF AlertsInv, Polled, SchedFire
<1>6. Played'
  BY DEF AlertsInv, Counted, PassKnows, RowKept, Played, Waits, Awaited, SchedFire
<1>7. TakenDown'
  BY DEF AlertsInv, TakenDown, SchedFire
<1> QED BY <1>1, <1>2, <1>3, <1>4, <1>5, <1>6, <1>7 DEF AlertsInv

LEMMA SchedFailsInv == ASSUME AlertsInv, SchedFails PROVE AlertsInv'
<1>1. AlertsTypeOK'
  BY AnnouncerConstants, Bounds DEF AlertsInv, AlertsTypeOK, SchedFails, Over, Fault,
     Cycles, Budgets
<1>2. Counted'
  BY DEF AlertsInv, Counted, SchedFails
<1>3. PassKnows'
  BY DEF AlertsInv, PassKnows, SchedFails
<1>4. RowKept'
  BY DEF AlertsInv, RowKept, SchedFails, Over
<1>5. Polled'
  BY DEF Polled, SchedFails
<1>6. Played'
  BY DEF Played, Waits, SchedFails
<1>7. TakenDown'
  BY DEF AlertsInv, TakenDown, SchedFails
<1> QED BY <1>1, <1>2, <1>3, <1>4, <1>5, <1>6, <1>7 DEF AlertsInv

LEMMA SaveConfigInv == ASSUME AlertsInv, SaveConfig PROVE AlertsInv'
<1>1. AlertsTypeOK'
  BY AnnouncerConstants, Bounds DEF AlertsInv, AlertsTypeOK, SaveConfig, Spend, Budgets,
     Switches
<1>2. Counted'
  BY DEF AlertsInv, Counted, SaveConfig
<1>3. PassKnows'
  BY DEF AlertsInv, PassKnows, SaveConfig
<1>4. RowKept'
  BY DEF AlertsInv, RowKept, SaveConfig
<1>5. Polled'
  BY DEF Polled, SaveConfig
<1>6. Played'
  BY DEF Played, Waits, SaveConfig
<1>7. TakenDown'
  BY DEF AlertsInv, TakenDown, SaveConfig
<1> QED BY <1>1, <1>2, <1>3, <1>4, <1>5, <1>6, <1>7 DEF AlertsInv

LEMMA ToggleInv == ASSUME AlertsInv, Toggle PROVE AlertsInv'
<1>1. AlertsTypeOK'
  <2>1. row' \in {NoRow} \cup Rows
    BY DEF AlertsInv, AlertsTypeOK, Toggle, Rows, NoRow
  <2>2. wait' \in 0..(Longest + 1)
    BY Bounds DEF Toggle
  <2>3. budget' \in Budgets
    BY AnnouncerConstants DEF AlertsInv, AlertsTypeOK, Toggle, Spend, Budgets
  <2> QED BY <2>1, <2>2, <2>3 DEF AlertsInv, AlertsTypeOK, Toggle
<1>2. Counted'
  BY DEF AlertsInv, Counted, Toggle
<1>3. PassKnows'
  BY DEF AlertsInv, PassKnows, Toggle
<1>4. RowKept'
  BY DEF AlertsInv, RowKept, Toggle
<1>5. Polled'
  BY DEF Polled, Toggle
<1>6. Played'
  BY DEF Played, Waits, Toggle
<1>7. TakenDown'
  BY DEF AlertsInv, TakenDown, Toggle
<1> QED BY <1>1, <1>2, <1>3, <1>4, <1>5, <1>6, <1>7 DEF AlertsInv

LEMMA EditBeginInv == ASSUME AlertsInv, EditBegin PROVE AlertsInv'
<1>1. AlertsTypeOK'
  BY AnnouncerConstants DEF AlertsInv, AlertsTypeOK, EditBegin, Spend, Budgets, Admins
<1>2. Counted'
  BY DEF AlertsInv, Counted, Awaited, EditBegin
<1>3. PassKnows'
  BY DEF AlertsInv, PassKnows, EditBegin
<1>4. RowKept'
  BY DEF AlertsInv, RowKept, EditBegin
<1>5. Polled'
  BY DEF AlertsInv, Polled, EditBegin
<1>6. Played'
  BY DEF AlertsInv, Played, Waits, Ripe, EditBegin
<1>7. TakenDown'
  BY DEF AlertsInv, TakenDown, EditBegin
<1> QED BY <1>1, <1>2, <1>3, <1>4, <1>5, <1>6, <1>7 DEF AlertsInv

LEMMA EditReplacesInv == ASSUME AlertsInv, EditReplaces PROVE AlertsInv'
<1>1. AlertsTypeOK'
  BY DEF AlertsInv, AlertsTypeOK, EditReplaces, Admins
<1>2. Counted'
  BY DEF AlertsInv, Counted, Awaited, EditReplaces
<1>3. PassKnows'
  BY DEF AlertsInv, PassKnows, EditReplaces
<1>4. RowKept'
  BY DEF AlertsInv, RowKept, EditReplaces
<1>5. Polled'
  BY DEF AlertsInv, Polled, EditReplaces
<1>6. Played'
  BY DEF AlertsInv, Played, Waits, Ripe, EditReplaces
<1>7. TakenDown'
  BY DEF AlertsInv, TakenDown, EditReplaces
<1> QED BY <1>1, <1>2, <1>3, <1>4, <1>5, <1>6, <1>7 DEF AlertsInv

LEMMA EditRowInv == ASSUME AlertsInv, EditRow PROVE AlertsInv'
<1>0. PICK k \in BOOLEAN : /\ row' = [row EXCEPT !.kept = k]
                           /\ wait' = IF k THEN wait ELSE 0
  BY DEF EditRow
<1>1. row \in Rows
  BY RowThere DEF AlertsInv, RowKept, EditRow
<1>2. /\ row' \in Rows /\ row'.there /\ row'.kept = k /\ row'.enabled = row.enabled
      /\ row'.played = row.played /\ row'.age = row.age /\ row'.life = row.life
      /\ row'.exp = row.exp
  BY <1>0, <1>1 DEF Rows
<1>3. wait' > 0 => k /\ wait' = wait
  BY <1>0
<1>4. row.there
  BY DEF AlertsInv, RowKept, EditRow
<1>5. AlertsTypeOK'
  <2>1. wait' \in 0..(Longest + 1)
    BY <1>0, Bounds DEF AlertsInv, AlertsTypeOK
  <2> QED BY <1>2, <2>1 DEF AlertsInv, AlertsTypeOK, EditRow, Admins
<1>6. Counted'
  BY <1>2, <1>3, <1>4 DEF AlertsInv, Counted, Awaited, EditRow
<1>7. PassKnows'
  BY <1>0, <1>2, <1>3, <1>4 DEF AlertsInv, PassKnows, EditRow
<1>8. RowKept'
  BY <1>2, <1>4 DEF AlertsInv, RowKept, EditRow
<1>9. Polled'
  BY <1>2, <1>3, <1>4 DEF AlertsInv, Polled, EditRow
<1>10. Played'
  BY <1>2, <1>3, <1>4 DEF AlertsInv, Played, Waits, Ripe, EditRow
<1>11. TakenDown'
  BY <1>2, <1>4 DEF AlertsInv, TakenDown, EditRow
<1> QED BY <1>5, <1>6, <1>7, <1>8, <1>9, <1>10, <1>11 DEF AlertsInv

LEMMA DeleteSoundInv == ASSUME AlertsInv, DeleteSound PROVE AlertsInv'
<1>1. AlertsTypeOK'
  <2>1. wait' \in 0..(Longest + 1)
    BY Bounds DEF DeleteSound
  <2>2. budget' \in Budgets
    BY AnnouncerConstants DEF AlertsInv, AlertsTypeOK, DeleteSound, Spend, Budgets
  <2> QED BY <2>1, <2>2 DEF AlertsInv, AlertsTypeOK, DeleteSound, Admins
<1>2. Counted'
  BY DEF AlertsInv, Counted, DeleteSound
<1>3. PassKnows'
  BY DEF AlertsInv, PassKnows, DeleteSound
<1>4. RowKept'
  BY DEF AlertsInv, RowKept, DeleteSound
<1>5. Polled'
  BY DEF Polled, DeleteSound
<1>6. Played'
  BY DEF Played, Waits, DeleteSound
<1>7. TakenDown'
  BY DEF AlertsInv, TakenDown, DeleteSound
<1> QED BY <1>1, <1>2, <1>3, <1>4, <1>5, <1>6, <1>7 DEF AlertsInv

LEMMA DeleteRowInv == ASSUME AlertsInv, DeleteRow PROVE AlertsInv'
<1>1. AlertsTypeOK'
  BY Bounds DEF AlertsInv, AlertsTypeOK, DeleteRow, Removed, Cycles,
     Admins
<1>2. Counted'
  BY DEF AlertsInv, Counted, DeleteRow
<1>3. PassKnows'
  BY DEF AlertsInv, PassKnows, NoRow, DeleteRow, Removed
<1>4. RowKept'
  BY DEF RowKept, NoRow, DeleteRow, Removed
<1>5. Polled'
  BY DEF Polled, DeleteRow
<1>6. Played'
  BY DEF Played, Waits, DeleteRow
<1>7. TakenDown'
  BY DEF TakenDown, DeleteRow, Removed
<1> QED BY <1>1, <1>2, <1>3, <1>4, <1>5, <1>6, <1>7 DEF AlertsInv

LEMMA AlertsInitInv == AlertsInit => AlertsInv
<1> SUFFICES ASSUME AlertsInit PROVE AlertsInv
  OBVIOUS
<1>1. AlertsTypeOK
  <2>1. 0 \in 0..Term /\ 0 \in 0..MaxSleep /\ MaxReq \in 0..MaxReq
        /\ MaxFailures \in 0..MaxFailures
    BY AnnouncerConstants
  <2>2. nws \in Services /\ poll \in Passes /\ cfg \in Switches
    BY <2>1 DEF AlertsInit, Services, Passes, Switches
  <2>3. sched \in Cycles /\ budget \in Budgets
    BY <2>1 DEF AlertsInit, Cycles, Budgets
  <2> QED BY <2>2, <2>3, Bounds DEF AlertsInit, AlertsTypeOK, Admins
<1>2. Counted /\ PassKnows /\ RowKept /\ Polled /\ Played /\ TakenDown
  BY DEF AlertsInit, Counted, PassKnows, RowKept, Polled, Played, Waits, TakenDown, NoRow
<1> QED BY <1>1, <1>2 DEF AlertsInv

LEMMA AlertsStepInv == AlertsInv /\ [AlertsNext]_alertVars => AlertsInv'
<1> SUFFICES ASSUME AlertsInv, [AlertsNext]_alertVars PROVE AlertsInv'
  OBVIOUS
<1>1. CASE Poller
  BY <1>1, PollExpireInv, PollDropExpiredInv, PollBeginInv, PollIdleInv, PollDownInv,
     PollFetchInv, PollUnlinkInv, PollPruneInv, PollSynthInv, PollInsertInv, PollResynthInv,
     PollUpdateInv, PollSynthFailsInv, PollDoneInv DEF Poller
<1>2. CASE Scheduler
  BY <1>2, SchedSkipInv, SchedSeesInv, SchedGoneInv, SchedCheckedInv, SchedFireInv,
     SchedFailsInv DEF Scheduler
<1>3. CASE UNCHANGED alertVars
  BY <1>3 DEF alertVars, AlertsInv, AlertsTypeOK, Counted, Awaited, PassKnows, RowKept,
     Polled, Played, Waits, Ripe, TakenDown
<1> QED BY <1>1, <1>2, <1>3, IssueInv, CancelInv, UpOrDownInv, AlertsTickInv, SaveConfigInv,
   ToggleInv, EditBeginInv, EditReplacesInv, EditRowInv, DeleteSoundInv, DeleteRowInv DEF AlertsNext

(* The bounds follow from the invariant: without a row the alert waits for *)
(* the poller, with one for the time at which it is played at the latest.  *)
LEMMA InTime == AlertsInv => AlertsOnTime
<1> SUFFICES ASSUME AlertsInv PROVE AlertsOnTime
  OBVIOUS
<1>1. wait \in Nat /\ over.life \in Nat /\ over.gone \in Nat
      /\ poll.sleep \in Nat
  BY DEF AlertsInv, AlertsTypeOK, Passes
<1>2. HeardInTime
  <2> SUFFICES ASSUME wait > 0 PROVE wait <= Longest
    BY <1>1, Bounds DEF HeardInTime
  <2>1. CASE ~row.there
    BY <1>1, <2>1, AnnouncerConstants DEF AlertsInv, Polled, Longest, Most
  <2>2. CASE row.there /\ poll.pc = "expire"
    BY <1>1, <2>2, AnnouncerConstants DEF AlertsInv, Polled, PassKnows, Longest, Most
  <2>3. CASE row.there /\ poll.pc # "expire"
    <3>1. wait <= (IF row.played THEN 0 ELSE MaxSleep) + Cap(row.age, Ripe)
      BY <2>3 DEF AlertsInv, Played, Waits
    <3>2. row.age \in Nat /\ row.age <= Interval + MaxDefer
      BY <2>3, RowThere DEF AlertsInv
    <3> QED BY <1>1, <3>1, <3>2, AnnouncerConstants DEF Cap, Ripe, Longest, Most
  <2> QED BY <2>1, <2>2, <2>3
<1>3. SilentWhenOver
  BY <1>1, AnnouncerConstants DEF AlertsInv, TakenDown, SilentWhenOver
<1> QED BY <1>2, <1>3 DEF AlertsOnTime, AlertsInv

(* For any lengths of an alert, its grace, the replay interval, the         *)
(* deferral and the poller's longest sleep, and any number of requests,     *)
(* extensions and failures: an awaited alert is heard within Longest, and   *)
(* no row outlives its alert by more than the poller's longest sleep.       *)
THEOREM AlertsAlwaysOnTime == AlertsSpec => []AlertsOnTime
<1>1. AlertsInit => AlertsInv
  BY AlertsInitInv
<1>2. AlertsInv /\ [AlertsNext]_alertVars => AlertsInv'
  BY AlertsStepInv
<1>3. AlertsInv => AlertsOnTime
  BY InTime
<1> QED BY <1>1, <1>2, <1>3, PTL DEF AlertsSpec

(***************************************************************************)
(* The configuration file and its cache.                                   *)
(***************************************************************************)
Places == {"idle", "lookup", "store", "read", "failed", "backup", "list", "prune", "rename"}
Aside == {"idle", "failed", "backup", "list", "prune"}
Timed(r) == req[r].at \in {"lookup", "store"}
Reading(r) == Timed(r) \/ req[r].at = "read"
Writing(r) == req[r].at = "rename"

Stamped == [mtime : Nat, text : Texts]
Request == [at : Places, why : {"get", "save"}, mtime : Nat, text : Texts,
            doomed : SUBSET (1..Seconds)]
ConfShape == /\ file \in Stamped /\ cache \in Stamped
         /\ req \in [Requests -> Request] /\ backup \in [1..Seconds -> Texts]
         /\ second \in 1..Seconds /\ times \in Nat /\ writes \in 1..(MaxWrites + 1)
         /\ seen \in [Requests -> SUBSET Texts]

(* Whoever reads has seen the present text.                                *)
SeesPresent == \A r \in Requests : Reading(r) => file.text \in seen[r]
(* Nobody else's sight follows the file.                                   *)
BlindAside == \A r \in Requests : ~Reading(r) => seen[r] = {}
(* What was stored under the file's present time, or is about to be, is    *)
(* its present text.                                                       *)
PresentIsPresent == /\ cache.mtime = file.mtime => cache.text = file.text
                    /\ \A q \in Requests : req[q].at = "store" /\ req[q].mtime = file.mtime
                                              => req[q].text = file.text
(* Under the time a request found, the cache has, or gets, only texts that *)
(* the request has seen.                                                   *)
TimedIsSeen == \A r \in Requests : Timed(r) =>
                  /\ req[r].mtime = cache.mtime => cache.text \in seen[r]
                  /\ \A q \in Requests : req[q].at = "store" /\ req[q].mtime = req[r].mtime
                                            => req[q].text \in seen[r]
(* The time of a file that is written and not yet in place is nobody's.    *)
TimesPast == /\ file.mtime # 0 /\ file.mtime <= times /\ cache.mtime <= times
             /\ \A r \in Requests : req[r].mtime <= times
TimesOwn == \A r \in Requests : Writing(r) =>
               /\ req[r].mtime \notin {0, file.mtime, cache.mtime}
               /\ \A q \in Requests : q # r /\ (Timed(q) \/ Writing(q))
                                        => req[q].mtime # req[r].mtime
(* What is read and not yet stored has been seen.                          *)
OwnIsSeen == \A r \in Requests : req[r].at \in {"store", "read"} => req[r].text \in seen[r]

ConfInv == /\ ConfShape /\ SeesPresent /\ BlindAside /\ PresentIsPresent /\ TimedIsSeen
        /\ TimesPast /\ TimesOwn /\ OwnIsSeen

USE ConfAssumption

(* The record of a request that is not at work fits its type.              *)
LEMMA IdleIsRequest == Idle \in Request
BY DEF Idle, Request, Places, Texts

LEMMA InitConfInv == Init => ConfInv
<1> SUFFICES ASSUME Init PROVE ConfInv
  OBVIOUS
<1> USE DEF Init, Idle
<1>1. ConfShape
  BY IdleIsRequest DEF ConfShape, Stamped, Texts
<1>2. \A r \in Requests : req[r].at = "idle" /\ req[r].mtime = 0 /\ seen[r] = {}
  OBVIOUS
<1>3. SeesPresent /\ BlindAside /\ TimedIsSeen /\ TimesOwn /\ OwnIsSeen
  BY <1>2 DEF SeesPresent, BlindAside, TimedIsSeen, TimesOwn, OwnIsSeen, Reading, Timed, Writing
<1>4. PresentIsPresent /\ TimesPast
  BY <1>2 DEF PresentIsPresent, TimesPast
<1> QED BY <1>1, <1>3, <1>4 DEF ConfInv

(* A request that neither reads nor renames, before or after it moves.     *)
LEMMA StepsAside ==
    ASSUME ConfInv, ConfShape', NEW r \in Requests, UNCHANGED <<file, cache, times>>,
           \A q \in Requests \ {r} : req'[q] = req[q] /\ seen'[q] = seen[q],
           req'[r].at \in Aside, req'[r].mtime <= times, seen'[r] = {}
    PROVE  ConfInv'
<1>1. ~Timed(r)' /\ ~Reading(r)' /\ ~Writing(r)' /\ req'[r].at \notin {"store", "read"}
  BY DEF Timed, Reading, Writing, Aside
<1>2. \A q \in Requests \ {r} : /\ Timed(q)' <=> Timed(q)
                                /\ Reading(q)' <=> Reading(q)
                                /\ Writing(q)' <=> Writing(q)
  BY DEF Timed, Reading, Writing
<1>3. SeesPresent' /\ BlindAside' /\ OwnIsSeen'
  BY <1>1, <1>2 DEF ConfInv, SeesPresent, BlindAside, OwnIsSeen
<1>4. PresentIsPresent'
  BY <1>1 DEF ConfInv, PresentIsPresent
<1>5. TimedIsSeen'
  BY <1>1, <1>2 DEF ConfInv, TimedIsSeen
<1>6. TimesPast' /\ TimesOwn'
  BY <1>1, <1>2 DEF ConfInv, TimesPast, TimesOwn
<1> QED BY <1>3, <1>4, <1>5, <1>6 DEF ConfInv

LEMMA AnswerIInv == ASSUME ConfInv, NEW r \in Requests, Answer(r) PROVE ConfInv'
<1> USE DEF Answer
<1>1. ConfShape'
  BY IdleIsRequest DEF ConfInv, ConfShape
<1>2. req'[r] = Idle /\ seen'[r] = {} /\ 0 <= times
  BY DEF ConfInv, ConfShape
<1>3. \A q \in Requests \ {r} : req'[q] = req[q] /\ seen'[q] = seen[q]
  BY DEF ConfInv, ConfShape
<1> QED BY <1>1, <1>2, <1>3, StepsAside DEF Aside, Idle

LEMMA EditIInv == ASSUME ConfInv, NEW r \in Requests, Edit(r) PROVE ConfInv'
<1> USE DEF Edit
<1>1. req[r] \in Request /\ req'[r] = [req[r] EXCEPT !.at = "backup", !.text = writes + 1]
  BY DEF ConfInv, ConfShape
<1>2. ConfShape'
  <2>1. writes + 1 \in Texts /\ writes' \in 1..(MaxWrites + 1)
    BY DEF ConfInv, ConfShape, Texts
  <2>2. req'[r] \in Request
    BY <1>1, <2>1 DEF ConfInv, ConfShape, Request, Places
  <2>3. req' \in [Requests -> Request]
    BY <1>1, <2>2 DEF ConfInv, ConfShape
  <2>4. seen' \in [Requests -> SUBSET Texts]
    BY DEF ConfInv, ConfShape
  <2> QED BY <2>1, <2>3, <2>4 DEF ConfInv, ConfShape
<1>3. req'[r].at \in Aside /\ req'[r].mtime <= times /\ seen'[r] = {}
  BY <1>1 DEF ConfInv, ConfShape, TimesPast, Request, Aside
<1>4. \A q \in Requests \ {r} : req'[q] = req[q] /\ seen'[q] = seen[q]
  BY DEF ConfInv, ConfShape
<1> QED BY <1>2, <1>3, <1>4, StepsAside

LEMMA RestoreIInv == ASSUME ConfInv, NEW r \in Requests, Restore(r) PROVE ConfInv'
<1> USE DEF Restore
<1>1. PICK n \in Names : req' = [req EXCEPT ![r] = [Idle EXCEPT !.at = "backup",
                                                               !.text = backup[n]]]
  OBVIOUS
<1>2. n \in 1..Seconds /\ backup[n] \in Texts
  BY DEF ConfInv, ConfShape, Names
<1>3. ConfShape'
  <2>1. writes' \in 1..(MaxWrites + 1)
    BY DEF ConfInv, ConfShape
  <2>2. [Idle EXCEPT !.at = "backup", !.text = backup[n]] \in Request
    BY <1>2 DEF Idle, Request, Places
  <2>3. req' \in [Requests -> Request]
    BY <1>1, <2>2 DEF ConfInv, ConfShape
  <2> QED BY <2>1, <2>3 DEF ConfInv, ConfShape
<1>4. req'[r].at \in Aside /\ req'[r].mtime <= times /\ seen'[r] = {}
  BY <1>1 DEF ConfInv, ConfShape, BlindAside, Reading, Timed, Aside, Idle
<1>5. \A q \in Requests \ {r} : req'[q] = req[q] /\ seen'[q] = seen[q]
  BY <1>1 DEF ConfInv, ConfShape
<1> QED BY <1>3, <1>4, <1>5, StepsAside

LEMMA BackupIInv == ASSUME ConfInv, NEW r \in Requests, Backup(r) PROVE ConfInv'
<1> USE DEF Backup, Goes
<1>1. ConfShape'
  BY ZenonT(60) DEF ConfInv, ConfShape, Stamped, Request, Places
<1>2. req'[r].at \in Aside /\ req'[r].mtime <= times /\ seen'[r] = {}
  BY DEF ConfInv, ConfShape, TimesPast, BlindAside, Reading, Timed, Request, Aside
<1>3. \A q \in Requests \ {r} : req'[q] = req[q] /\ seen'[q] = seen[q]
  BY DEF ConfInv, ConfShape
<1> QED BY <1>1, <1>2, <1>3, StepsAside

LEMMA ListIInv == ASSUME ConfInv, NEW r \in Requests, List(r) PROVE ConfInv'
<1> USE DEF List
<1>1. Names \ Newest(Keep) \subseteq 1..Seconds
  BY DEF Names
<1>2. ConfShape'
  BY ZenonT(60), <1>1 DEF ConfInv, ConfShape, Request, Places
<1>3. req'[r].at \in Aside /\ req'[r].mtime <= times /\ seen'[r] = {}
  BY DEF ConfInv, ConfShape, TimesPast, BlindAside, Reading, Timed, Request, Aside
<1>4. \A q \in Requests \ {r} : req'[q] = req[q] /\ seen'[q] = seen[q]
  BY DEF ConfInv, ConfShape
<1> QED BY <1>2, <1>3, <1>4, StepsAside

LEMMA UnlinkIInv == ASSUME ConfInv, NEW r \in Requests, Unlink(r) PROVE ConfInv'
<1>1. PICK D \in SUBSET (1..Seconds) : req' = [req EXCEPT ![r].doomed = D]
  <2>1. req[r].doomed \subseteq 1..Seconds
    BY DEF ConfInv, ConfShape, Request
  <2>2. {} \subseteq 1..Seconds /\ req[r].doomed \ {Min(req[r].doomed)} \subseteq 1..Seconds
    BY <2>1
  <2> QED BY <2>2 DEF Unlink
<1>2. backup' \in [1..Seconds -> Texts]
  <2>1. 0 \in Texts
    BY DEF Texts
  <2> QED BY <2>1 DEF ConfInv, ConfShape, Unlink
<1>3. UNCHANGED <<file, cache, second, times, writes, faults, seen>> /\ req[r].at = "prune"
  BY DEF Unlink
<1>4. ConfShape'
  BY ZenonT(60), <1>1, <1>2, <1>3 DEF ConfInv, ConfShape, Request, Places
<1>5. req'[r].at \in Aside /\ req'[r].mtime <= times /\ seen'[r] = {}
  BY <1>1, <1>3 DEF ConfInv, ConfShape, TimesPast, BlindAside, Reading, Timed, Request, Aside
<1>6. \A q \in Requests \ {r} : req'[q] = req[q] /\ seen'[q] = seen[q]
  BY <1>1, <1>3 DEF ConfInv, ConfShape
<1> QED BY <1>3, <1>4, <1>5, <1>6, StepsAside

LEMMA WriteFailsIInv == ASSUME ConfInv, NEW r \in Requests, WriteFails(r) PROVE ConfInv'
<1> USE DEF WriteFails
<1>1. ConfShape'
  BY IdleIsRequest DEF ConfInv, ConfShape
<1>2. req'[r] = Idle /\ seen'[r] = {} /\ 0 <= times
  BY DEF ConfInv, ConfShape, BlindAside, Reading, Timed
<1>3. \A q \in Requests \ {r} : req'[q] = req[q] /\ seen'[q] = seen[q]
  BY DEF ConfInv, ConfShape
<1> QED BY <1>1, <1>2, <1>3, StepsAside DEF Aside, Idle

(* Reading.                                                                *)
LEMMA StatIInv == ASSUME ConfInv, NEW r \in Requests, NEW why \in {"get", "save"}, Stat(r, why)
                  PROVE  ConfInv'
<1> USE DEF Stat
<1>1. req'[r] = [Idle EXCEPT !.at = "lookup", !.why = why, !.mtime = file.mtime]
  BY DEF ConfInv, ConfShape
<1>2. req'[r].at = "lookup" /\ req'[r].mtime = file.mtime /\ seen'[r] = {file.text}
  BY <1>1 DEF ConfInv, ConfShape, Idle
<1>3. \A q \in Requests \ {r} : req'[q] = req[q] /\ seen'[q] = seen[q]
  BY DEF ConfInv, ConfShape
<1>4. ConfShape'
  <2>1. req'[r] \in Request
    BY ZenonT(60), <1>1, IdleIsRequest DEF ConfInv, ConfShape, Stamped, Request, Places
  <2>2. req' \in [Requests -> Request] /\ seen' \in [Requests -> SUBSET Texts]
    BY <1>1, <2>1 DEF ConfInv, ConfShape, Stamped
  <2> QED BY <2>2 DEF ConfInv, ConfShape
<1>5. /\ Timed(r)' /\ Reading(r)' /\ ~Writing(r)'
      /\ \A q \in Requests \ {r} : /\ Timed(q)' <=> Timed(q)
                                   /\ Reading(q)' <=> Reading(q)
                                   /\ Writing(q)' <=> Writing(q)
  BY <1>2, <1>3 DEF Timed, Reading, Writing
<1>6. SeesPresent' /\ BlindAside' /\ OwnIsSeen' /\ PresentIsPresent'
  BY <1>2, <1>3, <1>5 DEF ConfInv, SeesPresent, BlindAside, OwnIsSeen, PresentIsPresent
<1>7. TimedIsSeen'
  <2>1. ASSUME NEW q \in Requests, Timed(q)'
        PROVE  req'[q].mtime = cache.mtime => cache.text \in seen'[q]
    BY <2>1, <1>2, <1>3, <1>5 DEF ConfInv, TimedIsSeen, PresentIsPresent
  <2>2. ASSUME NEW q \in Requests, Timed(q)', NEW p \in Requests, req'[p].at = "store",
               req'[p].mtime = req'[q].mtime
        PROVE  req'[p].text \in seen'[q]
    <3>1. p # r /\ req[p].at = "store" /\ req[p].mtime = req'[q].mtime
      BY <2>2, <1>2, <1>3
    <3> QED BY <2>2, <3>1, <1>2, <1>3, <1>5 DEF ConfInv, TimedIsSeen, PresentIsPresent
  <2> QED BY <2>1, <2>2 DEF TimedIsSeen
<1>8. TimesPast' /\ TimesOwn'
  BY <1>2, <1>3, <1>5 DEF ConfInv, TimesPast, TimesOwn
<1> QED BY <1>4, <1>6, <1>7, <1>8 DEF ConfInv

LEMMA HitIInv == ASSUME ConfInv, NEW r \in Requests, Hit(r) PROVE ConfInv'
<1> USE DEF Hit
<1>1. req[r] \in Request /\ req'[r] = [req[r] EXCEPT !.at = "read", !.text = cache.text]
  BY DEF ConfInv, ConfShape
<1>2. req'[r].at = "read" /\ req'[r].mtime = req[r].mtime /\ req'[r].text = cache.text
  BY ZenonT(60), <1>1 DEF Request
<1>3. \A q \in Requests \ {r} : req'[q] = req[q]
  BY DEF ConfInv, ConfShape
<1>4. ConfShape'
  BY ZenonT(60) DEF ConfInv, ConfShape, Stamped, Request, Places
<1>5. /\ ~Timed(r)' /\ Reading(r)' /\ Reading(r) /\ ~Writing(r)' /\ Timed(r)
      /\ \A q \in Requests \ {r} : /\ Timed(q)' <=> Timed(q)
                                   /\ Reading(q)' <=> Reading(q)
                                   /\ Writing(q)' <=> Writing(q)
  BY <1>2, <1>3 DEF Timed, Reading, Writing
<1>6. SeesPresent' /\ BlindAside' /\ PresentIsPresent'
  BY <1>2, <1>3, <1>5 DEF ConfInv, SeesPresent, BlindAside, PresentIsPresent
<1>7. OwnIsSeen' /\ TimedIsSeen'
  BY <1>2, <1>3, <1>5 DEF ConfInv, OwnIsSeen, TimedIsSeen
<1>8. TimesPast' /\ TimesOwn'
  BY <1>2, <1>3, <1>5 DEF ConfInv, TimesPast, TimesOwn
<1> QED BY <1>4, <1>6, <1>7, <1>8 DEF ConfInv

LEMMA StatFailsIInv == ASSUME ConfInv, NEW r \in Requests, StatFails(r) PROVE ConfInv'
<1> USE DEF StatFails
<1>1. req[r] \in Request /\ req'[r] = [req[r] EXCEPT !.at = "read", !.text = file.text]
  BY DEF ConfInv, ConfShape
<1>2. req'[r].at = "read" /\ req'[r].mtime = req[r].mtime /\ req'[r].text = file.text
  BY ZenonT(60), <1>1 DEF Request
<1>3. \A q \in Requests \ {r} : req'[q] = req[q]
  BY DEF ConfInv, ConfShape
<1>4. ConfShape'
  BY ZenonT(60) DEF ConfInv, ConfShape, Stamped, Request, Places
<1>5. /\ ~Timed(r)' /\ Reading(r)' /\ Reading(r) /\ ~Writing(r)' /\ Timed(r)
      /\ \A q \in Requests \ {r} : /\ Timed(q)' <=> Timed(q)
                                   /\ Reading(q)' <=> Reading(q)
                                   /\ Writing(q)' <=> Writing(q)
  BY <1>2, <1>3 DEF Timed, Reading, Writing
<1>6. SeesPresent' /\ BlindAside' /\ PresentIsPresent'
  BY <1>2, <1>3, <1>5 DEF ConfInv, SeesPresent, BlindAside, PresentIsPresent
<1>7. OwnIsSeen' /\ TimedIsSeen'
  BY <1>2, <1>3, <1>5 DEF ConfInv, OwnIsSeen, TimedIsSeen, SeesPresent
<1>8. TimesPast' /\ TimesOwn'
  BY <1>2, <1>3, <1>5 DEF ConfInv, TimesPast, TimesOwn
<1> QED BY <1>4, <1>6, <1>7, <1>8 DEF ConfInv

LEMMA OpenFailsIInv == ASSUME ConfInv, NEW r \in Requests, OpenFails(r) PROVE ConfInv'
<1> USE DEF OpenFails
<1>1. req[r].why \in {"get", "save"}
  BY DEF ConfInv, ConfShape, Request
<1>2. req'[r] = [Idle EXCEPT !.at = "failed", !.why = req[r].why]
  BY DEF ConfInv, ConfShape
<1>3. ConfShape'
  <2>1. [Idle EXCEPT !.at = "failed", !.why = req[r].why] \in Request
    <3>1. Idle \in Request /\ "failed" \in Places
      BY DEF ConfInv, ConfShape, Idle, Request, Places, Texts
    <3> QED BY ZenonT(60), <3>1, <1>1 DEF Request
  <2>2. req' \in [Requests -> Request]
    BY <2>1 DEF ConfInv, ConfShape
  <2>3. seen' \in [Requests -> SUBSET Texts]
    BY DEF ConfInv, ConfShape
  <2> QED BY <2>2, <2>3 DEF ConfInv, ConfShape
<1>4. req'[r].at \in Aside /\ req'[r].mtime <= times /\ seen'[r] = {}
  BY <1>2 DEF ConfInv, ConfShape, Aside, Idle
<1>5. \A q \in Requests \ {r} : req'[q] = req[q] /\ seen'[q] = seen[q]
  BY DEF ConfInv, ConfShape
<1> QED BY <1>3, <1>4, <1>5, StepsAside

LEMMA OpenIInv == ASSUME ConfInv, NEW r \in Requests, Open(r) PROVE ConfInv'
<1> USE DEF Open
<1>1. req[r] \in Request /\ req'[r] = [req[r] EXCEPT !.at = "store", !.text = file.text]
  BY DEF ConfInv, ConfShape
<1>2. req'[r].at = "store" /\ req'[r].mtime = req[r].mtime /\ req'[r].text = file.text
  BY ZenonT(60), <1>1 DEF Request
<1>3. \A q \in Requests \ {r} : req'[q] = req[q]
  BY DEF ConfInv, ConfShape
<1>4. ConfShape'
  BY ZenonT(60) DEF ConfInv, ConfShape, Stamped, Request, Places
<1>5. \A q \in Requests : /\ Timed(q)' <=> Timed(q)
                          /\ Reading(q)' <=> Reading(q)
                          /\ Writing(q)' <=> Writing(q)
  BY <1>2, <1>3 DEF Timed, Reading, Writing
<1>6. SeesPresent' /\ BlindAside' /\ PresentIsPresent'
  BY <1>2, <1>3, <1>5 DEF ConfInv, SeesPresent, BlindAside, PresentIsPresent
<1>7. OwnIsSeen'
  BY <1>2, <1>3, <1>5 DEF ConfInv, OwnIsSeen, SeesPresent, Reading, Timed
<1>9. TimedIsSeen'
  <2>1. ASSUME NEW q \in Requests, Timed(q)'
        PROVE  req'[q].mtime = cache.mtime => cache.text \in seen'[q]
    BY <2>1, <1>2, <1>3, <1>5 DEF ConfInv, TimedIsSeen
  <2>2. ASSUME NEW q \in Requests, Timed(q)', NEW p \in Requests, req'[p].at = "store",
               req'[p].mtime = req'[q].mtime
        PROVE  req'[p].text \in seen'[q]
    <3>1. Timed(q) /\ seen'[q] = seen[q] /\ file.text \in seen[q]
          /\ req'[q].mtime = req[q].mtime
      BY <2>2, <1>2, <1>3, <1>5 DEF ConfInv, SeesPresent, Reading
    <3> QED BY <2>2, <3>1, <1>2, <1>3 DEF ConfInv, TimedIsSeen
  <2> QED BY <2>1, <2>2 DEF TimedIsSeen
<1>8. TimesPast' /\ TimesOwn'
  BY <1>2, <1>3, <1>5 DEF ConfInv, TimesPast, TimesOwn
<1> QED BY <1>4, <1>6, <1>7, <1>8, <1>9 DEF ConfInv

LEMMA StoreIInv == ASSUME ConfInv, NEW r \in Requests, Store(r) PROVE ConfInv'
<1> USE DEF Store, Goes
<1>1. req[r] \in Request /\ req'[r] = [req[r] EXCEPT !.at = "read"]
  BY DEF ConfInv, ConfShape
<1>2. /\ req'[r].at = "read" /\ req'[r].mtime = req[r].mtime /\ req'[r].text = req[r].text
      /\ cache'.mtime = req[r].mtime /\ cache'.text = req[r].text
  BY <1>1 DEF Request
<1>3. \A q \in Requests \ {r} : req'[q] = req[q]
  BY DEF ConfInv, ConfShape
<1>4. ConfShape'
  BY ZenonT(60) DEF ConfInv, ConfShape, Stamped, Request, Places
<1>5. /\ ~Timed(r)' /\ Reading(r)' /\ Reading(r) /\ Timed(r) /\ ~Writing(r)'
      /\ \A q \in Requests \ {r} : /\ Timed(q)' <=> Timed(q)
                                   /\ Reading(q)' <=> Reading(q)
                                   /\ Writing(q)' <=> Writing(q)
  BY <1>2, <1>3 DEF Timed, Reading, Writing
<1>6. SeesPresent' /\ BlindAside' /\ PresentIsPresent'
  BY <1>2, <1>3, <1>5 DEF ConfInv, SeesPresent, BlindAside, PresentIsPresent
<1>7. OwnIsSeen' /\ TimedIsSeen'
  BY <1>2, <1>3, <1>5 DEF ConfInv, OwnIsSeen, TimedIsSeen
<1>8. TimesPast'
  BY <1>2, <1>3 DEF ConfInv, TimesPast
<1>9. TimesOwn'
  BY <1>2, <1>3, <1>5 DEF ConfInv, TimesOwn
<1> QED BY <1>4, <1>6, <1>7, <1>8, <1>9 DEF ConfInv

(* Writing.                                                                *)
LEMMA TempIInv == ASSUME ConfInv, NEW r \in Requests, Temp(r) PROVE ConfInv'
<1> USE DEF Temp
<1>1. req[r] \in Request /\ req'[r] = [req[r] EXCEPT !.at = "rename", !.mtime = times + 1]
  BY DEF ConfInv, ConfShape
<1>2. req'[r].at = "rename" /\ req'[r].mtime = times + 1 /\ times \in Nat /\ times' = times + 1
  BY <1>1 DEF ConfInv, ConfShape, Request
<1>3. \A q \in Requests \ {r} : req'[q] = req[q]
  BY DEF ConfInv, ConfShape
<1>4. ConfShape'
  <2>1. times + 1 \in Nat
    BY <1>2
  <2>2. \A q \in Request, n \in Nat : [q EXCEPT !.at = "rename", !.mtime = n] \in Request
    BY DEF Request, Places
  <2>3. req'[r] \in Request
    BY <1>1, <2>1, <2>2
  <2>4. req' \in [Requests -> Request]
    BY <1>1, <2>3 DEF ConfInv, ConfShape
  <2> QED BY <1>2, <2>4 DEF ConfInv, ConfShape
<1>5. /\ ~Timed(r)' /\ ~Reading(r)' /\ ~Reading(r)
      /\ \A q \in Requests \ {r} : /\ Timed(q)' <=> Timed(q)
                                   /\ Reading(q)' <=> Reading(q)
                                   /\ Writing(q)' <=> Writing(q)
  BY <1>2, <1>3 DEF Timed, Reading, Writing
<1>6. SeesPresent' /\ BlindAside' /\ PresentIsPresent' /\ OwnIsSeen'
  BY <1>2, <1>3, <1>5 DEF ConfInv, SeesPresent, BlindAside, PresentIsPresent, OwnIsSeen
<1>7. TimedIsSeen'
  BY <1>2, <1>3, <1>5 DEF ConfInv, TimedIsSeen
<1>8. /\ file.mtime \in Nat /\ cache.mtime \in Nat
      /\ \A q \in Requests : req[q].mtime \in Nat
  BY DEF ConfInv, ConfShape, Stamped, Request
<1>9. TimesPast'
  BY <1>2, <1>3, <1>8 DEF ConfInv, TimesPast
<1>10. TimesOwn'
  BY <1>2, <1>3, <1>5, <1>8 DEF ConfInv, TimesPast, TimesOwn
<1> QED BY <1>4, <1>6, <1>7, <1>9, <1>10 DEF ConfInv

LEMMA RenameIInv == ASSUME ConfInv, NEW r \in Requests, Rename(r) PROVE ConfInv'
<1> USE DEF Rename
<1>1. req[r] \in Request /\ req'[r] = Idle /\ Writing(r)
  BY DEF ConfInv, ConfShape, Writing
<1>2. req'[r].at = "idle" /\ req'[r].mtime = 0
  BY <1>1 DEF Idle
<1>3. \A q \in Requests \ {r} : req'[q] = req[q]
  BY DEF ConfInv, ConfShape
<1>4. \A q \in Requests : seen'[q] = IF seen[q] = {} THEN {} ELSE seen[q] \cup {req[r].text}
  OBVIOUS
<1>5. file'.mtime = req[r].mtime /\ file'.text = req[r].text /\ req[r].mtime \in Nat
  BY <1>1 DEF Request
<1>6. ConfShape'
  BY <1>1, IdleIsRequest DEF ConfInv, ConfShape, Stamped, Request
<1>7. /\ ~Timed(r)' /\ ~Reading(r)' /\ ~Reading(r) /\ ~Writing(r)'
      /\ \A q \in Requests \ {r} : /\ Timed(q)' <=> Timed(q)
                                   /\ Reading(q)' <=> Reading(q)
                                   /\ Writing(q)' <=> Writing(q)
  BY <1>1, <1>2, <1>3 DEF Timed, Reading, Writing
<1>8. \A q \in Requests : Reading(q) => /\ seen'[q] = seen[q] \cup {req[r].text}
                                        /\ req[r].text \in seen'[q]
  BY <1>4 DEF ConfInv, SeesPresent
<1>9. SeesPresent' /\ BlindAside'
  BY <1>4, <1>5, <1>7, <1>8 DEF ConfInv, SeesPresent, BlindAside
<1>10. PresentIsPresent'
  BY <1>1, <1>2, <1>3, <1>5 DEF ConfInv, PresentIsPresent, TimesOwn, Timed
<1>11. \A q \in Requests : seen[q] \subseteq seen'[q]
  BY <1>4
<1>12. OwnIsSeen' /\ TimedIsSeen'
  BY <1>2, <1>3, <1>7, <1>11 DEF ConfInv, OwnIsSeen, TimedIsSeen
<1>13. TimesPast'
  BY <1>1, <1>2, <1>3, <1>5 DEF ConfInv, ConfShape, TimesPast, TimesOwn
<1>14. TimesOwn'
  BY <1>1, <1>3, <1>5, <1>7 DEF ConfInv, TimesOwn
<1> QED BY <1>6, <1>9, <1>10, <1>12, <1>13, <1>14 DEF ConfInv

LEMMA RestartIInv == ASSUME ConfInv, Restart PROVE ConfInv'
<1> USE DEF Restart
<1>1. \A r \in Requests : req'[r] = Idle /\ seen'[r] = {}
  OBVIOUS
<1>2. \A r \in Requests : req'[r].at = "idle" /\ req'[r].mtime = 0
  BY <1>1 DEF Idle
<1>3. ConfShape'
  BY IdleIsRequest DEF ConfInv, ConfShape, Stamped, Texts
<1>4. SeesPresent' /\ BlindAside' /\ TimedIsSeen' /\ TimesOwn' /\ OwnIsSeen'
  BY <1>1, <1>2 DEF SeesPresent, BlindAside, TimedIsSeen, TimesOwn, OwnIsSeen,
                    Reading, Timed, Writing
<1>5. TimesPast'
  BY <1>2 DEF ConfInv, ConfShape, TimesPast
<1>6. PresentIsPresent'
  BY <1>2 DEF ConfInv, PresentIsPresent, TimesPast
<1> QED BY <1>3, <1>4, <1>5, <1>6 DEF ConfInv

LEMMA NextConfInv == ConfInv /\ [Next]_vars => ConfInv'
<1> SUFFICES ASSUME ConfInv, [Next]_vars PROVE ConfInv'
  OBVIOUS
<1>1. ASSUME NEW r \in Requests, NEW why \in {"get", "save"}, Stat(r, why) PROVE ConfInv'
  BY <1>1, StatIInv
<1>2. ASSUME NEW r \in Requests, Hit(r) \/ Open(r) \/ Store(r) \/ Answer(r) PROVE ConfInv'
  BY <1>2, HitIInv, OpenIInv, StoreIInv, AnswerIInv
<1>3. ASSUME NEW r \in Requests, Edit(r) \/ Restore(r) \/ Backup(r) \/ List(r) PROVE ConfInv'
  BY <1>3, EditIInv, RestoreIInv, BackupIInv, ListIInv
<1>a. ASSUME NEW r \in Requests, StatFails(r) \/ OpenFails(r) PROVE ConfInv'
  BY <1>a, StatFailsIInv, OpenFailsIInv
<1>4. ASSUME NEW r \in Requests, Unlink(r) \/ Temp(r) \/ Rename(r) \/ WriteFails(r)
      PROVE  ConfInv'
  BY <1>4, UnlinkIInv, TempIInv, RenameIInv, WriteFailsIInv
<1>5. ASSUME UNCHANGED <<file, cache, req, times, writes, seen>>, ConfShape' PROVE ConfInv'
  BY <1>5 DEF ConfInv, SeesPresent, BlindAside, PresentIsPresent, TimedIsSeen, TimesPast,
              TimesOwn, OwnIsSeen, Reading, Timed, Writing
<1>6. ASSUME NEW n \in 1..Seconds, DeleteBackup(n) PROVE ConfInv'
  <2>1. ConfShape'
    BY <1>6 DEF DeleteBackup, ConfInv, ConfShape, Texts
  <2> QED BY <1>5, <1>6, <2>1 DEF DeleteBackup
<1>7. CASE Tick
  <2>1. ConfShape'
    BY <1>7 DEF Tick, ConfInv, ConfShape
  <2> QED BY <1>5, <1>7, <2>1 DEF Tick
<1>8. CASE Restart
  BY <1>8, RestartIInv
<1>9. CASE UNCHANGED vars
  <2>1. ConfShape'
    BY <1>9 DEF vars, ConfInv, ConfShape
  <2> QED BY <1>5, <1>9, <2>1 DEF vars
<1> QED BY <1>1, <1>2, <1>3, <1>a, <1>4, <1>6, <1>7, <1>8, <1>9 DEF Next

LEMMA AlwaysConfInv == Spec => []ConfInv
<1>1. Init => ConfInv
  BY InitConfInv
<1>2. ConfInv /\ [Next]_vars => ConfInv'
  BY NextConfInv
<1> QED BY <1>1, <1>2, PTL DEF Spec

(* Requests, backups and times stay in their ranges.                       *)
THEOREM ConfTypes == Spec => []TypeOK
<1>1. ConfInv => TypeOK
  <2> SUFFICES ASSUME ConfInv PROVE TypeOK
    OBVIOUS
  <2>1. file \in [mtime : 1..times, text : Texts] /\ cache \in [mtime : 0..times, text : Texts]
    BY DEF ConfInv, ConfShape, Stamped, TimesPast
  <2>2. \A r \in Requests : /\ req[r].at \in Places /\ req[r].text \in Texts
                            /\ req[r].doomed \subseteq 1..Seconds
    BY DEF ConfInv, ConfShape, Request
  <2> QED BY <2>1, <2>2 DEF ConfInv, ConfShape, TypeOK, Places
<1> QED BY <1>1, AlwaysConfInv, PTL

(* read_conf_file never answers with a text older than the call, however   *)
(* many requests read, save, restore and fail beside it.                   *)
THEOREM ReadsStayFresh == Spec => []ReadsAreFresh
<1>1. ConfInv => ReadsAreFresh
  BY DEF ConfInv, OwnIsSeen, ReadsAreFresh
<1> QED BY <1>1, AlwaysConfInv, PTL

-----------------------------------------------------------------------------
(***************************************************************************)
(* ConfLines.                                                              *)
(***************************************************************************)
(* Every set of naturals that is not empty has a least element.            *)
LEMMA Least ==
    ASSUME NEW T, T \subseteq Nat, T # {} PROVE \E x \in T : \A y \in T : x <= y
<1> DEFINE R == {ss \in Nat \X Nat : ss[1] < ss[2]}
<1>1. IsWellFoundedOn(R, Nat)
  BY NatLessThanWellFounded DEF OpToRel
<1> HIDE DEF R
<1>2. PICK x \in T : \A y \in T : ~ (<<y, x>> \in R)
  BY <1>1, WFMin
<1>3. ASSUME NEW y \in T PROVE x <= y
  <2>1. x \in Nat /\ y \in Nat
    OBVIOUS
  <2>2. y < x => <<y, x>> \in R
    BY <2>1 DEF R
  <2> QED BY <1>2, <2>1, <2>2
<1> QED BY <1>3

LEMMA MinOf ==
    ASSUME NEW T, T \subseteq Nat, T # {} PROVE Min(T) \in T /\ \A y \in T : Min(T) <= y
<1>1. \E x \in T : \A y \in T : x <= y
  BY Least
<1> QED BY <1>1 DEF Min

LEMMA MaxOf ==
    ASSUME NEW n \in Nat, NEW T, T \subseteq 0..n, T # {}
    PROVE  Max(T) \in T /\ \A y \in T : Max(T) >= y
<1> DEFINE U == {n - x : x \in T}
<1>1. U \subseteq Nat /\ U # {}
  OBVIOUS
<1>2. PICK u \in U : \A y \in U : u <= y
  BY <1>1, Least
<1>3. PICK x \in T : u = n - x
  OBVIOUS
<1>4. ASSUME NEW y \in T PROVE x >= y
  <2>1. n - y \in U
    OBVIOUS
  <2> HIDE DEF U
  <2>2. n - x <= n - y /\ x \in Nat /\ y \in Nat
    BY <1>2, <1>3, <2>1
  <2> QED BY <2>2
<1>5. \E z \in T : \A y \in T : z >= y
  BY <1>4
<1> QED BY <1>5 DEF Max

LEMMA MaxIs ==
    ASSUME NEW T, T \subseteq Nat, NEW x \in T, \A y \in T : x >= y PROVE Max(T) = x
<1>1. Max(T) \in T /\ \A y \in T : Max(T) >= y
  BY DEF Max
<1>2. Max(T) >= x /\ x >= Max(T) /\ x \in Nat /\ Max(T) \in Nat
  BY <1>1
<1> QED BY <1>2

-----------------------------------------------------------------------------
(* Lines and what is read of them.                                         *)
LEMMA LinesAre ==
    /\ \A n \in Sections, m \in {"live", "off"} :
          Header(n, m) \in Lines /\ IsHead(Header(n, m)) /\ Header(n, m).name = n
    /\ \A k \in Keys, v \in {"old", "new"}, m \in {"live", "off", "doc"} :
          /\ Set(k, v, m) \in Lines /\ ~IsHead(Set(k, v, m)) /\ Set(k, v, m).kind = "set"
          /\ Set(k, v, m).name = k /\ Set(k, v, m).value = v /\ Set(k, v, m).mark = m
    /\ \A l \in Lines : l.kind \in {"head", "set"}
<1>1. \A n, m : IsHead(Header(n, m)) /\ Header(n, m).name = n /\ Header(n, m).kind = "head"
  BY DEF Header, IsHead
<1>2. \A k, v, m : /\ ~IsHead(Set(k, v, m)) /\ Set(k, v, m).kind = "set"
                   /\ Set(k, v, m).name = k /\ Set(k, v, m).value = v /\ Set(k, v, m).mark = m
  BY DEF Set, IsHead
<1>3. \A n \in Sections, m \in {"live", "off"} : Header(n, m) \in Lines
  BY DEF Lines
<1>4. \A k \in Keys, v \in {"old", "new"}, m \in {"live", "off", "doc"} : Set(k, v, m) \in Lines
  BY DEF Lines
<1>5. ASSUME NEW l \in Lines PROVE l.kind \in {"head", "set"}
  BY <1>1, <1>2 DEF Lines
<1> QED BY <1>1, <1>2, <1>3, <1>4, <1>5

LEMMA ReadsAre ==
    ASSUME NEW text, NEW n, NEW k
    PROVE  Reads(text, n, k) =
             IF k \in Keys /\ Entries(text, n, k) # {}
             THEN {[value |-> text[Max(Entries(text, n, k))].value,
                    mark |-> text[Max(Entries(text, n, k))].mark]}
             ELSE {}
BY DEF Reads, Settings

LEMMA LinePlaces ==
    ASSUME NEW s \in Seq(Lines), NEW n, NEW k
    PROVE  /\ Len(s) \in Nat /\ DOMAIN s = 1..Len(s)
           /\ Heads(s, n) \subseteq DOMAIN s /\ Chosen(s, n) \subseteq Heads(s, n)
           /\ Entries(s, n, k) \subseteq DOMAIN s
           /\ InSection(s, n) \subseteq DOMAIN s /\ Matches(s, n, k) \subseteq InSection(s, n)
<1>1. Len(s) \in Nat /\ DOMAIN s = 1..Len(s) /\ DOMAIN s \subseteq 0..Len(s)
  OBVIOUS
<1>2. Heads(s, n) \subseteq DOMAIN s
  BY DEF Heads
<1>3. Chosen(s, n) \subseteq Heads(s, n)
  <2> DEFINE live == {i \in Heads(s, n) : s[i].mark = "live"}
  <2>1. live # {} => Max(live) \in live
    <3>1. live \subseteq 0..Len(s)
      BY <1>1, <1>2
    <3> HIDE DEF live
    <3> QED BY <1>1, <3>1, MaxOf
  <2>2. Heads(s, n) # {} => Max(Heads(s, n)) \in Heads(s, n)
    <3>1. Heads(s, n) \subseteq 0..Len(s)
      BY <1>1, <1>2
    <3> QED BY <1>1, <3>1, MaxOf
  <2> QED BY <2>1, <2>2 DEF Chosen
<1>4. \A i \in Heads(s, n) : Region(s, i) \subseteq DOMAIN s
  <2> TAKE i \in Heads(s, n)
  <2>1. i \in 1..Len(s)
    BY <1>1, <1>2
  <2> QED BY <1>1, <2>1 DEF Region
<1>5. Entries(s, n, k) \subseteq DOMAIN s
  BY <1>3, <1>4 DEF Entries
<1> QED BY <1>1, <1>2, <1>3, <1>5 DEF InSection, Matches

(***************************************************************************)
(* A text t that holds the lines of s, each at f of where it was.          *)
(***************************************************************************)
Moved(f, s, t) == /\ f \in [DOMAIN s -> DOMAIN t]
                  /\ \A a, b \in DOMAIN s : a < b => f[a] < f[b]

Image(f, T) == {f[j] : j \in T}

LEMMA MaxMoves ==
    ASSUME NEW s \in Seq(Lines), NEW t \in Seq(Lines), NEW f, Moved(f, s, t),
           NEW T, T \subseteq DOMAIN s, T # {}
    PROVE  Max(Image(f, T)) = f[Max(T)] /\ Max(T) \in T
<1>1. Len(s) \in Nat /\ DOMAIN s = 1..Len(s) /\ DOMAIN t = 1..Len(t) /\ Len(t) \in Nat
  OBVIOUS
<1>2. Max(T) \in T /\ \A y \in T : Max(T) >= y
  <2>1. T \subseteq 0..Len(s)
    BY <1>1
  <2> QED BY <1>1, <2>1, MaxOf
<1>3. Image(f, T) \subseteq Nat /\ f[Max(T)] \in Image(f, T)
  BY <1>1, <1>2 DEF Moved, Image
<1>4. ASSUME NEW y \in T PROVE f[Max(T)] >= f[y]
  <2>1. y \in DOMAIN s /\ Max(T) \in DOMAIN s /\ y \in Nat /\ Max(T) \in Nat /\ Max(T) >= y
    BY <1>1, <1>2
  <2>2. f[y] \in Nat /\ f[Max(T)] \in Nat
    BY <1>1, <2>1 DEF Moved
  <2>3. y = Max(T) \/ y < Max(T)
    BY <2>1
  <2> QED BY <2>1, <2>2, <2>3 DEF Moved
<1>5. \A z \in Image(f, T) : f[Max(T)] >= z
  BY <1>4 DEF Image
<1> QED BY <1>2, <1>3, <1>5, MaxIs

(* What the edit of another setting may do: headers stay as they are, a    *)
(* new one is of another section and comes after all that was there; in    *)
(* the section m no line of key q is new, and those there are the same.    *)
Spares(s, t, f, m, q) ==
    /\ Moved(f, s, t)
    /\ \A j \in DOMAIN s : (IsHead(s[j]) <=> IsHead(t[f[j]])) /\ (IsHead(s[j]) => t[f[j]] = s[j])
    /\ \A h \in DOMAIN t : IsHead(t[h]) =>
          \/ \E i \in DOMAIN s : f[i] = h
          \/ t[h].name # m /\ \A i \in DOMAIN s : f[i] < h
    /\ \A i \in Heads(s, m) : \A j \in Region(t, f[i]) :
          t[j].name = q => \E a \in DOMAIN s : f[a] = j
    /\ \A i \in Heads(s, m) : \A j \in Region(s, i) :
          s[j].name = q \/ t[f[j]].name = q => t[f[j]] = s[j]

LEMMA SparedReads ==
    ASSUME NEW s \in Seq(Lines), NEW t \in Seq(Lines), NEW f, NEW m, NEW q, Spares(s, t, f, m, q)
    PROVE  Reads(t, m, q) = Reads(s, m, q)
<1>1. /\ Len(s) \in Nat /\ DOMAIN s = 1..Len(s) /\ Len(t) \in Nat /\ DOMAIN t = 1..Len(t)
      /\ Moved(f, s, t) /\ f \in [DOMAIN s -> DOMAIN t]
      /\ \A j \in DOMAIN s : f[j] \in Nat /\ j \in Nat
  BY DEF Spares, Moved
<1>2. ASSUME NEW a \in DOMAIN s, NEW b \in DOMAIN s
      PROVE  (f[a] < f[b] <=> a < b) /\ (f[a] <= f[b] <=> a <= b)
  <2>1. a \in Nat /\ b \in Nat /\ f[a] \in Nat /\ f[b] \in Nat
    BY <1>1
  <2>2. (a < b => f[a] < f[b]) /\ (b < a => f[b] < f[a])
    BY <1>1 DEF Moved
  <2> QED BY <2>1, <2>2
<1>3. Heads(t, m) = Image(f, Heads(s, m))
  <2>1. ASSUME NEW h \in Heads(t, m) PROVE h \in Image(f, Heads(s, m))
    <3>1. h \in DOMAIN t /\ IsHead(t[h]) /\ t[h].name = m
      BY DEF Heads
    <3>2. PICK i \in DOMAIN s : f[i] = h
      BY <3>1 DEF Spares
    <3>3. IsHead(s[i]) /\ t[h] = s[i]
      BY <3>1, <3>2 DEF Spares
    <3> QED BY <3>1, <3>2, <3>3 DEF Heads, Image
  <2>2. ASSUME NEW i \in Heads(s, m) PROVE f[i] \in Heads(t, m)
    <3>1. i \in DOMAIN s /\ IsHead(s[i]) /\ s[i].name = m
      BY DEF Heads
    <3>2. f[i] \in DOMAIN t /\ IsHead(t[f[i]]) /\ t[f[i]] = s[i]
      BY <1>1, <3>1 DEF Spares
    <3> QED BY <3>1, <3>2 DEF Heads
  <2> QED BY <2>1, <2>2 DEF Image
<1>4. Heads(s, m) \subseteq DOMAIN s /\ \A i \in Heads(s, m) : t[f[i]] = s[i]
  BY DEF Heads, Spares
<1>5. Chosen(t, m) = Image(f, Chosen(s, m)) /\ Chosen(s, m) \subseteq Heads(s, m)
  <2> DEFINE live == {i \in Heads(s, m) : s[i].mark = "live"}
             liveT == {h \in Heads(t, m) : t[h].mark = "live"}
  <2>1. liveT = Image(f, live)
    BY <1>3, <1>4 DEF Image
  <2>2. live \subseteq DOMAIN s
    BY <1>4
  <2>3. /\ Chosen(s, m) = IF live # {} THEN {Max(live)}
                         ELSE IF Heads(s, m) # {} THEN {Max(Heads(s, m))} ELSE {}
        /\ Chosen(t, m) = IF liveT # {} THEN {Max(liveT)}
                         ELSE IF Heads(t, m) # {} THEN {Max(Heads(t, m))} ELSE {}
    BY DEF Chosen
  <2> HIDE DEF live, liveT
  <2>4. (liveT = {} <=> live = {}) /\ (Heads(t, m) = {} <=> Heads(s, m) = {})
    BY <1>3, <2>1 DEF Image
  <2>5. live # {} => Max(liveT) = f[Max(live)]
    BY <1>1, <2>1, <2>2, MaxMoves
  <2>6. Heads(s, m) # {} => Max(Heads(t, m)) = f[Max(Heads(s, m))]
    BY <1>1, <1>3, <1>4, MaxMoves
  <2>7. \A x : Image(f, {x}) = {f[x]}
    BY DEF Image
  <2>8. Image(f, {}) = {}
    BY DEF Image
  <2> QED BY <2>3, <2>4, <2>5, <2>6, <2>7, <2>8, LinePlaces
<1>6. ASSUME NEW i \in Heads(s, m), NEW j \in DOMAIN s
      PROVE  f[j] \in Region(t, f[i]) <=> j \in Region(s, i)
  <2>1. i \in DOMAIN s
    BY <1>4
  <2>2. ASSUME f[j] \in Region(t, f[i]) PROVE j \in Region(s, i)
    <3>1. f[i] < f[j] /\ \A h \in f[i] + 1..f[j] : ~IsHead(t[h])
      BY <1>1, <2>1, <2>2 DEF Region
    <3>2. i < j
      BY <1>2, <2>1, <3>1
    <3>3. ASSUME NEW h \in i + 1..j PROVE ~IsHead(s[h])
      <4>1. h \in DOMAIN s /\ i < h /\ h <= j
        BY <1>1, <2>1
      <4>2. f[i] < f[h] /\ f[h] <= f[j] /\ f[h] \in Nat /\ f[i] \in Nat /\ f[j] \in Nat
        BY <1>1, <1>2, <2>1, <4>1
      <4>3. f[h] \in f[i] + 1..f[j]
        BY <4>2
      <4> QED BY <3>1, <4>1, <4>3 DEF Spares
    <3> QED BY <1>1, <2>1, <3>2, <3>3 DEF Region
  <2>3. ASSUME j \in Region(s, i) PROVE f[j] \in Region(t, f[i])
    <3>1. i < j /\ \A h \in i + 1..j : ~IsHead(s[h])
      BY <1>1, <2>1, <2>3 DEF Region
    <3>2. f[i] < f[j] /\ f[i] \in Nat /\ f[j] \in 1..Len(t)
      BY <1>1, <1>2, <2>1, <3>1
    <3>3. ASSUME NEW g \in f[i] + 1..f[j], IsHead(t[g]) PROVE FALSE
      <4>1. g \in DOMAIN t /\ f[i] < g /\ g <= f[j]
        BY <1>1, <3>2
      <4>2. ~(f[j] < g)
        BY <3>2, <4>1
      <4>3. PICK h \in DOMAIN s : f[h] = g
        BY <3>3, <4>1, <4>2 DEF Spares
      <4>4. i < h /\ h <= j /\ h \in Nat
        BY <1>1, <1>2, <2>1, <4>1, <4>3
      <4>5. h \in i + 1..j
        BY <1>1, <2>1, <4>4
      <4>6. IsHead(s[h])
        BY <3>3, <4>3 DEF Spares
      <4> QED BY <3>1, <4>5, <4>6
    <3> QED BY <1>1, <3>2, <3>3 DEF Region
  <2> QED BY <2>2, <2>3
<1>7. Entries(t, m, q) = Image(f, Entries(s, m, q))
  <2>1. ASSUME NEW x \in Entries(t, m, q) PROVE x \in Image(f, Entries(s, m, q))
    <3>1. PICK c \in Chosen(t, m) : x \in Region(t, c) /\ t[x].name = q /\ t[x].mark # "doc"
      BY DEF Entries
    <3>2. PICK i \in Chosen(s, m) : c = f[i]
      BY <1>5 DEF Image
    <3>3. i \in Heads(s, m)
      BY <1>5
    <3>4. PICK a \in DOMAIN s : f[a] = x
      BY <3>1, <3>2, <3>3 DEF Spares
    <3>5. a \in Region(s, i)
      BY <1>6, <3>1, <3>2, <3>3, <3>4
    <3>6. t[x] = s[a]
      BY <3>1, <3>3, <3>4, <3>5 DEF Spares
    <3>7. a \in Entries(s, m, q)
      BY <3>1, <3>2, <3>5, <3>6 DEF Entries
    <3> QED BY <3>4, <3>7 DEF Image
  <2>2. ASSUME NEW j \in Entries(s, m, q) PROVE f[j] \in Entries(t, m, q)
    <3>1. PICK i \in Chosen(s, m) : j \in Region(s, i) /\ s[j].name = q /\ s[j].mark # "doc"
      BY DEF Entries
    <3>2. i \in Heads(s, m) /\ j \in DOMAIN s
      BY <1>5, LinePlaces
    <3>3. f[j] \in Region(t, f[i]) /\ t[f[j]] = s[j]
      BY <1>6, <3>1, <3>2 DEF Spares
    <3>4. f[i] \in Chosen(t, m)
      BY <1>5 DEF Image
    <3> QED BY <3>1, <3>3, <3>4 DEF Entries
  <2> QED BY <2>1, <2>2 DEF Image
<1>8. CASE Entries(s, m, q) = {}
  <2>1. Entries(t, m, q) = {}
    BY <1>7, <1>8 DEF Image
  <2> QED BY <1>8, <2>1, ReadsAre
<1>9. CASE Entries(s, m, q) # {}
  <2> DEFINE j == Max(Entries(s, m, q))
  <2>1. j \in Entries(s, m, q) /\ Max(Entries(t, m, q)) = f[j]
    BY <1>1, <1>7, <1>9, LinePlaces, MaxMoves
  <2> HIDE DEF j
  <2>2. PICK i \in Chosen(s, m) : j \in Region(s, i) /\ s[j].name = q
    BY <2>1 DEF Entries
  <2>3. t[f[j]] = s[j]
    BY <1>5, <2>2 DEF Spares
  <2>4. Entries(t, m, q) # {}
    BY <1>7, <1>9 DEF Image
  <2> QED BY <1>9, <2>1, <2>3, <2>4, ReadsAre DEF j
<1> QED BY <1>8, <1>9

(***************************************************************************)
(* The edits.                                                              *)
(***************************************************************************)

(* The section a line is in is that of the last header before it.          *)
LEMMA OneSection ==
    ASSUME NEW s \in Seq(Lines), NEW n, NEW m, NEW j \in InSection(s, n), NEW i \in Heads(s, m),
           i <= j, \A h \in i + 1..j : ~IsHead(s[h])
    PROVE  m = n /\ i \in Heads(s, n)
<1>1. Len(s) \in Nat /\ DOMAIN s = 1..Len(s) /\ j \in DOMAIN s /\ i \in DOMAIN s
      /\ IsHead(s[i]) /\ s[i].name = m
  BY DEF InSection, Heads
<1>2. PICK a \in 1..j : IsHead(s[a]) /\ s[a].name = n /\ \A h \in a + 1..j : ~IsHead(s[h])
  BY DEF InSection, HeaderMatch
<1>3. ~(i < a)
  <2>1. i < a => a \in i + 1..j
    BY <1>1
  <2> QED BY <1>2, <2>1
<1>4. ~(a < i)
  <2>1. a < i => i \in a + 1..j
    BY <1>1
  <2> QED BY <1>1, <1>2, <2>1
<1>5. a = i
  BY <1>1, <1>3, <1>4
<1> QED BY <1>1, <1>2, <1>5 DEF Heads

(* A setting of section n replaced where it stands.                        *)
LEMMA ReplacedSpares ==
    ASSUME NEW s \in Seq(Lines), NEW n, NEW k, NEW p \in Matches(s, n, k), NEW x \in Lines,
           x.kind = "set", x.name = k, NEW m, NEW q, m # n \/ q # k
    PROVE  Reads([s EXCEPT ![p] = x], m, q) = Reads(s, m, q)
<1> DEFINE t == [s EXCEPT ![p] = x]
           f == [j \in DOMAIN s |-> j]
<1>1. /\ Len(s) \in Nat /\ DOMAIN s = 1..Len(s) /\ p \in DOMAIN s /\ p \in InSection(s, n)
      /\ s[p].kind = "set" /\ s[p].name = k
  BY LinePlaces DEF Matches
<1>2. /\ t \in Seq(Lines) /\ Len(t) = Len(s) /\ DOMAIN t = DOMAIN s /\ t[p] = x
      /\ \A j \in DOMAIN s : j # p => t[j] = s[j]
  BY <1>1, ExceptSeq
<1>3. \A j \in DOMAIN s : f[j] = j
  OBVIOUS
<1>4. Moved(f, s, t)
  <2>1. f \in [DOMAIN s -> DOMAIN t]
    BY <1>2
  <2> QED BY <1>3, <2>1 DEF Moved
<1> HIDE DEF f, t
<1>5. \A j \in DOMAIN s : (IsHead(s[j]) <=> IsHead(t[f[j]])) /\ (IsHead(s[j]) => t[f[j]] = s[j])
  <2> TAKE j \in DOMAIN s
  <2>1. CASE j = p
    BY <1>1, <1>2, <1>3, <2>1 DEF IsHead
  <2>2. CASE j # p
    BY <1>2, <1>3, <2>2
  <2> QED BY <2>1, <2>2
<1>6. ASSUME NEW i \in Heads(s, m), NEW j \in Region(s, i), s[j].name = q \/ t[f[j]].name = q
      PROVE  t[f[j]] = s[j]
  <2>1. i \in DOMAIN s
    BY DEF Heads
  <2>2. j \in DOMAIN s /\ i <= j /\ \A h \in i + 1..j : ~IsHead(s[h])
    BY <1>1, <2>1 DEF Region
  <2>3. CASE j # p
    BY <1>2, <1>3, <2>2, <2>3
  <2>4. CASE j = p
    <3>1. q = k
      BY <1>1, <1>2, <1>3, <1>6, <2>4
    <3>2. m = n
      BY <1>1, <2>2, <2>4, OneSection
    <3> QED BY <3>1, <3>2
  <2> QED BY <2>3, <2>4
<1>7. \A i \in Heads(s, m) : \A j \in Region(t, f[i]) : \E a \in DOMAIN s : f[a] = j
  <2> TAKE i \in Heads(s, m)
  <2>1. i \in DOMAIN s /\ f[i] = i
    BY <1>3 DEF Heads
  <2> TAKE j \in Region(t, f[i])
  <2>2. j \in DOMAIN s
    BY <1>1, <1>2, <2>1 DEF Region
  <2> QED BY <1>3, <2>2
<1>8. Spares(s, t, f, m, q)
  BY <1>2, <1>3, <1>4, <1>5, <1>6, <1>7 DEF Spares
<1>9. Reads(t, m, q) = Reads(s, m, q)
  BY <1>2, <1>8, SparedReads
<1> QED BY <1>9 DEF t

(* The text t is s with the line x after the e-th.                         *)
Grown(t, s, e, x) ==
    /\ t \in Seq(Lines) /\ Len(t) = Len(s) + 1 /\ t[e + 1] = x
    /\ \A j \in 1..e : t[j] = s[j]
    /\ \A j \in e + 1..Len(s) : t[j + 1] = s[j]

LEMMA Inserted ==
    ASSUME NEW s \in Seq(Lines), NEW e \in 0..Len(s), NEW x \in Lines
    PROVE  Grown(InsertAt(s, e + 1, x), s, e, x)
<1> DEFINE a == SubSeq(s, 1, e)
           b == SubSeq(s, e + 1, Len(s))
           c == a \o <<x>>
<1>1. Len(s) \in Nat /\ e \in Nat /\ e <= Len(s) /\ \A i \in 1..Len(s) : s[i] \in Lines
  OBVIOUS
<1>2. a \in Seq(Lines) /\ Len(a) = e /\ \A j \in 1..e : a[j] = s[j]
  <2>1. 1 \in Int /\ e \in Int /\ \A i \in 1..e : s[i] \in Lines
    BY <1>1
  <2>2. /\ a \in Seq(Lines) /\ Len(a) = IF 1 <= e THEN e - 1 + 1 ELSE 0
        /\ \A j \in 1..e - 1 + 1 : a[j] = s[1 + j - 1]
    BY <2>1, SubSeqProperties
  <2>3. e - 1 + 1 = e /\ (~(1 <= e) => e = 0) /\ \A j \in 1..e : 1 + j - 1 = j
    BY <1>1
  <2> QED BY <2>2, <2>3
<1>3. b \in Seq(Lines) /\ Len(b) = Len(s) - e /\ \A j \in 1..Len(s) - e : b[j] = s[e + j]
  <2>1. e + 1 \in Int /\ Len(s) \in Int /\ \A i \in e + 1..Len(s) : s[i] \in Lines
    BY <1>1
  <2>2. /\ b \in Seq(Lines) /\ Len(b) = IF e + 1 <= Len(s) THEN Len(s) - (e + 1) + 1 ELSE 0
        /\ \A j \in 1..Len(s) - (e + 1) + 1 : b[j] = s[e + 1 + j - 1]
    BY <2>1, SubSeqProperties
  <2>3. /\ Len(s) - (e + 1) + 1 = Len(s) - e /\ (~(e + 1 <= Len(s)) => Len(s) - e = 0)
        /\ \A j \in 1..Len(s) - e : e + 1 + j - 1 = e + j
    BY <1>1
  <2> QED BY <2>2, <2>3
<1> HIDE DEF a, b
<1>4. <<x>> \in Seq(Lines) /\ Len(<<x>>) = 1 /\ <<x>>[1] = x
  OBVIOUS
<1>5. /\ c \in Seq(Lines) /\ Len(c) = e + 1
      /\ \A i \in 1..e + 1 : c[i] = IF i <= e THEN a[i] ELSE <<x>>[i - e]
  BY <1>2, <1>4, ConcatProperties
<1> HIDE DEF c
<1>6. /\ c \o b \in Seq(Lines) /\ Len(c \o b) = (e + 1) + (Len(s) - e)
      /\ \A i \in 1..(e + 1) + (Len(s) - e) :
            (c \o b)[i] = IF i <= e + 1 THEN c[i] ELSE b[i - (e + 1)]
  <2>1. /\ c \o b \in Seq(Lines) /\ Len(c \o b) = Len(c) + Len(b)
        /\ \A i \in 1..Len(c) + Len(b) : (c \o b)[i] = IF i <= Len(c) THEN c[i] ELSE b[i - Len(c)]
    BY <1>3, <1>5, ConcatProperties
  <2>2. Len(c) = e + 1 /\ Len(b) = Len(s) - e
    BY <1>3, <1>5
  <2> QED BY <2>1, <2>2
<1>7. InsertAt(s, e + 1, x) = c \o b
  <2>1. (e + 1) - 1 = e
    BY <1>1
  <2> QED BY <2>1 DEF InsertAt, a, b, c
<1>8. (e + 1) + (Len(s) - e) = Len(s) + 1
  BY <1>1
<1>9. (c \o b)[e + 1] = x
  <2>1. /\ e + 1 \in 1..e + 1 /\ e + 1 \in 1..Len(s) + 1 /\ ~(e + 1 <= e)
        /\ (e + 1) - e = 1 /\ e + 1 <= e + 1
    BY <1>1
  <2>2. (c \o b)[e + 1] = c[e + 1]
    BY <1>6, <1>8, <2>1
  <2>3. c[e + 1] = <<x>>[(e + 1) - e]
    BY <1>5, <2>1
  <2> QED BY <1>4, <2>1, <2>2, <2>3
<1>10. ASSUME NEW j \in 1..e PROVE (c \o b)[j] = s[j]
  <2>1. j \in 1..e + 1 /\ j \in 1..Len(s) + 1 /\ j <= e /\ j <= e + 1
    BY <1>1
  <2> QED BY <1>2, <1>5, <1>6, <1>8, <2>1
<1>11. ASSUME NEW j \in e + 1..Len(s) PROVE (c \o b)[j + 1] = s[j]
  <2>1. j + 1 \in 1..Len(s) + 1 /\ ~(j + 1 <= e + 1) /\ (j + 1) - (e + 1) = j - e
        /\ j - e \in 1..Len(s) - e /\ e + (j - e) = j
    BY <1>1
  <2>2. (c \o b)[j + 1] = b[j - e]
    BY <1>6, <1>8, <2>1
  <2> QED BY <1>3, <2>1, <2>2
<1> QED BY <1>6, <1>7, <1>8, <1>9, <1>10, <1>11 DEF Grown

Shift(s, e) == [j \in DOMAIN s |-> IF j <= e THEN j ELSE j + 1]

LEMMA ShiftedLine ==
    ASSUME NEW s \in Seq(Lines), NEW e, e \in 1..Len(s), NEW x \in Lines,
           NEW t, t = InsertAt(s, e + 1, x), NEW j \in DOMAIN s
    PROVE  t[Shift(s, e)[j]] = s[j]
<1>1. Len(s) \in Nat /\ DOMAIN s = 1..Len(s) /\ e \in 0..Len(s)
  OBVIOUS
<1>2. Grown(t, s, e, x)
  BY <1>1, Inserted
<1>3. Shift(s, e)[j] = IF j <= e THEN j ELSE j + 1
  BY DEF Shift
<1>4. CASE j <= e
  <2>1. j \in 1..e
    BY <1>1, <1>4
  <2> QED BY <1>2, <1>3, <1>4, <2>1 DEF Grown
<1>5. CASE ~(j <= e)
  <2>1. j \in e + 1..Len(s)
    BY <1>1, <1>5
  <2> QED BY <1>2, <1>3, <1>5, <2>1 DEF Grown
<1> QED BY <1>4, <1>5

LEMMA Shifted ==
    ASSUME NEW s \in Seq(Lines), NEW e, e \in 1..Len(s), NEW x \in Lines, ~IsHead(x),
           NEW t, t = InsertAt(s, e + 1, x)
    PROVE  /\ t \in Seq(Lines) /\ DOMAIN t = 1..Len(s) + 1 /\ t[e + 1] = x
           /\ Moved(Shift(s, e), s, t)
           /\ \A j \in DOMAIN s : t[Shift(s, e)[j]] = s[j] /\ (j <= e => Shift(s, e)[j] = j)
           /\ \A h \in DOMAIN t : h # e + 1 => \E j \in DOMAIN s : Shift(s, e)[j] = h
<1> DEFINE f == Shift(s, e)
<1>1. Len(s) \in Nat /\ DOMAIN s = 1..Len(s) /\ e \in 0..Len(s)
  OBVIOUS
<1>2. t \in Seq(Lines) /\ Len(t) = Len(s) + 1 /\ t[e + 1] = x
  <2>1. Grown(t, s, e, x)
    BY <1>1, Inserted
  <2> QED BY <2>1 DEF Grown
<1>3. DOMAIN t = 1..Len(s) + 1
  BY <1>2
<1>4. \A j \in DOMAIN s : f[j] = IF j <= e THEN j ELSE j + 1
  BY DEF Shift
<1>5. Moved(f, s, t)
  <2>1. f \in [DOMAIN s -> DOMAIN t]
    BY <1>1, <1>3 DEF Shift
  <2> HIDE DEF f
  <2>2. ASSUME NEW a \in DOMAIN s, NEW b \in DOMAIN s, a < b PROVE f[a] < f[b]
    BY <1>1, <1>4, <2>2
  <2> QED BY <2>1, <2>2 DEF Moved
<1> HIDE DEF f
<1>6. ASSUME NEW j \in DOMAIN s PROVE t[f[j]] = s[j]
  BY ShiftedLine DEF f
<1>7. ASSUME NEW h \in DOMAIN t, h # e + 1 PROVE \E j \in DOMAIN s : f[j] = h
  <2>1. CASE h <= e
    <3>1. h \in DOMAIN s
      BY <1>1, <1>3, <2>1
    <3> QED BY <1>4, <2>1, <3>1
  <2>2. CASE ~(h <= e)
    <3>1. h - 1 \in DOMAIN s /\ ~(h - 1 <= e) /\ (h - 1) + 1 = h
      BY <1>1, <1>3, <1>7, <2>2
    <3> QED BY <1>4, <3>1
  <2> QED BY <2>1, <2>2
<1> QED BY <1>2, <1>3, <1>4, <1>5, <1>6, <1>7 DEF f

(* A setting of section n added in it.                                     *)
LEMMA InsertedSpares ==
    ASSUME NEW s \in Seq(Lines), NEW n, NEW e, e \in 1..Len(s), e \in InSection(s, n),
           NEW x \in Lines, x.kind = "set", NEW t, t = InsertAt(s, e + 1, x),
           NEW m, NEW q, m # n \/ q # x.name
    PROVE  Reads(t, m, q) = Reads(s, m, q)
<1> DEFINE f == Shift(s, e)
<1>1. Len(s) \in Nat /\ DOMAIN s = 1..Len(s) /\ e \in 1..Len(s) /\ ~IsHead(x)
  BY LinePlaces DEF IsHead
<1>2. /\ t \in Seq(Lines) /\ DOMAIN t = 1..Len(s) + 1 /\ t[e + 1] = x
      /\ Moved(f, s, t)
      /\ \A j \in DOMAIN s : t[f[j]] = s[j] /\ (j <= e => f[j] = j)
      /\ \A h \in DOMAIN t : h # e + 1 => \E j \in DOMAIN s : f[j] = h
  <2>1. t \in Seq(Lines)
    BY <1>1, Shifted
  <2>2. Moved(f, s, t)
    BY <1>1, Shifted
  <2>3. ASSUME NEW j \in DOMAIN s PROVE t[f[j]] = s[j]
    BY <1>1, ShiftedLine
  <2>4. \A j \in DOMAIN s : j <= e => f[j] = j
    BY <1>1, Shifted
  <2>5. \A h \in DOMAIN t : h # e + 1 => \E j \in DOMAIN s : f[j] = h
    BY <1>1, Shifted
  <2>6. DOMAIN t = 1..Len(s) + 1 /\ t[e + 1] = x
    BY <1>1, Shifted
  <2> QED BY <2>1, <2>2, <2>3, <2>4, <2>5, <2>6
<1> HIDE DEF f
<1>3. ASSUME NEW i \in Heads(s, m), NEW j \in Region(t, f[i]), t[j].name = q
      PROVE  \E a \in DOMAIN s : f[a] = j
  <2>1. i \in DOMAIN s /\ f[i] \in DOMAIN t
    BY <1>2 DEF Heads, Moved
  <2>2. Len(t) = Len(s) + 1
    BY <1>1, <1>2
  <2>3. j \in DOMAIN t /\ f[i] < j /\ \A h \in f[i] + 1..j : ~IsHead(t[h])
    BY <1>1, <1>2, <2>1, <2>2 DEF Region
  <2>4. CASE j # e + 1
    BY <1>2, <2>3, <2>4
  <2>5. CASE j = e + 1
    <3>1. q = x.name
      BY <1>2, <1>3, <2>5
    <3>2. i <= e /\ f[i] = i
      <4>1. e \in DOMAIN s /\ f[e] = e
        BY <1>1, <1>2
      <4>2. ~(e < i)
        <5> SUFFICES ASSUME e < i PROVE FALSE
          OBVIOUS
        <5>1. i \in e + 1..Len(s) /\ f[e] < f[i]
          BY <1>1, <1>2, <2>1, <4>1 DEF Moved
        <5>2. f[i] = i + 1
          BY <1>1, <2>1, <5>1 DEF f, Shift
        <5> QED BY <1>1, <2>1, <2>3, <2>5, <5>1, <5>2
      <4> QED BY <1>1, <1>2, <2>1, <4>2
    <3>3. ASSUME NEW h \in i + 1..e PROVE ~IsHead(s[h])
      <4>1. h \in DOMAIN s /\ h <= e /\ h \in f[i] + 1..j
        BY <1>1, <2>1, <2>5, <3>2
      <4> QED BY <1>2, <2>3, <4>1
    <3>4. m = n
      BY <3>2, <3>3, OneSection
    <3> QED BY <3>1, <3>4
  <2> QED BY <2>4, <2>5
<1>4. ASSUME NEW i \in Heads(s, m), NEW j \in Region(s, i) PROVE t[f[j]] = s[j]
  <2>1. i \in DOMAIN s
    BY DEF Heads
  <2>2. j \in DOMAIN s
    BY <1>1, <2>1, <1>4 DEF Region
  <2> QED BY <1>2, <2>2
<1>5. \A h \in DOMAIN t : IsHead(t[h]) => \E i \in DOMAIN s : f[i] = h
  BY <1>1, <1>2
<1>6. Spares(s, t, f, m, q)
  BY <1>2, <1>3, <1>4, <1>5 DEF Spares
<1> QED BY <1>2, <1>6, SparedReads

(* A stanza n added at the end.                                            *)
LEMMA AppendedSpares ==
    ASSUME NEW s \in Seq(Lines), NEW n \in Sections, NEW k \in Keys, NEW m, NEW q, m # n
    PROVE  Appended(s, n, k) \in Seq(Lines) /\ Reads(Appended(s, n, k), m, q) = Reads(s, m, q)
<1> DEFINE u == <<Header(n, "live"), Set(k, "new", "live")>>
           t == s \o u
           f == [j \in DOMAIN s |-> j]
<1>1. Len(s) \in Nat /\ DOMAIN s = 1..Len(s)
  OBVIOUS
<1>2. /\ u \in Seq(Lines) /\ Len(u) = 2 /\ IsHead(u[1]) /\ u[1].name = n /\ ~IsHead(u[2])
  <2>1. /\ Header(n, "live") \in Lines /\ IsHead(Header(n, "live")) /\ Header(n, "live").name = n
        /\ Set(k, "new", "live") \in Lines /\ ~IsHead(Set(k, "new", "live"))
    BY LinesAre
  <2> QED BY <2>1
<1> HIDE DEF u
<1>3. /\ t \in Seq(Lines) /\ Len(t) = Len(s) + 2 /\ DOMAIN t = 1..Len(s) + 2
      /\ \A j \in 1..Len(s) + 2 : t[j] = IF j <= Len(s) THEN s[j] ELSE u[j - Len(s)]
  <2>1. /\ t \in Seq(Lines) /\ Len(t) = Len(s) + Len(u)
        /\ \A j \in 1..Len(s) + Len(u) : t[j] = IF j <= Len(s) THEN s[j] ELSE u[j - Len(s)]
    BY <1>2, ConcatProperties
  <2> HIDE DEF t
  <2> QED BY <1>1, <1>2, <2>1
<1>4. \A j \in DOMAIN s : f[j] = j /\ t[j] = s[j] /\ j \in DOMAIN t
  BY <1>1, <1>3
<1>5. t[Len(s) + 1] = u[1] /\ t[Len(s) + 2] = u[2]
  <2>1. /\ Len(s) + 1 \in 1..Len(s) + 2 /\ ~(Len(s) + 1 <= Len(s)) /\ (Len(s) + 1) - Len(s) = 1
        /\ Len(s) + 2 \in 1..Len(s) + 2 /\ ~(Len(s) + 2 <= Len(s)) /\ (Len(s) + 2) - Len(s) = 2
    BY <1>1
  <2>2. t[Len(s) + 1] = u[(Len(s) + 1) - Len(s)] /\ t[Len(s) + 2] = u[(Len(s) + 2) - Len(s)]
    BY <1>3, <2>1
  <2> QED BY <2>1, <2>2
<1>6. Moved(f, s, t)
  <2>1. f \in [DOMAIN s -> DOMAIN t]
    BY <1>4
  <2> QED BY <1>4, <2>1 DEF Moved
<1> HIDE DEF f, t
<1>7. ASSUME NEW h \in DOMAIN t, IsHead(t[h])
      PROVE  \/ \E i \in DOMAIN s : f[i] = h
             \/ t[h].name # m /\ \A i \in DOMAIN s : f[i] < h
  <2>1. CASE h \in DOMAIN s
    BY <1>4, <2>1
  <2>2. CASE h \notin DOMAIN s
    <3>1. h = Len(s) + 1 \/ h = Len(s) + 2
      BY <1>1, <1>3, <2>2
    <3>2. h = Len(s) + 1 /\ t[h].name = n
      BY <1>2, <1>5, <1>7, <3>1
    <3>3. \A i \in DOMAIN s : f[i] < h
      BY <1>1, <1>4, <3>2
    <3> QED BY <3>2, <3>3
  <2> QED BY <2>1, <2>2
<1>8. ASSUME NEW i \in Heads(s, m), NEW j \in Region(t, f[i]) PROVE \E a \in DOMAIN s : f[a] = j
  <2>1. i \in DOMAIN s /\ f[i] = i
    BY <1>4 DEF Heads
  <2>2. j \in i + 1..Len(s) + 2 /\ \A h \in i + 1..j : ~IsHead(t[h])
    BY <1>3, <2>1 DEF Region
  <2>3. ~(Len(s) < j)
    <3> SUFFICES ASSUME Len(s) < j PROVE FALSE
      OBVIOUS
    <3>1. Len(s) + 1 \in i + 1..j
      BY <1>1, <2>1, <2>2
    <3> QED BY <1>2, <1>5, <2>2, <3>1
  <2>4. j \in DOMAIN s
    BY <1>1, <2>1, <2>2, <2>3
  <2> QED BY <1>4, <2>4
<1>9. ASSUME NEW i \in Heads(s, m), NEW j \in Region(s, i) PROVE t[f[j]] = s[j]
  <2>1. i \in DOMAIN s
    BY DEF Heads
  <2>2. j \in DOMAIN s
    BY <1>1, <2>1, <1>9 DEF Region
  <2> QED BY <1>4, <2>2
<1>10. Spares(s, t, f, m, q)
  BY <1>4, <1>6, <1>7, <1>8, <1>9 DEF Spares
<1>11. Reads(t, m, q) = Reads(s, m, q)
  BY <1>3, <1>10, SparedReads
<1>12. Appended(s, n, k) = t
  BY DEF Appended, t, u
<1> QED BY <1>3, <1>11, <1>12

(***************************************************************************)
(* What was saved is read.                                                 *)
(***************************************************************************)

(* A section that is in the text has a line after which it stops.          *)
LEMMA StopsAre ==
    ASSUME NEW s \in Seq(Lines), NEW n, InSection(s, n) # {}
    PROVE  Min(Stops(s, n)) \in InSection(s, n)
<1>1. Len(s) \in Nat /\ DOMAIN s = 1..Len(s) /\ InSection(s, n) \subseteq DOMAIN s
  BY LinePlaces
<1>2. InSection(s, n) \subseteq 0..Len(s)
  BY <1>1
<1> DEFINE j == Max(InSection(s, n))
<1>3. j \in InSection(s, n) /\ \A y \in InSection(s, n) : j >= y
  BY <1>1, <1>2, MaxOf
<1> HIDE DEF j
<1>4. ASSUME j # Len(s), ~HeaderMatch(s, j + 1) PROVE FALSE
  <2>1. j + 1 \in DOMAIN s /\ j \in 1..Len(s)
    BY <1>1, <1>3, <1>4
  <2>2. PICK i \in 1..j : /\ HeaderMatch(s, i) /\ s[i].name = n
                          /\ \A h \in i + 1..j : ~HeaderMatch(s, h)
    BY <1>3 DEF InSection
  <2>3. i \in 1..j + 1 /\ \A h \in i + 1..j + 1 : h \in i + 1..j \/ h = j + 1
    BY <2>1
  <2>4. j + 1 \in InSection(s, n)
    BY <1>4, <2>1, <2>2, <2>3 DEF InSection
  <2> QED BY <1>3, <2>1, <2>4
<1>5. j \in Stops(s, n)
  BY <1>3, <1>4 DEF Stops
<1>6. Stops(s, n) \subseteq Nat /\ Stops(s, n) # {}
  BY <1>1, <1>5 DEF Stops
<1>7. Min(Stops(s, n)) \in Stops(s, n)
  BY <1>6, MinOf
<1> QED BY <1>7 DEF Stops

(* The only line of a key in the only stanza of a name is what is read.    *)
LEMMA OnlyRead ==
    ASSUME NEW t \in Seq(Lines), NEW n, NEW k \in Keys, NEW i, Heads(t, n) = {i},
           NEW p \in Region(t, i), t[p].name = k, t[p].mark # "doc",
           \A j \in Region(t, i) : t[j].name = k => j = p
    PROVE  Reads(t, n, k) = {[value |-> t[p].value, mark |-> t[p].mark]}
<1>1. i \in DOMAIN t /\ DOMAIN t = 1..Len(t) /\ Len(t) \in Nat
  BY DEF Heads
<1>2. Max({i}) = i
  <2>1. i \in Nat /\ {i} \subseteq Nat /\ i \in {i} /\ \A y \in {i} : i >= y
    BY <1>1
  <2> QED BY <2>1, MaxIs
<1>3. Chosen(t, n) = {i}
  <2> DEFINE live == {h \in Heads(t, n) : t[h].mark = "live"}
  <2>1. live = {} \/ live = {i}
    OBVIOUS
  <2> HIDE DEF live
  <2>2. Chosen(t, n) = IF live # {} THEN {Max(live)}
                       ELSE IF Heads(t, n) # {} THEN {Max(Heads(t, n))} ELSE {}
    BY DEF Chosen, live
  <2> QED BY <1>2, <2>1, <2>2
<1>4. Entries(t, n, k) = {p}
  BY <1>3 DEF Entries
<1>5. Max({p}) = p
  <2>1. p \in Nat
    BY <1>1 DEF Region
  <2>2. {p} \subseteq Nat /\ p \in {p} /\ \A y \in {p} : p >= y
    BY <2>1
  <2> QED BY <2>2, MaxIs
<1> QED BY <1>4, <1>5, ReadsAre

LEMMA SavedIsRead ==
    ASSUME NEW s \in Seq(Lines), NEW n, NEW k \in Keys, NEW on \in BOOLEAN, Plain(s, n, k)
    PROVE  Reads(Updated(s, n, k, "new", on), n, k)
             = {[value |-> "new", mark |-> IF on THEN "live" ELSE "off"]}
<1> DEFINE x == Set(k, "new", IF on THEN "live" ELSE "off")
           t == Updated(s, n, k, "new", on)
<1>1. /\ x \in Lines /\ x.kind = "set" /\ ~IsHead(x) /\ x.name = k /\ x.value = "new"
      /\ x.mark = (IF on THEN "live" ELSE "off") /\ x.mark # "doc"
  BY LinesAre
<1>2. Len(s) \in Nat /\ DOMAIN s = 1..Len(s) /\ \A j \in DOMAIN s : s[j].kind \in {"head", "set"}
  BY LinesAre
<1>3. PICK i \in DOMAIN s : Heads(s, n) = {i}
  BY DEF Plain
<1>4. IsHead(s[i]) /\ s[i].name = n /\ i \in 1..Len(s)
  BY <1>2, <1>3 DEF Heads
<1>5. InSection(s, n) = {i} \cup Region(s, i)
  <2>1. ASSUME NEW j \in InSection(s, n) PROVE j \in {i} \cup Region(s, i)
    <3>1. PICK a \in 1..j : IsHead(s[a]) /\ s[a].name = n /\ \A h \in a + 1..j : ~IsHead(s[h])
      BY DEF InSection, HeaderMatch
    <3>2. j \in 1..Len(s) /\ a \in DOMAIN s
      BY <1>2 DEF InSection
    <3>3. a = i
      BY <1>3, <3>1, <3>2 DEF Heads
    <3> QED BY <1>2, <3>1, <3>2, <3>3 DEF Region
  <2>2. i \in InSection(s, n)
    <3>1. i \in 1..i /\ i + 1..i = {}
      BY <1>4
    <3> QED BY <1>3, <1>4, <3>1 DEF InSection, HeaderMatch
  <2>3. ASSUME NEW j \in Region(s, i) PROVE j \in InSection(s, n)
    <3>1. j \in DOMAIN s /\ i \in 1..j /\ \A h \in i + 1..j : ~IsHead(s[h])
      BY <1>2, <1>4 DEF Region
    <3> QED BY <1>4, <3>1 DEF InSection, HeaderMatch
  <2> QED BY <2>1, <2>2, <2>3
<1>6. ASSUME NEW j \in Region(s, i), s[j].name = k PROVE j \in Matches(s, n, k)
  <2>1. j \in DOMAIN s /\ ~IsHead(s[j])
    BY <1>2, <1>4 DEF Region
  <2>2. s[j].kind = "set"
    BY <1>2, <2>1 DEF IsHead
  <2> QED BY <1>5, <1>6, <2>2 DEF Matches
<1>7. CASE Matches(s, n, k) # {}
  <2> DEFINE p == Min(Matches(s, n, k))
  <2>1. p \in Matches(s, n, k) /\ t = [s EXCEPT ![p] = x]
    <3>1. Matches(s, n, k) \subseteq Nat
      BY <1>2, LinePlaces
    <3> QED BY <1>7, <3>1, MinOf DEF Updated
  <2> HIDE DEF p, t, x
  <2>2. p \in Region(s, i) /\ p \in DOMAIN s
    <3>1. p \in InSection(s, n) /\ s[p].kind = "set"
      BY <2>1 DEF Matches
    <3>2. p # i
      BY <1>4, <3>1 DEF IsHead
    <3> QED BY <1>5, <3>1, <3>2, LinePlaces
  <2>3. /\ t \in Seq(Lines) /\ Len(t) = Len(s) /\ DOMAIN t = DOMAIN s /\ t[p] = x
        /\ \A j \in DOMAIN s : j # p => t[j] = s[j]
    BY <1>1, <1>2, <2>1, <2>2, ExceptSeq
  <2>4. ~IsHead(s[p]) /\ ~IsHead(t[p])
    BY <1>1, <1>2, <1>4, <2>2, <2>3 DEF Region
  <2>5. \A j \in DOMAIN s : IsHead(t[j]) <=> IsHead(s[j])
    BY <2>3, <2>4
  <2>6. Heads(t, n) = {i}
    BY <1>3, <2>3, <2>4 DEF Heads
  <2>7. Region(t, i) = Region(s, i)
    <3>1. \A j \in i + 1..Len(s) : \A h \in i + 1..j : h \in DOMAIN s
      BY <1>2, <1>4
    <3> QED BY <2>3, <2>5, <3>1 DEF Region
  <2>8. \A j \in Region(t, i) : t[j].name = k => j = p
    <3> SUFFICES ASSUME NEW j \in Region(s, i), t[j].name = k, j # p PROVE FALSE
      BY <2>7
    <3>1. j \in DOMAIN s
      BY <1>2, <1>4 DEF Region
    <3>2. j \in Matches(s, n, k)
      BY <1>6, <2>3, <3>1
    <3> QED BY <2>1, <3>2 DEF Plain
  <2>9. Reads(t, n, k) = {[value |-> t[p].value, mark |-> t[p].mark]}
    BY <1>1, <2>2, <2>3, <2>6, <2>7, <2>8, OnlyRead
  <2> QED BY <1>1, <2>3, <2>9 DEF t
<1>8. CASE Matches(s, n, k) = {}
  <2> DEFINE e == Min(Stops(s, n))
             f == Shift(s, e)
  <2>1. InSection(s, n) # {}
    BY <1>5
  <2>2. e \in InSection(s, n) /\ t = InsertAt(s, e + 1, x)
    BY <1>8, <2>1, StopsAre DEF Updated, Insert
  <2>3. e \in 1..Len(s) /\ i <= e /\ \A h \in i + 1..e : ~IsHead(s[h])
    <3>1. e \in {i} \cup Region(s, i)
      BY <1>5, <2>2
    <3> HIDE DEF e
    <3> QED BY <1>2, <1>4, <3>1 DEF Region
  <2>4. /\ t \in Seq(Lines) /\ DOMAIN t = 1..Len(s) + 1 /\ t[e + 1] = x
        /\ Moved(f, s, t)
        /\ \A j \in DOMAIN s : t[f[j]] = s[j] /\ (j <= e => f[j] = j)
        /\ \A h \in DOMAIN t : h # e + 1 => \E j \in DOMAIN s : f[j] = h
    <3> HIDE DEF e, t, x
    <3> QED BY <1>1, <2>2, <2>3, Shifted
  <2>5. f[i] = i /\ \A j \in DOMAIN s : f[j] = IF j <= e THEN j ELSE j + 1
    BY <1>3, <2>3, <2>4 DEF Shift
  <2> HIDE DEF e, f, t, x
  <2>6. Heads(t, n) = {i}
    <3>1. i \in Heads(t, n)
      BY <1>3, <1>4, <2>4, <2>5 DEF Heads, Moved
    <3>2. ASSUME NEW h \in Heads(t, n) PROVE h = i
      <4>1. h \in DOMAIN t /\ IsHead(t[h]) /\ t[h].name = n
        BY DEF Heads
      <4>2. PICK j \in DOMAIN s : f[j] = h
        BY <1>1, <2>4, <4>1
      <4>3. j \in Heads(s, n)
        BY <2>4, <4>1, <4>2 DEF Heads
      <4> QED BY <1>3, <2>5, <4>2, <4>3
    <3> QED BY <3>1, <3>2
  <2>7. Len(t) = Len(s) + 1
    BY <1>2, <2>4
  <2>8. e + 1 \in Region(t, i)
    <3>1. e + 1 \in i + 1..Len(t)
      BY <1>2, <1>4, <2>3, <2>7
    <3>2. ASSUME NEW h \in i + 1..e + 1 PROVE ~IsHead(t[h])
      <4>1. CASE h = e + 1
        BY <1>1, <2>4, <4>1
      <4>2. CASE h # e + 1
        <5>1. h \in i + 1..e /\ h \in DOMAIN s /\ h <= e
          BY <1>2, <1>4, <2>3, <4>2
        <5> QED BY <2>3, <2>4, <5>1
      <4> QED BY <4>1, <4>2
    <3> QED BY <3>1, <3>2 DEF Region
  <2>9. ASSUME NEW j \in Region(t, i), t[j].name = k, j # e + 1 PROVE FALSE
    <3>1. j \in DOMAIN t /\ i < j /\ \A h \in i + 1..j : ~IsHead(t[h])
      BY <1>4, <2>4, <2>7 DEF Region
    <3>2. PICK a \in DOMAIN s : f[a] = j
      BY <2>4, <2>9, <3>1
    <3>3. i < a
      BY <1>2, <1>4, <2>3, <2>5, <3>1, <3>2
    <3>4. ASSUME NEW h \in i + 1..a PROVE ~IsHead(s[h])
      <4>1. h \in DOMAIN s /\ f[h] \in i + 1..j
        BY <1>2, <1>4, <2>3, <2>5, <3>2
      <4> QED BY <2>4, <3>1, <4>1
    <3>5. a \in Region(s, i)
      BY <1>2, <1>4, <3>3, <3>4 DEF Region
    <3>6. s[a].name = k
      BY <2>4, <2>9, <3>2
    <3> QED BY <1>6, <1>8, <3>5, <3>6
  <2>10. Reads(t, n, k) = {[value |-> t[e + 1].value, mark |-> t[e + 1].mark]}
    <3>1. t[e + 1].name = k /\ t[e + 1].mark # "doc"
      BY <1>1, <2>4
    <3>2. \A j \in Region(t, i) : t[j].name = k => j = e + 1
      BY <2>9
    <3> QED BY <2>4, <2>6, <2>8, <3>1, <3>2, OnlyRead
  <2> QED BY <1>1, <2>4, <2>10 DEF t
<1> QED BY <1>7, <1>8

(* No change of one setting is seen by a reader of another.                *)
LEMMA SavedSpares ==
    ASSUME NEW s \in Seq(Lines), NEW n \in Sections, NEW k \in Keys, NEW on \in BOOLEAN,
           NEW m, NEW q, m # n \/ q # k
    PROVE  Reads(Updated(s, n, k, "new", on), m, q) = Reads(s, m, q)
<1> DEFINE x == Set(k, "new", IF on THEN "live" ELSE "off")
           t == Updated(s, n, k, "new", on)
<1>1. x \in Lines /\ x.kind = "set" /\ x.name = k
  BY LinesAre
<1>2. t = IF Matches(s, n, k) = {} THEN Insert(s, n, x) ELSE [s EXCEPT ![Min(Matches(s, n, k))] = x]
  BY DEF Updated
<1> HIDE DEF x, t
<1>3. CASE Matches(s, n, k) # {}
  <2>1. Min(Matches(s, n, k)) \in Matches(s, n, k)
    <3>1. Matches(s, n, k) \subseteq Nat
      BY LinePlaces
    <3> QED BY <1>3, <3>1, MinOf
  <2> QED BY <1>1, <1>2, <1>3, <2>1, ReplacedSpares DEF t
<1>4. CASE Matches(s, n, k) = {} /\ InSection(s, n) = {}
  BY <1>2, <1>4 DEF Insert, t
<1>5. CASE Matches(s, n, k) = {} /\ InSection(s, n) # {}
  <2>1. Min(Stops(s, n)) \in InSection(s, n)
    BY <1>5, StopsAre
  <2> DEFINE e == Min(Stops(s, n))
  <2>2. t = InsertAt(s, e + 1, x)
    BY <1>2, <1>5 DEF Insert
  <2>3. e \in InSection(s, n) /\ e \in 1..Len(s)
    BY <2>1, LinePlaces
  <2> HIDE DEF e
  <2>4. Reads(t, m, q) = Reads(s, m, q)
    <3>1. x \in Lines /\ x.kind = "set" /\ x.name = k /\ (m # n \/ q # x.name)
      BY <1>1
    <3> HIDE DEF t
    <3> QED BY <3>1, <2>2, <2>3, InsertedSpares
  <2> QED BY <2>4 DEF t
<1> QED BY <1>3, <1>4, <1>5

(***************************************************************************)
(* The steps.                                                              *)
(***************************************************************************)
LEMMA UpdatedIsText ==
    ASSUME NEW s \in Seq(Lines), NEW n \in Sections, NEW k \in Keys, NEW on \in BOOLEAN
    PROVE  Updated(s, n, k, "new", on) \in Seq(Lines)
<1> DEFINE x == Set(k, "new", IF on THEN "live" ELSE "off")
           t == Updated(s, n, k, "new", on)
<1>1. x \in Lines
  BY LinesAre
<1>2. t = IF Matches(s, n, k) = {} THEN Insert(s, n, x) ELSE [s EXCEPT ![Min(Matches(s, n, k))] = x]
  BY DEF Updated
<1>3. Len(s) \in Nat /\ DOMAIN s = 1..Len(s)
  OBVIOUS
<1> HIDE DEF x, t
<1>4. CASE Matches(s, n, k) # {}
  <2>1. Min(Matches(s, n, k)) \in DOMAIN s
    <3>1. Matches(s, n, k) \subseteq Nat /\ Matches(s, n, k) \subseteq DOMAIN s
      BY LinePlaces
    <3> QED BY <1>4, <3>1, MinOf
  <2>2. [s EXCEPT ![Min(Matches(s, n, k))] = x] \in Seq(Lines)
    BY <1>1, <1>3, <2>1, ExceptSeq
  <2> QED BY <1>2, <1>4, <2>2 DEF t
<1>5. CASE Matches(s, n, k) = {} /\ InSection(s, n) = {}
  BY <1>2, <1>5 DEF Insert, t
<1>6. CASE Matches(s, n, k) = {} /\ InSection(s, n) # {}
  <2> DEFINE e == Min(Stops(s, n))
  <2>1. e \in InSection(s, n)
    BY <1>6, StopsAre
  <2>2. t = InsertAt(s, e + 1, x)
    BY <1>2, <1>6 DEF Insert
  <2> HIDE DEF e, t
  <2>3. e \in 0..Len(s)
    <3>1. InSection(s, n) \subseteq DOMAIN s
      BY LinePlaces
    <3> QED BY <1>3, <2>1, <3>1
  <2>4. t \in Seq(Lines)
    BY <1>1, <2>2, <2>3, Inserted DEF Grown
  <2> QED BY <2>4 DEF t
<1> QED BY <1>4, <1>5, <1>6

LEMMA AppendedIsText ==
    ASSUME NEW s \in Seq(Lines), NEW n \in Sections, NEW k \in Keys
    PROVE  Appended(s, n, k) \in Seq(Lines)
<1>1. Header(n, "live") \in Lines /\ Set(k, "new", "live") \in Lines
  BY LinesAre
<1>2. <<Header(n, "live"), Set(k, "new", "live")>> \in Seq(Lines)
  BY <1>1
<1> QED BY <1>2 DEF Appended

LEMMA LoopbackIsText ==
    ASSUME NEW s \in Seq(Lines), NEW k \in Keys, \E i \in Heads(s, Nodes) : s[i].mark = "live"
    PROVE  Loopback(s, k) \in Seq(Lines)
<1> DEFINE live == {i \in Heads(s, Nodes) : s[i].mark = "live"}
           start == Min(live)
           stop == {i \in (start + 1)..Len(s) : IsHead(s[i]) /\ s[i].mark = "live"}
           end == IF stop = {} THEN Len(s) ELSE Min(stop) - 1
           entries == {i \in (start + 1)..end : s[i].mark = "live"}
           e == IF entries = {} THEN start ELSE Max(entries)
           x == Set(k, "new", "live")
<1>1. Len(s) \in Nat /\ DOMAIN s = 1..Len(s) /\ x \in Lines
  BY LinesAre
<1>2. Loopback(s, k) = IF \E i \in entries : s[i].name = k THEN s ELSE InsertAt(s, e + 1, x)
  BY DEF Loopback
<1>3. live \subseteq 1..Len(s) /\ live # {} /\ live \subseteq Nat
  BY <1>1 DEF Heads
<1> HIDE DEF live, x
<1>4. start \in 1..Len(s)
  BY <1>1, <1>3, MinOf
<1> HIDE DEF start
<1>5. stop \subseteq Nat /\ stop \subseteq 1..Len(s)
  BY <1>1, <1>4
<1> HIDE DEF stop
<1>6. end \in 0..Len(s)
  <2>1. CASE stop = {}
    BY <1>1, <2>1
  <2>2. CASE stop # {}
    <3>1. Min(stop) \in 1..Len(s)
      BY <1>5, <2>2, MinOf
    <3>2. Min(stop) - 1 \in 0..Len(s)
      BY <1>1, <3>1
    <3> QED BY <2>2, <3>2
  <2> QED BY <2>1, <2>2
<1> HIDE DEF end
<1>7. entries \subseteq 0..Len(s)
  BY <1>1, <1>4, <1>6
<1> HIDE DEF entries
<1>8. e \in 0..Len(s)
  <2>1. CASE entries = {}
    BY <1>1, <1>4, <2>1
  <2>2. CASE entries # {}
    <3>1. Max(entries) \in entries
      BY <1>1, <1>7, <2>2, MaxOf
    <3> QED BY <1>7, <2>2, <3>1
  <2> QED BY <2>1, <2>2
<1> HIDE DEF e
<1>9. InsertAt(s, e + 1, x) \in Seq(Lines)
  BY <1>1, <1>8, Inserted DEF Grown
<1> QED BY <1>2, <1>9

LEMMA LinesStart == LinesInit => LinesTypeOK
<1> SUFFICES ASSUME LinesInit PROVE LinesTypeOK
  OBVIOUS
<1>1. PICK n \in 0..MaxLines : conf \in [1..n -> {l \in Lines : l.value # "new"}]
  BY DEF LinesInit
<1>2. n \in Nat /\ conf \in [1..n -> Lines]
  BY <1>1, LinesAssumption
<1>3. conf \in Seq(Lines)
  BY <1>2, SeqDef
<1> QED BY <1>3 DEF LinesInit, LinesTypeOK

LEMMA LinesKept == LinesTypeOK /\ [LinesNext]_linesVars => LinesTypeOK'
<1> SUFFICES ASSUME LinesTypeOK, [LinesNext]_linesVars PROVE LinesTypeOK'
  OBVIOUS
<1> USE DEF LinesTypeOK
<1>1. ASSUME NEW n \in Sections, NEW k \in Keys, NEW on \in BOOLEAN, Save(n, k, on)
      PROVE  LinesTypeOK'
  BY <1>1, UpdatedIsText DEF Save
<1>2. ASSUME NEW n \in Sections, NEW k \in Keys, AddStanza(n, k) PROVE LinesTypeOK'
  BY <1>2, AppendedIsText DEF AddStanza
<1>3. ASSUME NEW k \in Keys, Link(k) PROVE LinesTypeOK'
  BY <1>3, LoopbackIsText DEF Link
<1>4. CASE UNCHANGED linesVars
  BY <1>4 DEF linesVars
<1> QED BY <1>1, <1>2, <1>3, <1>4 DEF LinesNext

(* A setting saved, or a stanza added, is read back and changes nothing    *)
(* that is read of the others.                                             *)
LEMMA ExactStep == LinesTypeOK => EditIsExact
<1> SUFFICES ASSUME LinesTypeOK, NEW n \in Sections, NEW k \in Keys
             PROVE  /\ \A on \in BOOLEAN :
                          Save(n, k, on) /\ Plain(conf, n, k) => ReadsBack(n, k, on)
                    /\ \A m \in Sections, q \in Keys :
                          \/ AddStanza(n, k) /\ m # n
                          \/ (\E on \in BOOLEAN : Save(n, k, on)) /\ <<m, q>> # <<n, k>>
                          => Reads(conf', m, q) = Reads(conf, m, q)
  BY DEF EditIsExact
<1>1. conf \in Seq(Lines)
  BY DEF LinesTypeOK
<1>2. ASSUME NEW on \in BOOLEAN, Save(n, k, on), Plain(conf, n, k) PROVE ReadsBack(n, k, on)
  <2>1. conf' = Updated(conf, n, k, "new", on)
    BY <1>2 DEF Save
  <2>2. Reads(Updated(conf, n, k, "new", on), n, k)
          = {[value |-> "new", mark |-> IF on THEN "live" ELSE "off"]}
    BY <1>1, <1>2, SavedIsRead
  <2> QED BY <2>1, <2>2 DEF ReadsBack
<1>3. ASSUME NEW m \in Sections, NEW q \in Keys, AddStanza(n, k), m # n
      PROVE  Reads(conf', m, q) = Reads(conf, m, q)
  BY <1>1, <1>3, AppendedSpares DEF AddStanza
<1>4. ASSUME NEW m \in Sections, NEW q \in Keys, NEW on \in BOOLEAN, Save(n, k, on),
             <<m, q>> # <<n, k>>
      PROVE  Reads(conf', m, q) = Reads(conf, m, q)
  <2>1. m # n \/ q # k
    BY <1>4
  <2> QED BY <1>1, <1>4, <2>1, SavedSpares DEF Save
<1> QED BY <1>2, <1>3, <1>4

(* rpt.conf stays a text of headers and settings under every edit.         *)
THEOREM LinesTypes == LinesSpec => []LinesTypeOK
<1> QED BY LinesStart, LinesKept, PTL DEF LinesSpec

(* For texts of any length, sections and keys: a setting saved is read     *)
(* back where it stands once, and an edit of one setting, or a stanza      *)
(* added, is seen by no reader of another.                                 *)
THEOREM EditsChangeOnlyTheirs == LinesSpec => OnlyItChanges
<1>1. LinesTypeOK => EditIsExact
  BY ExactStep
<1> QED BY <1>1, LinesTypes, PTL DEF OnlyItChanges

=============================================================================
