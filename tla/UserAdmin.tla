----------------------------- MODULE UserAdmin -----------------------------
(***************************************************************************)
(* Dashboard accounts: login cookies, the password change, and what a      *)
(* superadmin does to other accounts (invite, reset, change of role,       *)
(* removal).  A request is one database session.  It loads its caller from *)
(* the cookie, checks the role it loaded, loads its target and commits;    *)
(* other requests run in between.                                          *)
(***************************************************************************)
EXTENDS Naturals, FiniteSets, UnitOfWork

CONSTANTS
    Staff,          \* lower-case e-mail addresses, the primary key
    Roles,          \* VALID_ROLES
    Owners,         \* Freshsales owner ids
    UserRequests,   \* requests that can be open at once
    MaxUserRequests,\* bound: calls of the endpoints in a behaviour
    MaxUserCrashes  \* bound: restarts of the service

ASSUME UserAssumptions ==
    /\ {"superadmin", "rep"} \subseteq Roles
    /\ None \notin Owners /\ None \notin Staff
    /\ MaxUserRequests \in Nat /\ MaxUserCrashes \in Nat

\* A password is 0 when its user chose it; otherwise it is a temporary one,
\* named by the call that generated it.
Passwords == 0 .. MaxUserRequests

DashboardUser == [role: Roles, owner: Owners \cup {None}, password: Passwords,
                  must_change: BOOLEAN]

ASSUME NoUserAssumption == None \notin DashboardUser

AdminOps == {"create", "reset", "update", "delete"}

\* An open request: the operation, the password it generates, caller and
\* target, the role and owner in the body, caller and target as loaded.
UserRequest == [pc: {"idle", "target", "commit", "tell"},
                op: AdminOps \cup {"password", None}, no: Passwords,
                caller: Staff \cup {None}, target: Staff \cup {None},
                role: Roles \cup {None}, owner: Owners \cup {None},
                me: DashboardUser \cup {None}, copy: DashboardUser \cup {None}]

NoUserRequest == [pc |-> "idle", op |-> None, no |-> 0, caller |-> None,
                  target |-> None, role |-> None, owner |-> None,
                  me |-> None, copy |-> None]

VARIABLES
    users,      \* the dashboard_users table
    cookies,    \* the tokens a browser holds: "none", "refresh" or "both"
    ureq,       \* the open requests
    calls,      \* calls made so far
    ucrashes,   \* restarts so far
    told,       \* history: temporary passwords that were answered or mailed
    overlap,    \* history: two administrative requests were open at once, or the
                \* seed script demoted a superadmin
    crossed,    \* history: accounts written while a request held a copy
    cut         \* history: accounts whose request a restart cut off

userVars == <<users, cookies, ureq, calls, ucrashes, told, overlap, crossed, cut>>

UserTypeOK ==
    /\ users \in [Staff -> DashboardUser \cup {None}]
    /\ cookies \in [Staff -> {"none", "refresh", "both"}]
    /\ ureq \in [UserRequests -> UserRequest]
    /\ calls \in Passwords
    /\ ucrashes \in 0 .. MaxUserCrashes
    /\ told \subseteq Passwords
    /\ overlap \in BOOLEAN
    /\ crossed \subseteq Staff
    /\ cut \subseteq Staff

\* Accounts are bootstrapped with a superadmin (scripts/seed_user.py).
UserInit ==
    /\ users \in [Staff -> {None} \cup [role: Roles, owner: {None}, password: {0},
                                        must_change: {FALSE}]]
    /\ \E e \in Staff : users[e] # None /\ users[e].role = "superadmin"
    /\ cookies = [e \in Staff |-> IF users[e] = None THEN "none" ELSE "both"]
    /\ ureq = [r \in UserRequests |-> NoUserRequest]
    /\ calls = 0 /\ ucrashes = 0 /\ told = {}
    /\ overlap = FALSE /\ crossed = {} /\ cut = {}

Call == calls < MaxUserRequests /\ calls' = calls + 1

\* A request between the load of its caller and its answer.
Working(r) == ureq[r].pc \in {"target", "commit"}
Administers(r) == Working(r) /\ ureq[r].op \in AdminOps

\* The request will write a password over the copy of e that it has loaded.
HoldsUser(r, e) ==
    LET s == ureq[r]
    IN  \/ s.pc = "commit" /\ s.target = e /\ s.copy # None
        \/ s.pc = "target" /\ s.caller = e

\* A write of e's row by request r, over the copies others hold.
WriteUser(r, e, row) ==
    /\ users' = [users EXCEPT ![e] = row]
    /\ crossed' = IF \E q \in UserRequests \ {r} : HoldsUser(q, e)
                  THEN crossed \cup {e} ELSE crossed

CloseUser(r) == ureq' = [ureq EXCEPT ![r] = NoUserRequest]

-----------------------------------------------------------------------------
(* Cookies: login, refresh, logout, expiry                                  *)

\* The password typed is the stored one: the user's own, or one they got.
KnowsPassword(e) == users[e].password = 0 \/ users[e].password \in told

Login(e) ==
    /\ Call
    /\ users[e] # None /\ KnowsPassword(e)
    /\ cookies' = [cookies EXCEPT ![e] = "both"]
    /\ UNCHANGED <<users, ureq, ucrashes, told, overlap, crossed, cut>>

\* The refresh token is exchanged, if its subject still has an account.
Refresh(e) ==
    /\ Call
    /\ cookies[e] = "refresh" /\ users[e] # None
    /\ cookies' = [cookies EXCEPT ![e] = "both"]
    /\ UNCHANGED <<users, ureq, ucrashes, told, overlap, crossed, cut>>

Logout(e) ==
    /\ Call
    /\ cookies[e] # "none"
    /\ cookies' = [cookies EXCEPT ![e] = "none"]
    /\ UNCHANGED <<users, ureq, ucrashes, told, overlap, crossed, cut>>

\* The access token expires before the refresh token does.
TokenExpires(e) ==
    /\ Call
    /\ cookies[e] # "none"
    /\ cookies' = [cookies EXCEPT ![e] = IF @ = "both" THEN "refresh" ELSE "none"]
    /\ UNCHANGED <<users, ureq, ucrashes, told, overlap, crossed, cut>>

-----------------------------------------------------------------------------
(* Requests                                                                 *)

\* get_current_user: the caller is whoever the access token names, with the
\* role of the row, not of the token; an account that is gone answers 401.
CurrentUser(e) == IF cookies[e] = "both" THEN users[e] ELSE None

\* require_role("superadmin"), and the session that goes on.
StartAdmin(r, c, op, t, role, owner) ==
    /\ ureq[r].pc = "idle"
    /\ Call
    /\ CurrentUser(c) # None /\ CurrentUser(c).role = "superadmin"
    /\ ureq' = [ureq EXCEPT ![r] =
            [pc |-> "target", op |-> op,
             no |-> IF op \in {"create", "reset"} THEN calls + 1 ELSE 0,
             caller |-> c, target |-> t, role |-> role, owner |-> owner,
             me |-> users[c], copy |-> None]]
    /\ overlap' = (overlap \/ \E q \in UserRequests \ {r} : Administers(q))
    /\ UNCHANGED <<users, cookies, ucrashes, told, crossed, cut>>

\* POST /auth/change-password: the current password is verified on the row
\* just loaded, and there is no other row to load.
StartChange(r, c) ==
    /\ ureq[r].pc = "idle"
    /\ Call
    /\ CurrentUser(c) # None /\ KnowsPassword(c)
    /\ ureq' = [ureq EXCEPT ![r] =
            [NoUserRequest EXCEPT !.pc = "commit", !.op = "password",
                !.caller = c, !.target = c, !.copy = users[c]]]
    /\ UNCHANGED <<users, cookies, ucrashes, told, overlap, crossed, cut>>

\* session.get: the identity map answers for the caller's own row.
LoadedTarget(s) == IF s.target = s.caller THEN s.me ELSE users[s.target]

\* Mutant: a superadmin may change or delete the own account.
RefusedTargetAllowsSelf(s) ==
    CASE s.op = "create" -> LoadedTarget(s) # None
      [] s.op \in {"reset", "update", "delete"} -> LoadedTarget(s) = None

\* 409 for an invite to a known address, 400 for the own account, 404.
RefusedTarget(s) ==
    CASE s.op = "create" -> LoadedTarget(s) # None
      [] s.op = "reset" -> LoadedTarget(s) = None
      [] s.op \in {"update", "delete"} ->
            s.target = s.caller \/ LoadedTarget(s) = None

LoadTarget(r) ==
    LET s == ureq[r]
    IN  /\ s.pc = "target"
        /\ IF RefusedTarget(s)
           THEN CloseUser(r)
           ELSE ureq' = [ureq EXCEPT ![r].pc = "commit", ![r].copy = LoadedTarget(s),
                                     ![r].me = None]
        /\ UNCHANGED <<users, cookies, calls, ucrashes, told, overlap, crossed, cut>>

\* What is left to do after the commit: mail and answer the password.
Telling(s) == [NoUserRequest EXCEPT !.pc = "tell", !.no = s.no, !.target = s.target]

\* INSERT of the invited account; if the address was taken since the lookup
\* the insert is refused, which answers 500.
CommitCreate(r) ==
    LET s == ureq[r]
    IN  /\ s.pc = "commit" /\ s.op = "create"
        /\ \/ /\ users[s.target] = None
              /\ WriteUser(r, s.target, [role |-> s.role, owner |-> s.owner,
                                         password |-> s.no, must_change |-> TRUE])
              /\ ureq' = [ureq EXCEPT ![r] = Telling(s)]
           \/ users[s.target] # None /\ CloseUser(r) /\ UNCHANGED <<users, crossed>>
        /\ UNCHANGED <<cookies, calls, ucrashes, told, overlap, cut>>

\* users_repo.set_password.  A new hash always differs from the loaded one;
\* the flag is written only when it differs from the loaded flag.
SetPassword(stored, copy, password, must_change) ==
    [Flushed(stored, copy, [copy EXCEPT !.must_change = must_change])
        EXCEPT !.password = password]

CommitReset(r) ==
    LET s == ureq[r]
    IN  /\ s.pc = "commit" /\ s.op = "reset"
        /\ \/ /\ users[s.target] # None
              /\ WriteUser(r, s.target, SetPassword(users[s.target], s.copy, s.no, TRUE))
              /\ ureq' = [ureq EXCEPT ![r] = Telling(s)]
           \/ users[s.target] = None /\ CloseUser(r) /\ UNCHANGED <<users, crossed>>
        /\ UNCHANGED <<cookies, calls, ucrashes, told, overlap, cut>>

CommitChange(r) ==
    LET s == ureq[r]
    IN  /\ s.pc = "commit" /\ s.op = "password"
        /\ \/ /\ users[s.target] # None
              /\ WriteUser(r, s.target, SetPassword(users[s.target], s.copy, 0, FALSE))
           \/ users[s.target] = None /\ UNCHANGED <<users, crossed>>
        /\ CloseUser(r)
        /\ UNCHANGED <<cookies, calls, ucrashes, told, overlap, cut>>

\* A rep keeps the linked owner unless the body names one; others have none.
NewOwner(s) ==
    CASE s.role # "rep" -> None
      [] s.role = "rep" -> IF s.owner # None THEN s.owner ELSE s.copy.owner

CommitUpdate(r) ==
    LET s == ureq[r]
        set == [s.copy EXCEPT !.role = s.role, !.owner = NewOwner(s)]
    IN  /\ s.pc = "commit" /\ s.op = "update"
        /\ \/ /\ users[s.target] # None
              /\ WriteUser(r, s.target, Flushed(users[s.target], s.copy, set))
           \/ users[s.target] = None /\ UNCHANGED <<users, crossed>>
        /\ CloseUser(r)
        /\ UNCHANGED <<cookies, calls, ucrashes, told, overlap, cut>>

\* The row is gone, or was gone already (the DELETE matches nothing).
CommitDelete(r) ==
    LET s == ureq[r]
    IN  /\ s.pc = "commit" /\ s.op = "delete"
        /\ WriteUser(r, s.target, None)
        /\ CloseUser(r)
        /\ UNCHANGED <<cookies, calls, ucrashes, told, overlap, cut>>

\* Mutant: the password is only mailed, and SendGrid is not configured.
TellByMailOnly(r) ==
    /\ ureq[r].pc = "tell"
    /\ CloseUser(r)
    /\ UNCHANGED <<users, cookies, calls, ucrashes, told, overlap, crossed, cut>>

\* send_invite_email, delivered or not, then the answer, which also carries
\* the temporary password.
Tell(r) ==
    /\ ureq[r].pc = "tell"
    /\ told' = told \cup {ureq[r].no}
    /\ CloseUser(r)
    /\ UNCHANGED <<users, cookies, calls, ucrashes, overlap, crossed, cut>>

\* scripts/seed_user.py: insert an account, or change its role and password.
\* It checks nothing: it can take the role from the last superadmin.
SeedUser(e, role) ==
    LET stored == users[e]
    IN  /\ Call
        /\ users' = [users EXCEPT ![e] =
                IF stored = None
                THEN [role |-> role, owner |-> None, password |-> 0, must_change |-> FALSE]
                ELSE [stored EXCEPT !.role = role, !.owner = None, !.password = 0]]
        /\ overlap' = (overlap \/ /\ stored # None /\ stored.role = "superadmin"
                                  /\ role # "superadmin")
        /\ crossed' = IF \E q \in UserRequests : HoldsUser(q, e)
                      THEN crossed \cup {e} ELSE crossed
        /\ UNCHANGED <<cookies, ureq, ucrashes, told, cut>>

\* The service stops; open requests are gone with their sessions.
UserCrash ==
    /\ ucrashes < MaxUserCrashes
    /\ ucrashes' = ucrashes + 1
    /\ cut' = cut \cup {ureq[r].target : r \in {q \in UserRequests : ureq[q].pc # "idle"}}
    /\ ureq' = [r \in UserRequests |-> NoUserRequest]
    /\ UNCHANGED <<users, cookies, calls, told, overlap, crossed>>

UserNext ==
    \/ \E e \in Staff : Login(e) \/ Refresh(e) \/ Logout(e) \/ TokenExpires(e)
    \/ \E e \in Staff, role \in Roles : SeedUser(e, role)
    \/ \E r \in UserRequests :
        \/ \E c, t \in Staff, op \in {"reset", "delete"} : StartAdmin(r, c, op, t, None, None)
        \/ \E c, t \in Staff, op \in {"create", "update"}, role \in Roles,
              owner \in Owners \cup {None} : StartAdmin(r, c, op, t, role, owner)
        \/ \E c \in Staff : StartChange(r, c)
        \/ LoadTarget(r) \/ CommitCreate(r) \/ CommitReset(r) \/ CommitChange(r)
        \/ CommitUpdate(r) \/ CommitDelete(r) \/ Tell(r)
    \/ UserCrash

UserSpec == UserInit /\ [][UserNext]_userVars

-----------------------------------------------------------------------------
(* Properties                                                               *)

\* update_user and delete_user refuse the own account "to avoid locking out
\* the last admin": some superadmin always remains, as long as no two
\* administrative requests were ever open at once (two superadmins can
\* remove or demote each other) and the seed script has demoted none.
SuperadminRemains ==
    overlap \/ \E e \in Staff : users[e] # None /\ users[e].role = "superadmin"

\* A temporary password is one its user must change (set_password sets both,
\* create_user too), and it is known to someone once the request that generated
\* it has ended: the answer carries it even when the mail was not sent.
\* Excepted are, for the flag, an account written under a loaded copy (a reset
\* that had loaded must_change=True does not write it again) and, for the
\* telling, one whose request a restart cut off.
TemporaryPasswords ==
    \A e \in Staff : users[e] # None /\ users[e].password # 0
        => /\ users[e].must_change \/ e \in crossed
           /\ \/ users[e].password \in told
              \/ e \in cut
              \/ \E r \in UserRequests : ureq[r].pc = "tell" /\ ureq[r].no = users[e].password
=============================================================================
