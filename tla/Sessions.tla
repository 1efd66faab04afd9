------------------------------ MODULE Sessions ------------------------------
(***************************************************************************)
(* Sign-in sessions: auth/session.cpp behind auth/auth_handler.cpp, on the *)
(* one authentication database session all workers share, and the gate an  *)
(* access token passes (auth/token.cpp, IdentityExtractor).                *)
(*                                                                         *)
(* A statement is one action and needs the session's operation mutex.      *)
(* refresh_session holds the mutex (`guard`) over its transaction, so it   *)
(* is two actions: take the mutex and read the row; write and commit.  A   *)
(* login (read the account, insert the session) and logout_all (gate,      *)
(* delete, bump) hold it for single statements only.                       *)
(*                                                                         *)
(* A client presents any refresh token an auth_ok ever carried: the newest *)
(* one, an older one when the answer was lost or is late, or one that has  *)
(* been replaced.  Tokens are numbered in the order they are minted, and a *)
(* family is named by its first token.                                     *)
(***************************************************************************)
EXTENDS Integers, FiniteSets

CONSTANTS Players,
          Workers,
          Grace,           \* REFRESH_REUSE_GRACE_SECONDS
          AccessTtl,       \* ACCESS_TOKEN_TTL_SECONDS
          RefreshTtl,      \* REFRESH_TOKEN_TTL_SECONDS
          MaxTokens,       \* bound: refresh tokens minted
          MaxTime,         \* bound: seconds
          MaxSignOuts,     \* bound: logout and logout_all requests
          MaxDbFaults      \* bound: failing statements

ASSUME TtlAssumption == /\ {Grace, AccessTtl, RefreshTtl} \subseteq Nat \ {0}
                        /\ Grace < RefreshTtl /\ AccessTtl < RefreshTtl
ASSUME WorkerAssumption == 0 \notin Workers
ASSUME BoundAssumption == {MaxTokens, MaxTime, MaxSignOuts, MaxDbFaults} \subseteq Nat

Tokens == 1..MaxTokens

VARIABLES
    clock,       \* now_seconds()
    epoch,       \* players.token_epoch
    rows,        \* the sessions table, a function of the tokens it holds
    minted,      \* number of tokens minted
    guard,       \* worker that holds the operation mutex, or 0
    job,         \* what each worker is in the middle of
    offered,     \* refresh tokens sent in an auth_ok
    access,      \* access tokens sent in an auth_ok
    signOuts, dbFaults,
    \* History, read by no action.
    born,        \* when and for which family each token was minted
    replacedAt,  \* when each token was first rotated or superseded, 0 if never
    ended,       \* families deleted by a logout, a sign-out or a reuse
    era          \* sign-outs everywhere that have answered, per player

sessionTable == <<epoch, rows, minted>>
sessionSent == <<offered, access>>
sessionHistory == <<born, replacedAt, ended, era>>
sessionVars == <<clock, sessionTable, guard, job, sessionSent, signOuts, dbFaults,
                 sessionHistory>>

Idle == [step |-> "idle"]

SessionsInit ==
    /\ clock = 1 /\ epoch = [p \in Players |-> 0]
    /\ rows = << >> /\ minted = 0
    /\ guard = 0 /\ job = [w \in Workers |-> Idle]
    /\ offered = {} /\ access = {} /\ signOuts = 0 /\ dbFaults = 0
    /\ born = [t \in Tokens |-> [at |-> 0, family |-> 0]] /\ replacedAt = [t \in Tokens |-> 0]
    /\ ended = {} /\ era = [p \in Players |-> 0]

-----------------------------------------------------------------------------
(* Database::exec takes the recursive operation mutex for one statement. *)
MayExec(w) == guard \in {0, w}

(* A refused statement, or one whose connection is gone. *)
Fails == dbFaults < MaxDbFaults /\ dbFaults' = dbFaults + 1
Works == UNCHANGED dbFaults

Done(w) == job' = [job EXCEPT ![w] = Idle]

InFamily(f) == {t \in DOMAIN rows : rows[t].family = f}
Without(ts) == [t \in DOMAIN rows \ ts |-> rows[t]]

(* build_pair: the access half carries the epoch that was read. *)
NewAccess(p, e) == [player |-> p, epoch |-> e, expires |-> clock + AccessTtl,
                    era |-> era[p]]
Fresh(p, f) == [player |-> p, family |-> f, rotated |-> FALSE, rotated_at |-> 0,
                expires_at |-> clock + RefreshTtl]

Mint(f) == /\ minted < MaxTokens
           /\ minted' = minted + 1
           /\ born' = [born EXCEPT ![minted + 1] = [at |-> clock, family |-> f]]

-----------------------------------------------------------------------------
(* handle_login: authenticate_password reads id and epoch, issue_session   *)
(* inserts a row of a new family.                                          *)

Authenticate(w, p) ==
    /\ job[w] = Idle /\ MayExec(w)
    /\ job' = [job EXCEPT ![w] = [step |-> "issue", player |-> p, epoch |-> epoch[p]]]
    /\ UNCHANGED <<clock, sessionTable, guard, sessionSent, signOuts, dbFaults,
                   sessionHistory>>

IssueSession(w) ==
    /\ job[w].step = "issue" /\ MayExec(w)
    /\ Mint(minted + 1)
    /\ \/ /\ Works
          /\ LET p == job[w].player t == minted + 1
             IN /\ rows' = [s \in DOMAIN rows \cup {t} |->
                               IF s = t THEN Fresh(p, t) ELSE rows[s]]
                /\ offered' = offered \cup {t}
                /\ access' = access \cup {NewAccess(p, job[w].epoch)}
       \/ Fails /\ UNCHANGED <<rows, sessionSent>>
    /\ Done(w)
    /\ UNCHANGED <<clock, epoch, guard, signOuts, replacedAt, ended, era>>

-----------------------------------------------------------------------------
(* handle_refresh and refresh_session *)

RefreshTakesGuardMutant(w) == UNCHANGED guard
RefreshTakesGuard(w) == guard' = w

RefreshOf(t) ==
    [step |-> "rotate", token |-> t, at |-> clock,
     row |-> IF t \in DOMAIN rows THEN rows[t] ELSE [family |-> 0]]

RefreshSelect(w, t) ==
    /\ job[w] = Idle /\ guard = 0 /\ t \in offered
    /\ RefreshTakesGuard(w)
    /\ job' = [job EXCEPT ![w] = RefreshOf(t)]
    /\ UNCHANGED <<clock, sessionTable, sessionSent, signOuts, dbFaults, sessionHistory>>

TransportRetry(row, at) == row.rotated_at > 0 /\ at >= row.rotated_at
                           /\ at - row.rotated_at <= Grace

(* UPDATE ... WHERE family_id AND rotated=FALSE *)
SupersedeMutant(tab, f, at) ==
    [t \in {s \in DOMAIN tab : ~(tab[s].family = f /\ ~tab[s].rotated)} |-> tab[t]]
Supersede(tab, f, at) ==
    [t \in DOMAIN tab |-> IF tab[t].family = f /\ ~tab[t].rotated
                          THEN [tab[t] EXCEPT !.rotated = TRUE, !.rotated_at = at]
                          ELSE tab[t]]

(* rotated_at = COALESCE(rotated_at, now): a retry does not move it. *)
Mark(tab, t, at) ==
    LET row == tab[t]
        first == IF row.rotated_at = 0 THEN at ELSE row.rotated_at
    IN  [tab EXCEPT ![t] = [row EXCEPT !.rotated = TRUE, !.rotated_at = first]]

(* The table the transaction commits: marked, superseded, successor added. *)
SupersededMutant(j) == rows
Superseded(j) == IF j.row.rotated THEN Supersede(rows, j.row.family, j.at) ELSE rows
Rotated(j) ==
    LET tab == Superseded(j)
        old == IF j.token \in DOMAIN tab THEN Mark(tab, j.token, j.at) ELSE tab
    IN [s \in DOMAIN old \cup {minted + 1} |->
           IF s = minted + 1 THEN Fresh(j.row.player, j.row.family) ELSE old[s]]

(* Which tokens a committed table shows as rotated for the first time. *)
NoteReplaced(at) ==
    replacedAt' = [t \in Tokens |->
        IF replacedAt[t] = 0 /\ t \in DOMAIN rows' /\ rows'[t].rotated THEN at
        ELSE replacedAt[t]]

Reuse(j) == j.row.family # 0 /\ j.row.rotated /\ ~TransportRetry(j.row, j.at)
Expired(j) == j.row.family # 0 /\ ~Reuse(j) /\ j.row.expires_at <= j.at
Rotates(j) == j.row.family # 0 /\ ~Reuse(j) /\ ~Expired(j)

(* The answer to an unknown token, a reuse (the family is deleted) or an   *)
(* expired token (its row is).                                             *)
RefreshRejected(w) ==
    LET j == job[w]
    IN /\ j.step = "rotate" /\ ~Rotates(j)
       /\ Works
       /\ rows' = IF Reuse(j) THEN Without(InFamily(j.row.family))
                  ELSE IF Expired(j)
                       THEN [t \in DOMAIN rows \ {j.token} |-> Superseded(j)[t]]
                       ELSE rows
       /\ ended' = IF Reuse(j) THEN ended \cup {j.row.family} ELSE ended
       /\ NoteReplaced(j.at)
       /\ guard' = 0 /\ Done(w)
       /\ UNCHANGED <<clock, epoch, minted, sessionSent, signOuts, born, era>>

RefreshRotates(w) ==
    LET j == job[w]
    IN /\ j.step = "rotate" /\ Rotates(j)
       /\ Mint(j.row.family) /\ Works
       /\ rows' = Rotated(j)
       /\ NoteReplaced(j.at)
       /\ offered' = offered \cup {minted + 1}
       /\ access' = access \cup {NewAccess(j.row.player, epoch[j.row.player])}
       /\ guard' = 0 /\ Done(w)
       /\ UNCHANGED <<clock, epoch, signOuts, ended, era>>

(* A failed statement rolls back; a failed COMMIT may have taken effect.   *)
(* The answer is "internal" either way and the tokens are not sent.        *)
RefreshFails(w) ==
    LET j == job[w]
    IN /\ j.step = "rotate" /\ Fails
       /\ \/ UNCHANGED <<rows, minted, born, replacedAt>>
          \/ Rotates(j) /\ Mint(j.row.family) /\ rows' = Rotated(j) /\ NoteReplaced(j.at)
       /\ guard' = 0 /\ Done(w)
       /\ UNCHANGED <<clock, epoch, sessionSent, signOuts, ended, era>>

-----------------------------------------------------------------------------
(* handle_logout: one statement deletes the family of the token. *)
Logout(w, t) ==
    /\ job[w] = Idle /\ MayExec(w) /\ t \in offered /\ signOuts < MaxSignOuts
    /\ signOuts' = signOuts + 1
    /\ \/ /\ Works /\ t \in DOMAIN rows
          /\ rows' = Without(InFamily(rows[t].family))
          /\ ended' = ended \cup {rows[t].family}
       \/ (Fails \/ (Works /\ t \notin DOMAIN rows)) /\ UNCHANGED <<rows, ended>>
    /\ UNCHANGED <<clock, epoch, minted, guard, job, sessionSent, born, replacedAt,
                   era>>

(* verify_access.  Clients present only tokens the server signed, and its  *)
(* clock does not run backwards, so what is left of its checks is exp.     *)
VerifyAccess(a) == clock < a.expires

(* The two gates of requests that carry an access token, each one          *)
(* statement: authorize_access_token for the auth routes, and              *)
(* IdentityExtractor::extract, on a pooled session, for the typed routes.  *)
Gate(a) == VerifyAccess(a) /\ epoch[a.player] = a.epoch
Extract(a) == VerifyAccess(a) /\ epoch[a.player] = a.epoch

(* handle_logout_all: the gate, then logout_all's two statements. *)
LogoutAllGate(w, a) ==
    /\ job[w] = Idle /\ MayExec(w) /\ a \in access /\ Gate(a) /\ signOuts < MaxSignOuts
    /\ signOuts' = signOuts + 1
    /\ job' = [job EXCEPT ![w] = [step |-> "delete", player |-> a.player]]
    /\ UNCHANGED <<clock, sessionTable, guard, sessionSent, dbFaults, sessionHistory>>

LogoutAllDelete(w) ==
    /\ job[w].step = "delete" /\ MayExec(w)
    /\ \/ LET mine == {t \in DOMAIN rows : rows[t].player = job[w].player}
          IN /\ Works
             /\ rows' = Without(mine)
             /\ ended' = ended \cup {rows[t].family : t \in mine}
             /\ job' = [job EXCEPT ![w].step = "bump"]
       \/ Fails /\ Done(w) /\ UNCHANGED <<rows, ended>>
    /\ UNCHANGED <<clock, epoch, minted, guard, sessionSent, signOuts, born,
                   replacedAt, era>>

LogoutAllBump(w) ==
    /\ job[w].step = "bump" /\ MayExec(w)
    /\ \/ /\ Works
          /\ epoch' = [epoch EXCEPT ![job[w].player] = @ + 1]
          /\ era' = [era EXCEPT ![job[w].player] = @ + 1]
       \/ Fails /\ UNCHANGED <<epoch, era>>
    /\ Done(w)
    /\ UNCHANGED <<clock, rows, minted, guard, sessionSent, signOuts, born,
                   replacedAt, ended>>

(* EmailRecovery::reset_password ends every session in its transaction.    *)
ResetPassword(w, p) ==
    /\ job[w] = Idle /\ guard = 0 /\ signOuts < MaxSignOuts
    /\ signOuts' = signOuts + 1
    /\ LET mine == {t \in DOMAIN rows : rows[t].player = p}
       IN /\ rows' = Without(mine)
          /\ ended' = ended \cup {rows[t].family : t \in mine}
    /\ epoch' = [epoch EXCEPT ![p] = @ + 1]
    /\ era' = [era EXCEPT ![p] = @ + 1]
    /\ UNCHANGED <<clock, minted, guard, job, sessionSent, dbFaults, born, replacedAt>>

SecondPasses ==
    /\ clock < MaxTime /\ clock' = clock + 1
    /\ UNCHANGED <<sessionTable, guard, job, sessionSent, signOuts, dbFaults,
                   sessionHistory>>

SessionsNext ==
    \/ SecondPasses
    \/ \E w \in Workers :
         \/ \E p \in Players : Authenticate(w, p) \/ ResetPassword(w, p)
         \/ IssueSession(w)
         \/ \E t \in offered : RefreshSelect(w, t) \/ Logout(w, t)
         \/ RefreshRejected(w) \/ RefreshRotates(w) \/ RefreshFails(w)
         \/ \E a \in access : LogoutAllGate(w, a)
         \/ LogoutAllDelete(w) \/ LogoutAllBump(w)

SessionsSpec == SessionsInit /\ [][SessionsNext]_sessionVars

-----------------------------------------------------------------------------
(* A login family has one current token, however often a refresh is        *)
(* repeated and whichever of its tokens is presented: refresh_session      *)
(* supersedes the successor it replaces (session.cpp:106).                 *)
OneCurrentToken ==
    \A t, u \in DOMAIN rows :
        rows[t].family = rows[u].family /\ ~rows[t].rotated /\ ~rows[u].rotated => t = u

(* A client is told invalid_refresh, and forgets its login, only when the  *)
(* login was ended, the token is too old, or the token was replaced more   *)
(* than the grace ago: a lost or late answer never signs out within it.    *)
RetryRecovers ==
    guard = 0 => \A t \in offered :
        ~Rotates(RefreshOf(t)) => \/ born[t].family \in ended
                                  \/ clock >= born[t].at + RefreshTtl
                                  \/ replacedAt[t] # 0 /\ clock - replacedAt[t] > Grace

(* Repeating a refresh does not stretch the window in which the old token  *)
(* still works: it is counted from the first replacement (session.cpp:155).*)
GraceNotStretched ==
    guard = 0 => \A t \in offered :
        Rotates(RefreshOf(t)) => replacedAt[t] = 0 \/ clock - replacedAt[t] <= Grace

(* Once every access token has been called back (logout_all has answered), *)
(* neither gate passes one that was issued before.                         *)
SignOutTakesEffect == \A a \in access : Gate(a) \/ Extract(a) => a.era = era[a.player]

(* A family that has been deleted stays deleted: no refresh that began     *)
(* before a logout, a sign-out or a reuse adds a successor to it after.    *)
EndedFamiliesStayEnded ==
    [][\A f \in 1..minted : InFamily(f) = {} /\ f \in ended =>
          InFamily(f)' = {}]_sessionVars

(* A refresh is answered by the rule of the grace in both directions: a    *)
(* retry inside it is accepted, one outside it is not.                     *)
RefreshAnswersRight == RetryRecovers /\ GraceNotStretched

(* What a sign-out has ended is over: its access tokens pass no gate and   *)
(* its refresh tokens get no successor.                                    *)
SignOutsStick ==
    /\ []SignOutTakesEffect
    /\ EndedFamiliesStayEnded

=============================================================================
