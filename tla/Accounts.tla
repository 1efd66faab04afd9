----------------------------- MODULE Accounts -------------------------------
(***************************************************************************)
(* The players table and the ways an account's credentials change:         *)
(* registration, recovery and reset by mailed link                         *)
(* (auth/email_recovery.cpp, auth/smtp_mailer.cpp), Google sign-in, link   *)
(* and unlink (auth/oauth_verify.cpp) and the hash upgrade of a password   *)
(* login (auth/service.cpp).                                               *)
(*                                                                         *)
(* An identity is a number and stands for a mail address together with the *)
(* Google subject that proves it; Owner names the person who has both, and *)
(* a password is known by who chose it.  Nobody is SQL's NULL.  A request  *)
(* is a sequence of statements and transactions on the shared session;     *)
(* requests interleave between them and asked[w] is what request w carries *)
(* from one to the next.  A statement that fails returns an error and      *)
(* changes nothing, so it is a request that stops: see Abandon.            *)
(***************************************************************************)
EXTENDS Integers, Sequences, FiniteSets

CONSTANTS Owner,                      \* identity -> person
          Names, MailWorkers,
          Legacy,                     \* the rows older releases left
          ResetTtl, LinkTtl, Hour,    \* 900, 1800 and 3600 seconds
          PerHour,                    \* 3 links per address and hour
          QueueCap,                   \* 64 mails
          MaxAccounts, MaxLinks, MaxRequests, MaxMailTime     \* bounds

Nobody == 0
Identities == DOMAIN Owner
Persons == {Owner[m] : m \in Identities}

ASSUME AccountAssumption ==
    /\ Identities \cup Persons \subseteq Nat \ {0}
    /\ {ResetTtl, LinkTtl, Hour} \subseteq Nat /\ ResetTtl <= LinkTtl /\ LinkTtl <= Hour
    /\ QueueCap > 0 /\ PerHour > 0

VARIABLES mailClock,
          accts,        \* players: name, mail, verified, chosen, old, google, epoch
          links,        \* email_challenges
          queue,        \* SmtpMailer::queue_: link ids, 0 for an empty body
          inboxes,        \* link ids delivered
          stopping,     \* SmtpMailer::stopping_
          asked,          \* what each request carries between statements
          lastLink,     \* ids given to links
          requests,     \* requests begun
          mailed      \* history: links whose mail the queue mailed

postVars == <<queue, inboxes, stopping>>
linkVars == <<links, lastLink, mailed>>
acctVars == <<mailClock, accts, linkVars, postVars, asked, requests>>

NoJob == [op |-> "none"]

AcctInit == /\ mailClock = 0 /\ accts = Legacy /\ links = {} /\ queue = << >>
            /\ inboxes = {} /\ stopping = FALSE
            /\ asked = [w \in MailWorkers |-> NoJob] /\ lastLink = 0
            /\ requests = 0 /\ mailed = {}

-----------------------------------------------------------------------------
(* The constraints of the schema: unique names, addresses and Google       *)
(* subjects, and has_a_login_method.                                       *)
LoginMethod(a) == a.chosen # Nobody \/ a.google # Nobody
Constraints(t) ==
    /\ \A i \in DOMAIN t : LoginMethod(t[i])
    /\ \A i, j \in DOMAIN t : i # j =>
          /\ t[i].name # t[j].name
          /\ t[i].mail # t[j].mail \/ t[i].mail = Nobody
          /\ t[i].google # t[j].google \/ t[i].google = Nobody

(* Everything that proves who somebody is, in a row, proves one person. *)
HeldBy(a, who) == /\ a.chosen \in {Nobody, who}
                  /\ a.google # Nobody => Owner[a.google] = who
                  /\ a.verified /\ a.mail # Nobody => Owner[a.mail] = who

AccountRow == [name : Names \cup {Legacy[i].name : i \in DOMAIN Legacy},
               mail : Identities \cup {Nobody}, verified : BOOLEAN,
               chosen : Persons \cup {Nobody}, old : BOOLEAN,
               google : Identities \cup {Nobody}, epoch : Nat]

(* The rows that were there obeyed the schema and had an owner each. *)
ASSUME LegacyAssumption ==
    /\ Legacy \in Seq(AccountRow) /\ Constraints(Legacy)
    /\ \A i \in DOMAIN Legacy : \E who \in Persons : HeldBy(Legacy[i], who)

ByMail(m) == {i \in DOMAIN accts : accts[i].mail = m}
ByGoogle(g) == {i \in DOMAIN accts : accts[i].google = g}
Goes(w, j) == asked' = [asked EXCEPT ![w] = j] /\ UNCHANGED requests
Begins(w, j) == /\ asked[w] = NoJob /\ requests < MaxRequests
                /\ requests' = requests + 1 /\ asked' = [asked EXCEPT ![w] = j]
Live(l) == l.expires > mailClock

Account(n, m, who, g) == [name |-> n, mail |-> m, verified |-> TRUE, chosen |-> who,
                          old |-> FALSE, google |-> g, epoch |-> 0]
Add(a) == accts' = IF Constraints(Append(accts, a)) THEN Append(accts, a) ELSE accts

(***************************************************************************)
(* Requests for a link.  Each reads what it needs and calls issue.         *)
(***************************************************************************)
Issues(w, purpose, mail, acct, epoch, name) ==
    Begins(w, [op |-> "issue", purpose |-> purpose, mail |-> mail, acct |-> acct,
               epoch |-> epoch, name |-> name])

(* register_user: anybody may type any address. *)
RegisterUser(w, m, n) ==
    /\ lastLink < MaxLinks
    /\ Issues(w, "register", m, Nobody, 0, n)
    /\ UNCHANGED <<mailClock, accts, linkVars, postVars>>

(* request_reset: only a verified address names an account; an unknown one *)
(* takes the same path with no player.                                     *)
RequestReset(w, m) ==
    /\ lastLink < MaxLinks
    /\ LET found == {i \in ByMail(m) : accts[i].verified}
       IN IF found = {} THEN Issues(w, "reset", m, Nobody, 0, "")
          ELSE \E i \in found : Issues(w, "reset", m, i, accts[i].epoch, "")
    /\ UNCHANGED <<mailClock, accts, linkVars, postVars>>

(* request_recovery_email: who knows the password of an account without an *)
(* address may ask for one to be bound to it.                              *)
RequestRecoveryEmail(w, m, i) ==
    /\ lastLink < MaxLinks
    /\ accts[i].chosen = Owner[m] /\ accts[i].mail = Nobody
    /\ Issues(w, "recovery_email", m, i, accts[i].epoch, "")
    /\ UNCHANGED <<mailClock, accts, linkVars, postVars>>

(* The two checks of a registration: neither an account nor somebody       *)
(* else's pending registration may have the name, nor the address.         *)
Taken(j) ==
    \/ \E i \in DOMAIN accts : accts[i].name = j.name \/ accts[i].mail = j.mail
    \/ \E l \in links : /\ l.purpose = "register" /\ Live(l)
                        /\ (l.name = j.name) # (l.mail = j.mail)

Kept == {l \in links : Live(l) \/ l.created >= mailClock - Hour}
Recent(m) == {l \in Kept : l.mail = m /\ l.created > mailClock - Hour}

(* issue: one transaction.  The mail is sent after it commits. *)
Issue(w) ==
    /\ asked[w].op = "issue"
    /\ LET j == asked[w]
       IN IF (j.purpose = "register" /\ Taken(j)) \/ Cardinality(Recent(j.mail)) >= PerHour
          THEN Goes(w, NoJob) /\ UNCHANGED <<links, lastLink>>      \* rolled back
          ELSE /\ lastLink' = lastLink + 1
               /\ links' = Kept \cup {[id |-> lastLink + 1, purpose |-> j.purpose,
                      mail |-> j.mail, acct |-> j.acct, epoch |-> j.epoch, name |-> j.name,
                      created |-> mailClock,
                      expires |-> mailClock + (IF j.purpose = "reset" THEN ResetTtl ELSE LinkTtl)]}
               /\ Goes(w, [op |-> "send", id |-> lastLink + 1,
                           body |-> ~(j.purpose = "reset" /\ j.acct = Nobody)])
    /\ UNCHANGED <<mailClock, accts, mailed, postVars>>

(* SmtpMailer::enqueue, and the deletion of a link it refused to mail. *)
Refused(j) == {l \in links : l.id # j.id}

Send(w) ==
    /\ asked[w].op = "send" /\ Goes(w, NoJob)
    /\ LET j == asked[w]
       IN IF stopping \/ Len(queue) >= QueueCap
          THEN links' = Refused(j) /\ UNCHANGED <<queue, mailed>>
          ELSE /\ queue' = Append(queue, IF j.body THEN j.id ELSE 0)
               /\ mailed' = mailed \cup {j.id}
               /\ UNCHANGED links
    /\ UNCHANGED <<mailClock, accts, inboxes, stopping, lastLink>>

(* SmtpMailer::run: an empty body is dropped, a delivery may fail. *)
DeliverMail ==
    /\ queue # << >> /\ ~stopping /\ queue' = Tail(queue)
    /\ inboxes' \in {inboxes, inboxes \cup ({Head(queue)} \ {0})}
    /\ UNCHANGED <<mailClock, accts, linkVars, stopping, asked, requests>>

(* ~SmtpMailer *)
StopMailer ==
    /\ ~stopping /\ stopping' = TRUE /\ queue' = << >>
    /\ UNCHANGED <<mailClock, accts, linkVars, inboxes, asked, requests>>

-----------------------------------------------------------------------------
(***************************************************************************)
(* The two ways to use a link, each one transaction by the owner of the    *)
(* mailbox.  A link to bind an address is followed only by the person who  *)
(* asked for it, as its text demands.                                      *)
(***************************************************************************)
ConfirmEmail(l) ==
    /\ l.id \in inboxes /\ Live(l) /\ l.purpose # "reset"
    /\ \/ /\ l.purpose = "register" /\ Len(accts) < MaxAccounts
          /\ Constraints(Append(accts, Account(l.name, l.mail, Owner[l.mail], Nobody)))
          /\ Add(Account(l.name, l.mail, Owner[l.mail], Nobody))
       \/ /\ l.purpose = "recovery_email"
          /\ accts[l.acct].epoch = l.epoch /\ accts[l.acct].mail = Nobody
          /\ LET t == [accts EXCEPT ![l.acct].mail = l.mail, ![l.acct].verified = TRUE]
             IN Constraints(t) /\ accts' = t
    /\ links' = links \ {l}
    /\ UNCHANGED <<mailClock, lastLink, mailed, postVars, asked, requests>>

ResetByLink(l) ==
    /\ l.id \in inboxes /\ Live(l) /\ l.purpose = "reset" /\ l.acct # Nobody
    /\ LET a == accts[l.acct]
       IN /\ a.verified /\ a.mail = l.mail /\ a.epoch = l.epoch
          /\ accts' = [accts EXCEPT ![l.acct] =
                [a EXCEPT !.chosen = Owner[l.mail], !.old = FALSE, !.epoch = @ + 1]]
    /\ links' = {x \in links : x # l /\ x.acct # l.acct}
    /\ UNCHANGED <<mailClock, lastLink, mailed, postVars, asked, requests>>

-----------------------------------------------------------------------------
(***************************************************************************)
(* Google.  A request holds a token that proves subject g and its address.*)
(***************************************************************************)
GoogleSignIn(w, g) ==
    /\ ByGoogle(g) = {}          \* otherwise signed in
    /\ Begins(w, [op |-> "google", g |-> g])
    /\ UNCHANGED <<mailClock, accts, linkVars, postVars>>

(* The address may be reused only if the account has proved it. *)
Proved(a, g) == a.verified /\ a.google \in {Nobody, g}

GoogleByEmail(w) ==
    /\ asked[w].op = "google"
    /\ LET g == asked[w].g
           found == ByMail(g)
       IN IF found = {}
          THEN \E n \in Names \cup {""} :            \* find_free_username
                  /\ \A i \in DOMAIN accts : accts[i].name # n
                  /\ Goes(w, IF n = "" THEN NoJob
                             ELSE [op |-> "insert", g |-> g, name |-> n])
          ELSE \E i \in found :
                  Goes(w, IF Proved(accts[i], g) THEN [op |-> "adopt", g |-> g, acct |-> i]
                          ELSE NoJob)
    /\ UNCHANGED <<mailClock, accts, linkVars, postVars>>

(* UPDATE ... WHERE email_verified AND lower(email) = ... AND google_sub.  *)
GoogleAdopt(w) ==
    /\ asked[w].op = "adopt" /\ Goes(w, NoJob)
    /\ LET j == asked[w]  a == accts[j.acct]
           t == [accts EXCEPT ![j.acct].google = j.g]
       IN accts' = IF /\ Proved(a, j.g) /\ a.mail = j.g /\ Constraints(t)
                   THEN t ELSE accts
    /\ UNCHANGED <<mailClock, linkVars, postVars>>

GoogleInsert(w) ==
    /\ asked[w].op = "insert" /\ Goes(w, NoJob) /\ Len(accts) < MaxAccounts
    /\ Add(Account(asked[w].name, asked[w].g, Nobody, asked[w].g))
    /\ UNCHANGED <<mailClock, linkVars, postVars>>

(* Who can sign in to an account: by its password or through Google. *)
SignsIn(i, who) == \/ accts[i].chosen = who
                   \/ accts[i].google # Nobody /\ Owner[accts[i].google] = who

LinkGoogle(w, g, i) ==
    /\ SignsIn(i, Owner[g])
    /\ accts[i].google \in {Nobody, g}
    /\ Begins(w, [op |-> "other", g |-> g, acct |-> i])
    /\ UNCHANGED <<mailClock, accts, linkVars, postVars>>

LinkOther(w) ==
    /\ asked[w].op = "other"
    /\ LET j == asked[w]
       IN Goes(w, IF ByGoogle(j.g) \subseteq {j.acct}
                  THEN [j EXCEPT !.op = "link"] ELSE NoJob)
    /\ UNCHANGED <<mailClock, accts, linkVars, postVars>>

(* The final UPDATE: it takes the subject only where there is none, the    *)
(* address only where there is none, and calls it verified if it is his.   *)
FreeForMutant(a, g) == TRUE
FreeFor(a, g) == a.google \in {Nobody, g}

LinkUpdate(w) ==
    /\ asked[w].op = "link" /\ Goes(w, NoJob)
    /\ LET j == asked[w]  a == accts[j.acct]
           t == [accts EXCEPT ![j.acct] = [a EXCEPT
                   !.google = j.g,
                   !.mail = IF @ = Nobody THEN j.g ELSE @,
                   !.verified = @ \/ a.mail \in {Nobody, j.g}]]
       IN accts' = IF FreeFor(a, j.g) /\ Constraints(t) THEN t ELSE accts
    /\ UNCHANGED <<mailClock, linkVars, postVars>>

UnlinkGoogle(w, who, i) ==
    /\ SignsIn(i, who)
    /\ accts[i].google # Nobody /\ accts[i].chosen # Nobody
    /\ Begins(w, [op |-> "unlink", acct |-> i])
    /\ UNCHANGED <<mailClock, accts, linkVars, postVars>>

UnlinkUpdate(w) ==
    /\ asked[w].op = "unlink" /\ Goes(w, NoJob)
    /\ LET t == [accts EXCEPT ![asked[w].acct].google = Nobody]
       IN accts' = IF Constraints(t) THEN t ELSE accts
    /\ UNCHANGED <<mailClock, linkVars, postVars>>

(* authenticate_password with a hash of old parameters: the password that  *)
(* matched is hashed again and written, whatever the row holds by then.    *)
Login(w, who, i) ==
    /\ accts[i].chosen = who /\ accts[i].old
    /\ Begins(w, [op |-> "upgrade", who |-> who, acct |-> i])
    /\ UNCHANGED <<mailClock, accts, linkVars, postVars>>

UpgradeHash(w) ==
    /\ asked[w].op = "upgrade" /\ Goes(w, NoJob)
    /\ accts' = [accts EXCEPT ![asked[w].acct].chosen = asked[w].who, ![asked[w].acct].old = FALSE]
    /\ UNCHANGED <<mailClock, linkVars, postVars>>

(* A statement fails: the request answers "internal" and ends. *)
Abandon(w) ==
    /\ asked[w].op \notin {"none", "send"} /\ Goes(w, NoJob)
    /\ UNCHANGED <<mailClock, accts, linkVars, postVars>>

MailSecondPasses ==
    /\ mailClock < MaxMailTime /\ mailClock' = mailClock + 1
    /\ UNCHANGED <<accts, linkVars, postVars, asked, requests>>

AcctNext ==
    \/ \E w \in MailWorkers :
          \/ \E m \in Identities : RequestReset(w, m) \/ GoogleSignIn(w, m)
          \/ \E m \in Identities, n \in Names : RegisterUser(w, m, n)
          \/ \E m \in Identities, i \in DOMAIN accts : RequestRecoveryEmail(w, m, i) \/ LinkGoogle(w, m, i)
          \/ \E who \in Persons, i \in DOMAIN accts : UnlinkGoogle(w, who, i) \/ Login(w, who, i)
          \/ Issue(w) \/ Send(w) \/ GoogleByEmail(w) \/ GoogleAdopt(w) \/ GoogleInsert(w)
          \/ LinkOther(w) \/ LinkUpdate(w) \/ UnlinkUpdate(w) \/ UpgradeHash(w) \/ Abandon(w)
    \/ \E l \in links : ConfirmEmail(l) \/ ResetByLink(l)
    \/ DeliverMail \/ StopMailer \/ MailSecondPasses

AcctSpec == AcctInit /\ [][AcctNext]_acctVars

-----------------------------------------------------------------------------
(* Whatever the order of registrations, mailed links, Google sign-ins and  *)
(* links, the password, the Google identity and the verified address of an *)
(* account belong to one person: nobody comes into another's account by an *)
(* address that was merely typed (oauth_verify.cpp:316).                   *)
OneOwnerPerAccount ==
    \A i \in DOMAIN accts :
        LET a == accts[i]
            proofs == {a.google, IF a.verified THEN a.mail ELSE Nobody} \ {Nobody}
        IN Cardinality(({a.chosen} \ {Nobody}) \cup {Owner[m] : m \in proofs}) = 1

(* Two requests that both saw an account without a Google identity cannot  *)
(* both install one: a Google identity is replaced only after it was       *)
(* unlinked (link_google, "Silently overwriting would let ...").           *)
GoogleNeverReplaced ==
    [][\A i \in DOMAIN accts : accts[i].google # Nobody =>
          accts'[i].google \in {accts[i].google, Nobody}]_acctVars

(* Registrations that wait for their link never compete: two live links    *)
(* agree on the name exactly when they agree on the address, although they *)
(* are issued by requests that interleave and expire at different times.   *)
PendingRegistrationsDistinct ==
    \A l, k \in links : l.purpose = "register" /\ k.purpose = "register" /\ Live(l) /\ Live(k) =>
        (l.name = k.name <=> l.mail = k.mail)

(* A link whose mail was refused, because the queue is full or the mailer  *)
(* stops, leaves no row behind to count against its address: every row's   *)
(* mail was mailed or is still to be handed over.                        *)
RowsHaveMail ==
    \A l \in links : \/ l.id \in mailed
                     \/ \E w \in MailWorkers : asked[w].op = "send" /\ asked[w].id = l.id

(* No interleaving of registrations, mailed links and Google sign-ins      *)
(* gives an account to a second person, promises one name twice, or loses  *)
(* a link.                                                                 *)
AccountsKeepTheirOwners ==
    /\ []OneOwnerPerAccount
    /\ []PendingRegistrationsDistinct
    /\ []RowsHaveMail
    /\ GoogleNeverReplaced

=============================================================================
