----------------------------- MODULE AuthProofs -----------------------------
(***************************************************************************)
(* What src/auth keeps.  The session table, for any players, workers,      *)
(* times to live and numbers of failing statements.  The sealing keys, for *)
(* any caps, addresses, workers and command types: the caps hold across    *)
(* the unlocked mint, the counts never drift from the entries, and a key   *)
(* opens one envelope.  The provider's public keys, for any times to live  *)
(* and any number of keys: a withdrawn key is trusted for a bounded time.  *)
(* The rate limits, for any rate and any rule of sweeping that waits for a *)
(* bucket to be full.  The accounts, for any people, names, mailboxes and  *)
(* rows that were there: an account stays with its owner.                  *)
(***************************************************************************)
EXTENDS Sessions, Accounts, SealedKeys, RateLimiter, KeyCache, FiniteSetTheorems, TLAPS

(* What a row says of its token, against the history of the token. *)
Row == [player : Players, family : Nat, rotated : BOOLEAN, rotated_at : Nat, expires_at : Nat]
RowTrue(t) == /\ rows[t] \in Row
              /\ rows[t].family = born[t].family /\ rows[t].family \in 1..minted
              /\ rows[t].expires_at = born[t].at + RefreshTtl
              /\ rows[t].rotated_at = replacedAt[t]
              /\ rows[t].rotated = TRUE <=> replacedAt[t] # 0
              /\ replacedAt[t] <= clock
TableInv == /\ minted \in Nat /\ minted <= MaxTokens /\ clock \in Nat \ {0}
            /\ born \in [Tokens -> [at : Nat, family : Nat]] /\ replacedAt \in [Tokens -> Nat]
            /\ \A t \in Tokens : t > minted => replacedAt[t] = 0
            /\ DOMAIN rows \subseteq 1..minted
            /\ \A t \in DOMAIN rows : RowTrue(t)
            /\ offered \subseteq 1..minted

(* A refresh holds the operation mutex, so the row it read is still there. *)
RefreshInv(w) == /\ guard = w
                 /\ job[w].token \in 1..minted
                 /\ job[w].at \in Nat \ {0} /\ job[w].at <= clock
                 /\ job[w].row = IF job[w].token \in DOMAIN rows THEN rows[job[w].token] ELSE [family |-> 0]
SignIn == [step : {"issue"}, player : Players, epoch : Nat]
SignOut == [step : {"delete", "bump"}, player : Players]
JobInv == /\ DOMAIN job = Workers
          /\ \A w \in Workers : /\ job[w].step = "rotate" => RefreshInv(w)
                                /\ job[w].step = "issue" => job[w] \in SignIn
                                /\ job[w].step \in {"delete", "bump"} => job[w] \in SignOut

(* Epochs only grow, and a token carries one no newer than when it was     *)
(* sent.                                                                   *)
EpochInv == /\ epoch \in [Players -> Nat] /\ era = epoch
            /\ access \subseteq [player : Players, epoch : Nat, expires : Nat, era : Nat]
            /\ \A a \in access : a.epoch <= a.era /\ a.era <= era[a.player]
            /\ \A w \in Workers : job[w].step = "issue" => job[w].epoch <= epoch[job[w].player]

(* A token sent to a client leaves the table for one of two reasons. *)
LostInv == \A t \in offered : \/ t \in DOMAIN rows
                              \/ born[t].family \in ended
                              \/ clock >= born[t].at + RefreshTtl

SessionInv == TableInv /\ JobInv /\ OneCurrentToken /\ EpochInv /\ LostInv

-----------------------------------------------------------------------------
(* What the assumptions on the constants give. *)
LEMMA Bounds == /\ {Grace, AccessTtl, RefreshTtl, MaxTokens} \subseteq Nat
                /\ 0 \notin Workers
BY TtlAssumption, WorkerAssumption, BoundAssumption

(* The empty table satisfies the invariant. *)
LEMMA SessionStarts == SessionsInit => SessionInv
<1>. SUFFICES ASSUME SessionsInit PROVE SessionInv
  OBVIOUS
<1>. USE Bounds DEF SessionsInit
<1>1. TableInv
  BY DEF TableInv, Tokens
<1>2. JobInv
  BY DEF JobInv, Idle
<1>3. OneCurrentToken
  BY DEF OneCurrentToken
<1>4. EpochInv
  BY DEF EpochInv, Idle
<1>5. LostInv
  BY DEF LostInv
<1>. QED
  BY <1>1, <1>2, <1>3, <1>4, <1>5 DEF SessionInv

(* A refresh turns the row it was asked about and, on a retry, the others  *)
(* of its family, and leaves the rest.                                     *)
Turns(j, t) == t = j.token \/ (j.row.rotated /\ rows[t].family = j.row.family)
Turned(r, at) == [r EXCEPT !.rotated = TRUE, !.rotated_at = IF r.rotated THEN r.rotated_at ELSE at]

(* The table a rotation commits, row by row. *)
LEMMA RotatedRows ==
    ASSUME TableInv, NEW j, j.token \in DOMAIN rows, j.row = rows[j.token]
    PROVE  /\ DOMAIN Rotated(j) = DOMAIN rows \cup {minted + 1}
           /\ Rotated(j)[minted + 1] = Fresh(j.row.player, j.row.family)
           /\ \A t \in DOMAIN rows : Rotated(j)[t] = IF Turns(j, t) THEN Turned(rows[t], j.at) ELSE rows[t]
<1>. DEFINE tab == Superseded(j)
<1>1. DOMAIN tab = DOMAIN rows
  BY DEF Superseded, Supersede
<1>2. minted + 1 \notin DOMAIN rows
  BY DEF TableInv
<1>3. \A t \in DOMAIN rows : rows[t] \in Row /\ (rows[t].rotated_at = 0 <=> rows[t].rotated = FALSE)
  BY DEF TableInv, RowTrue, Row
<1>4. \A t \in DOMAIN rows : tab[t] = IF j.row.rotated /\ rows[t].family = j.row.family
                                      THEN Turned(rows[t], j.at) ELSE rows[t]
  <2>. TAKE t \in DOMAIN rows
  <2>1. CASE j.row.rotated /\ rows[t].family = j.row.family /\ ~rows[t].rotated
    BY <1>3, <2>1 DEF Superseded, Supersede, Turned
  <2>2. CASE j.row.rotated /\ rows[t].family = j.row.family /\ rows[t].rotated
    BY <1>3, <2>2 DEF Superseded, Supersede, Turned, Row
  <2>3. CASE ~(j.row.rotated /\ rows[t].family = j.row.family)
    BY <1>3, <2>3 DEF Superseded, Supersede, Turned
  <2>. QED
    BY <2>1, <2>2, <2>3
<1>5. Mark(tab, j.token, j.at) = [tab EXCEPT ![j.token] = Turned(rows[j.token], j.at)]
  <2>. DEFINE r == rows[j.token]
              marked(q) == [q EXCEPT !.rotated = TRUE, !.rotated_at = IF q.rotated_at = 0 THEN j.at ELSE q.rotated_at]
  <2>. HIDE DEF tab
  <2>1. Mark(tab, j.token, j.at) = [tab EXCEPT ![j.token] = marked(tab[j.token])]
    BY <1>1 DEF Mark
  <2>2. CASE r.rotated = TRUE
    <3>1. Turned(r, j.at) = r
      BY <1>3, <2>2 DEF Turned, Row
    <3>2. tab[j.token] = r
      BY <1>4, <2>2, <3>1
    <3>3. marked(r) = r
      BY <1>3, <2>2 DEF Row
    <3>. QED
      BY <2>1, <3>1, <3>2, <3>3
  <2>3. CASE r.rotated = FALSE
    <3>1. tab[j.token] = r
      BY <1>4, <2>3
    <3>2. marked(r) = Turned(r, j.at)
      BY <1>3, <2>3 DEF Turned, Row
    <3>. QED
      BY <2>1, <3>1, <3>2
  <2>. QED
    BY <1>3, <2>2, <2>3 DEF Row
<1>6. Rotated(j) = [s \in DOMAIN rows \cup {minted + 1} |->
                      IF s = minted + 1 THEN Fresh(j.row.player, j.row.family)
                      ELSE Mark(tab, j.token, j.at)[s]]
  BY <1>1, <1>5 DEF Rotated
<1>. HIDE DEF tab
<1>. QED
  BY <1>1, <1>2, <1>4, <1>5, <1>6 DEF Turns

-----------------------------------------------------------------------------
(* What a step may do to the table: rows stay or are turned at one time,   *)
(* some are deleted, and at most one is added.                             *)
RowsKept(at) == \A t \in DOMAIN rows \cap DOMAIN rows' : rows'[t] = rows[t] \/ rows'[t] = Turned(rows[t], at)
SameTokens == minted' = minted /\ born' = born /\ DOMAIN rows' \subseteq DOMAIN rows
OneMore(p, f) == /\ Mint(f) /\ p \in Players /\ f \in 1..minted + 1
                 /\ DOMAIN rows' \subseteq DOMAIN rows \cup {minted + 1}
                 /\ minted + 1 \in DOMAIN rows' => rows'[minted + 1] = Fresh(p, f)

(* Such a step, its replacements noted, keeps the rows true. *)
LEMMA TableStep ==
    ASSUME TableInv, NEW at \in Nat \ {0}, at <= clock, clock' = clock,
           NEW p, NEW f, SameTokens \/ OneMore(p, f),
           RowsKept(at), NoteReplaced(at), offered' \subseteq 1..minted'
    PROVE  TableInv'
<1>. USE Bounds
<1>1. /\ minted' \in Nat /\ minted' <= MaxTokens /\ minted <= minted' /\ minted' <= minted + 1
      /\ born' \in [Tokens -> [at : Nat, family : Nat]]
      /\ DOMAIN rows' \subseteq 1..minted'
      /\ \A t \in 1..minted : born'[t] = born[t]
  <2>1. CASE SameTokens
    BY <2>1 DEF TableInv, SameTokens
  <2>2. CASE OneMore(p, f)
    <3>1. minted \in Nat /\ minted' = minted + 1 /\ minted' <= MaxTokens /\ f \in Nat /\ clock \in Nat
      BY <2>2 DEF TableInv, OneMore, Mint
    <3>2. born' \in [Tokens -> [at : Nat, family : Nat]] /\ \A t \in 1..minted : born'[t] = born[t]
      BY <2>2, <3>1 DEF TableInv, OneMore, Mint, Tokens
    <3>3. DOMAIN rows' \subseteq 1..minted'
      BY <2>2, <3>1 DEF TableInv, OneMore
    <3>. QED
      BY <3>1, <3>2, <3>3
  <2>. QED
    BY <2>1, <2>2
<1>2. \A t \in DOMAIN rows' : t \in Tokens
  BY <1>1 DEF Tokens
<1>3. replacedAt' \in [Tokens -> Nat]
  BY DEF TableInv, NoteReplaced
<1>4. \A t \in Tokens : t > minted' => replacedAt'[t] = 0
  BY <1>1 DEF TableInv, NoteReplaced, Tokens
<1>5. ASSUME NEW t \in DOMAIN rows' PROVE RowTrue(t)'
  <2>1. replacedAt'[t] = IF replacedAt[t] = 0 /\ rows'[t].rotated THEN at ELSE replacedAt[t]
    BY <1>2 DEF NoteReplaced
  <2>2. CASE t \in DOMAIN rows
    <3>1. RowTrue(t) /\ t \in 1..minted
      BY <2>2 DEF TableInv
    <3>2. born'[t] = born[t]
      BY <1>1, <3>1
    <3>0. /\ rows[t].family \in 1..minted' /\ replacedAt[t] \in Nat
          /\ replacedAt[t] <= clock' /\ at <= clock'
      BY <1>1, <1>2, <3>1 DEF RowTrue, TableInv
    <3>3. CASE rows'[t] = rows[t]
      <4>1. replacedAt'[t] = replacedAt[t]
        BY <2>1, <3>1, <3>3 DEF RowTrue
      <4>. QED
        BY <3>0, <3>1, <3>2, <3>3, <4>1 DEF RowTrue
    <3>4. CASE rows'[t] = Turned(rows[t], at)
      <4>1. /\ rows'[t] \in Row
            /\ rows'[t].family = rows[t].family /\ rows'[t].expires_at = rows[t].expires_at
            /\ rows'[t].rotated = TRUE
            /\ rows'[t].rotated_at = IF rows[t].rotated THEN rows[t].rotated_at ELSE at
        BY <3>1, <3>4 DEF Turned, RowTrue, Row
      <4>2. replacedAt'[t] = rows'[t].rotated_at /\ replacedAt'[t] # 0 /\ replacedAt'[t] <= clock'
        BY <2>1, <3>0, <3>1, <4>1 DEF RowTrue, Row
      <4>. QED
        BY <3>0, <3>1, <3>2, <4>1, <4>2 DEF RowTrue
    <3>. QED
      BY <2>2, <3>3, <3>4 DEF RowsKept
  <2>3. CASE t \notin DOMAIN rows
    <3>1. OneMore(p, f) /\ t = minted + 1
      BY <2>3 DEF SameTokens, OneMore
    <3>2. rows'[t] = Fresh(p, f) /\ replacedAt[t] = 0
      BY <1>2, <3>1 DEF OneMore, TableInv
    <3>3. born'[t] = [at |-> clock, family |-> f] /\ minted' = minted + 1
      BY <1>2, <3>1 DEF OneMore, Mint, TableInv
    <3>4. f \in 1..minted' /\ p \in Players
      BY <3>1, <3>3 DEF OneMore
    <3>5. rows'[t] \in Row /\ rows'[t].rotated = FALSE
      BY <3>2, <3>4, <1>1 DEF Fresh, Row, TableInv
    <3>. QED
      BY <2>1, <3>2, <3>3, <3>4, <3>5 DEF RowTrue, Fresh, TableInv
  <2>. QED
    BY <2>2, <2>3
<1>. QED
  BY <1>1, <1>3, <1>4, <1>5 DEF TableInv

(* Rows that are not turned need no note. *)
LEMMA NothingToNote ==
    ASSUME TableInv, NEW p, NEW f, SameTokens \/ OneMore(p, f), UNCHANGED replacedAt,
           \A t \in DOMAIN rows \cap DOMAIN rows' : rows'[t] = rows[t]
    PROVE  NoteReplaced(clock) /\ RowsKept(clock)
<1>1. ASSUME NEW t \in Tokens, replacedAt[t] = 0, t \in DOMAIN rows' PROVE rows'[t].rotated = FALSE
  <2>1. CASE t \in DOMAIN rows
    BY <1>1, <2>1 DEF TableInv, RowTrue, Row
  <2>2. CASE t \notin DOMAIN rows
    BY <1>1, <2>2 DEF SameTokens, OneMore, Fresh
  <2>. QED
    BY <2>1, <2>2
<1>2. replacedAt' = [t \in Tokens |-> replacedAt[t]]
  BY DEF TableInv
<1>3. NoteReplaced(clock)
  BY <1>1, <1>2 DEF NoteReplaced
<1>. QED
  BY <1>3 DEF RowsKept

(* A statement of another worker waits for the mutex a refresh holds. *)
LEMMA NobodyRotates ==
    ASSUME JobInv, NEW w \in Workers, MayExec(w), job[w].step # "rotate"
    PROVE  \A v \in Workers : job[v].step # "rotate"
BY Bounds DEF JobInv, RefreshInv, MayExec

(* Two refreshes do not overlap. *)
LEMMA OnlyOneRotates ==
    ASSUME JobInv, NEW w \in Workers, job[w].step = "rotate"
    PROVE  \A v \in Workers : job[v].step = "rotate" => v = w
BY DEF JobInv, RefreshInv

(* Deleting rows of a family that is noted as ended, or rows past their    *)
(* time, loses no token.                                                   *)
LEMMA NothingLost ==
    ASSUME TableInv, LostInv, clock' = clock, NEW p, NEW f, SameTokens \/ OneMore(p, f),
           ended \subseteq ended',
           offered' \ offered \subseteq DOMAIN rows',
           \A t \in DOMAIN rows \ DOMAIN rows' : \/ rows[t].family \in ended'
                                                 \/ rows[t].expires_at <= clock
    PROVE  LostInv'
<1>. SUFFICES ASSUME NEW t \in offered', t \notin DOMAIN rows'
              PROVE  born'[t].family \in ended' \/ clock' >= born'[t].at + RefreshTtl
  BY DEF LostInv
<1>1. t \in offered /\ t \in 1..minted
  BY DEF TableInv
<1>2. born'[t] = born[t]
  <2>1. t # minted + 1 /\ t \in Tokens /\ born \in [Tokens -> [at : Nat, family : Nat]]
    BY <1>1, Bounds DEF TableInv, Tokens
  <2>. QED
    BY <2>1 DEF SameTokens, OneMore, Mint
<1>3. CASE t \in DOMAIN rows
  <2>1. RowTrue(t)
    BY <1>3 DEF TableInv
  <2>2. rows[t].expires_at <= clock => clock >= born[t].at + RefreshTtl
    BY <2>1, <1>1, Bounds DEF RowTrue, TableInv, Tokens
  <2>. QED
    BY <1>2, <1>3, <2>1, <2>2 DEF RowTrue
<1>4. CASE t \notin DOMAIN rows
  BY <1>1, <1>2, <1>4 DEF LostInv
<1>. QED
  BY <1>3, <1>4

(* Nor does deleting rows make a second current one. *)
LEMMA StillOneCurrent ==
    ASSUME OneCurrentToken, DOMAIN rows' \subseteq DOMAIN rows,
           NEW at, RowsKept(at), \A t \in DOMAIN rows : rows[t] \in Row
    PROVE  OneCurrentToken'
<1>1. ASSUME NEW t \in DOMAIN rows', ~rows'[t].rotated
      PROVE  rows[t].family = rows'[t].family /\ ~rows[t].rotated
  BY <1>1 DEF RowsKept, Turned, Row
<1>. QED
  BY <1>1 DEF OneCurrentToken

-----------------------------------------------------------------------------
(* Every step of the sessions keeps the invariant. *)
LEMMA IssueKeeps == ASSUME SessionInv, NEW w \in Workers, IssueSession(w) PROVE SessionInv'
<1>. USE Bounds
<1>. DEFINE p == job[w].player
            n == minted + 1
<1>1. job[w] \in SignIn /\ p \in Players
  BY DEF SessionInv, JobInv, IssueSession, SignIn
<1>2. Mint(n) /\ minted \in Nat /\ n \notin DOMAIN rows
  BY DEF SessionInv, TableInv, IssueSession
<1>3. /\ DOMAIN rows' \subseteq DOMAIN rows \cup {n}
      /\ n \in DOMAIN rows' => rows'[n] = Fresh(p, n)
      /\ \A t \in DOMAIN rows : t \in DOMAIN rows' /\ rows'[t] = rows[t]
      /\ offered' \subseteq offered \cup {n}
      /\ offered' \ offered \subseteq DOMAIN rows'
  BY <1>2 DEF IssueSession, sessionSent
<1>4. OneMore(p, n)
  BY <1>1, <1>2, <1>3 DEF OneMore
<1>5. NoteReplaced(clock) /\ RowsKept(clock)
  BY <1>3, <1>4, NothingToNote DEF SessionInv, IssueSession
<1>6. TableInv'
  <2>1. offered' \subseteq 1..minted'
    BY <1>2, <1>3 DEF SessionInv, TableInv, Mint
  <2>. QED
    BY <1>4, <1>5, <2>1, TableStep DEF SessionInv, TableInv, IssueSession
<1>7. JobInv'
  <2>1. \A v \in Workers : job[v].step # "rotate"
    BY NobodyRotates DEF SessionInv, IssueSession
  <2>2. job' = [job EXCEPT ![w] = Idle]
    BY DEF IssueSession, Done
  <2>. QED
    BY <2>1, <2>2 DEF SessionInv, JobInv, Idle
<1>8. OneCurrentToken'
  <2>1. \A t \in DOMAIN rows : rows[t].family \in 1..minted
    BY DEF SessionInv, TableInv, RowTrue
  <2>2. n \in DOMAIN rows' => rows'[n].family = n
    BY <1>3 DEF Fresh
  <2>. QED
    BY <1>2, <1>3, <2>1, <2>2 DEF SessionInv, OneCurrentToken
<1>9. EpochInv'
  <2>1. epoch' = epoch /\ era' = era /\ job' = [job EXCEPT ![w] = Idle]
    BY DEF IssueSession, Done
  <2>2. access' \subseteq access \cup {NewAccess(p, job[w].epoch)}
    BY DEF IssueSession, sessionSent
  <2>3. job[w].epoch \in Nat /\ job[w].epoch <= epoch[p] /\ epoch[p] \in Nat
    BY <1>1 DEF SessionInv, EpochInv, IssueSession, SignIn
  <2>4. LET a == NewAccess(p, job[w].epoch)
        IN  /\ a \in [player : Players, epoch : Nat, expires : Nat, era : Nat]
            /\ a.epoch <= a.era /\ a.era <= era[a.player]
    BY <1>1, <2>3 DEF SessionInv, EpochInv, TableInv, NewAccess
  <2>. QED
    BY <2>1, <2>2, <2>4 DEF SessionInv, EpochInv, JobInv, Idle
<1>10. LostInv'
  BY <1>3, <1>4, NothingLost DEF SessionInv, IssueSession
<1>. QED
  BY <1>6, <1>7, <1>8, <1>9, <1>10 DEF SessionInv

(* A step that at most deletes rows, of families it notes as ended. *)
LEMMA DeletionKeeps ==
    ASSUME TableInv, OneCurrentToken, LostInv,
           DOMAIN rows' \subseteq DOMAIN rows, \A t \in DOMAIN rows' : rows'[t] = rows[t],
           \A t \in DOMAIN rows \ DOMAIN rows' : rows[t].family \in ended',
           ended \subseteq ended',
           UNCHANGED <<clock, minted, born, replacedAt, offered>>
    PROVE  TableInv' /\ OneCurrentToken' /\ LostInv'
<1>1. SameTokens
  BY DEF SameTokens
<1>2. NoteReplaced(clock) /\ RowsKept(clock)
  BY <1>1, NothingToNote
<1>3. TableInv'
  BY <1>1, <1>2, TableStep DEF TableInv
<1>4. OneCurrentToken'
  BY <1>2, StillOneCurrent DEF TableInv, RowTrue
<1>5. LostInv'
  BY <1>1, NothingLost
<1>. QED
  BY <1>3, <1>4, <1>5

(* A logout deletes one family. *)
LEMMA LogoutKeeps ==
    ASSUME SessionInv, NEW w \in Workers, NEW t \in offered, Logout(w, t)
    PROVE  SessionInv'
<1>1. /\ DOMAIN rows' \subseteq DOMAIN rows /\ \A s \in DOMAIN rows' : rows'[s] = rows[s]
      /\ \A s \in DOMAIN rows \ DOMAIN rows' : rows[s].family \in ended'
      /\ ended \subseteq ended'
  BY DEF Logout, Without, InFamily
<1>2. TableInv' /\ OneCurrentToken' /\ LostInv'
  BY <1>1, DeletionKeeps DEF SessionInv, Logout, sessionSent
<1>3. JobInv'
  <2>1. \A v \in Workers : job[v].step # "rotate"
    BY NobodyRotates DEF SessionInv, Logout, Idle
  <2>. QED
    BY <2>1 DEF SessionInv, JobInv, Logout
<1>4. EpochInv'
  BY DEF SessionInv, EpochInv, Logout, sessionSent
<1>. QED
  BY <1>2, <1>3, <1>4 DEF SessionInv

(* The first statement of logout_all deletes a player's rows. *)
LEMMA DeleteKeeps == ASSUME SessionInv, NEW w \in Workers, LogoutAllDelete(w) PROVE SessionInv'
<1>1. /\ DOMAIN rows' \subseteq DOMAIN rows /\ \A s \in DOMAIN rows' : rows'[s] = rows[s]
      /\ \A s \in DOMAIN rows \ DOMAIN rows' : rows[s].family \in ended'
      /\ ended \subseteq ended'
  BY DEF LogoutAllDelete, Without
<1>2. TableInv' /\ OneCurrentToken' /\ LostInv'
  BY <1>1, DeletionKeeps DEF SessionInv, LogoutAllDelete, sessionSent
<1>3. \A v \in Workers : job[v].step # "rotate"
  BY NobodyRotates DEF SessionInv, LogoutAllDelete
<1>4. /\ DOMAIN job' = Workers /\ \A v \in Workers : v # w => job'[v] = job[v]
      /\ job'[w].step # "issue" /\ job'[w].step # "rotate"
      /\ job'[w].step \in {"delete", "bump"} => job'[w] \in SignOut
  <2>1. job[w] \in SignOut /\ DOMAIN job = Workers
    BY DEF SessionInv, JobInv, LogoutAllDelete
  <2>2. CASE job' = [job EXCEPT ![w].step = "bump"]
    BY <2>1, <2>2 DEF SignOut
  <2>3. CASE job' = [job EXCEPT ![w] = Idle]
    BY <2>1, <2>3 DEF Idle
  <2>. QED
    BY <2>2, <2>3 DEF LogoutAllDelete, Done
<1>5. JobInv'
  BY <1>3, <1>4 DEF SessionInv, JobInv
<1>6. EpochInv'
  BY <1>4 DEF SessionInv, EpochInv, LogoutAllDelete, sessionSent
<1>. QED
  BY <1>2, <1>5, <1>6 DEF SessionInv

(* The epoch of one player is bumped: what was issued before is older. *)
LEMMA BumpKeeps ==
    ASSUME EpochInv, JobInv, NEW p \in Players,
           epoch' = [epoch EXCEPT ![p] = @ + 1], era' = [era EXCEPT ![p] = @ + 1],
           access' = access,
           \A v \in Workers : job'[v] = job[v] \/ job'[v] = Idle
    PROVE  EpochInv'
<1>1. epoch' \in [Players -> Nat] /\ era' = epoch'
  BY DEF EpochInv
<1>2. \A q \in Players : epoch[q] <= epoch'[q] /\ epoch[q] \in Nat /\ epoch'[q] \in Nat
  BY DEF EpochInv
<1>3. \A a \in access' : a.epoch <= a.era /\ a.era <= era'[a.player]
  <2>. TAKE a \in access'
  <2>1. a.player \in Players /\ a.era \in Nat /\ a.epoch <= a.era /\ a.era <= epoch[a.player]
    BY DEF EpochInv
  <2>. QED
    BY <1>1, <1>2, <2>1
<1>4. \A w \in Workers : job'[w].step = "issue" => job'[w].epoch <= epoch'[job'[w].player]
  <2>. SUFFICES ASSUME NEW w \in Workers, job'[w].step = "issue"
                PROVE  job'[w].epoch <= epoch'[job'[w].player]
    OBVIOUS
  <2>1. job'[w] = job[w] /\ job[w] \in SignIn /\ job[w].epoch <= epoch[job[w].player]
    BY DEF Idle, JobInv, EpochInv
  <2>. QED
    BY <1>2, <2>1 DEF SignIn
<1>. QED
  BY <1>1, <1>3, <1>4 DEF EpochInv

(* A password reset deletes the rows and bumps the epoch at once. *)
LEMMA ResetKeeps ==
    ASSUME SessionInv, NEW w \in Workers, NEW p \in Players, ResetPassword(w, p)
    PROVE  SessionInv'
<1>1. /\ DOMAIN rows' \subseteq DOMAIN rows /\ \A s \in DOMAIN rows' : rows'[s] = rows[s]
      /\ \A s \in DOMAIN rows \ DOMAIN rows' : rows[s].family \in ended'
      /\ ended \subseteq ended'
  BY DEF ResetPassword, Without
<1>2. TableInv' /\ OneCurrentToken' /\ LostInv'
  BY <1>1, DeletionKeeps DEF SessionInv, ResetPassword, sessionSent
<1>3. JobInv'
  <2>1. \A v \in Workers : job[v].step # "rotate"
    BY NobodyRotates DEF SessionInv, ResetPassword, Idle, MayExec
  <2>. QED
    BY <2>1 DEF SessionInv, JobInv, ResetPassword
<1>4. EpochInv'
  BY BumpKeeps DEF SessionInv, ResetPassword, sessionSent
<1>. QED
  BY <1>2, <1>3, <1>4 DEF SessionInv

(* The second statement of logout_all. *)
LEMMA BumpedKeeps == ASSUME SessionInv, NEW w \in Workers, LogoutAllBump(w) PROVE SessionInv'
<1>1. TableInv' /\ OneCurrentToken' /\ LostInv'
  BY DeletionKeeps DEF SessionInv, LogoutAllBump, sessionSent
<1>2. \A v \in Workers : job[v].step # "rotate"
  BY NobodyRotates DEF SessionInv, LogoutAllBump
<1>3. DOMAIN job' = Workers /\ \A v \in Workers : job'[v] = job[v] \/ job'[v] = Idle
  BY DEF SessionInv, JobInv, LogoutAllBump, Done
<1>4. JobInv'
  BY <1>2, <1>3 DEF SessionInv, JobInv, Idle
<1>5. EpochInv'
  <2>1. job[w].player \in Players
    BY DEF SessionInv, JobInv, LogoutAllBump, SignOut
  <2>2. CASE UNCHANGED <<epoch, era>>
    BY <1>3, <2>2 DEF SessionInv, EpochInv, LogoutAllBump, sessionSent, Idle
  <2>3. CASE /\ epoch' = [epoch EXCEPT ![job[w].player] = @ + 1]
             /\ era' = [era EXCEPT ![job[w].player] = @ + 1]
    BY <1>3, <2>1, <2>3, BumpKeeps DEF SessionInv, LogoutAllBump, sessionSent
  <2>. QED
    BY <2>2, <2>3 DEF LogoutAllBump
<1>. QED
  BY <1>1, <1>4, <1>5 DEF SessionInv

(* The steps that leave the table alone. *)
LEMMA QuietKeeps ==
    ASSUME SessionInv,
           \/ SecondPasses
           \/ \E w \in Workers : \/ \E p \in Players : Authenticate(w, p)
                                 \/ \E t \in offered : RefreshSelect(w, t)
                                 \/ \E a \in access : LogoutAllGate(w, a)
    PROVE  SessionInv'
<1>1. UNCHANGED <<epoch, rows, minted, offered, access, born, replacedAt, ended, era>>
  BY DEF SecondPasses, Authenticate, RefreshSelect, LogoutAllGate,
         sessionTable, sessionSent, sessionHistory
<1>2. clock \in Nat \ {0} /\ clock' \in Nat /\ clock <= clock'
  BY DEF SessionInv, TableInv, SecondPasses, Authenticate, RefreshSelect, LogoutAllGate
<1>3. TableInv'
  <2>1. \A t \in DOMAIN rows : RowTrue(t)'
    <3>. TAKE t \in DOMAIN rows
    <3>1. RowTrue(t) /\ replacedAt[t] \in Nat
      BY Bounds DEF SessionInv, TableInv, Tokens
    <3>. QED
      BY <1>1, <1>2, <3>1 DEF RowTrue
  <2>. QED
    BY <1>1, <1>2, <2>1 DEF SessionInv, TableInv
<1>4. OneCurrentToken'
  BY <1>1 DEF SessionInv, OneCurrentToken
<1>5. LostInv'
  <2>1. offered \subseteq Tokens
    BY Bounds DEF SessionInv, TableInv, Tokens
  <2>2. \A t \in Tokens : born[t] \in [at : Nat, family : Nat]
    BY DEF SessionInv, TableInv
  <2>3. \A t \in offered : born[t].at \in Nat
    BY <2>1, <2>2
  <2>. QED
    BY <1>1, <1>2, <2>3, Bounds DEF SessionInv, LostInv
<1>6. JobInv' /\ EpochInv'
  <2>1. CASE SecondPasses
    <3>1. UNCHANGED <<job, guard>>
      BY <2>1 DEF SecondPasses
    <3>. QED
      BY <1>1, <1>2, <3>1 DEF SessionInv, JobInv, EpochInv, RefreshInv
  <2>2. ASSUME NEW w \in Workers, NEW p \in Players, Authenticate(w, p) PROVE JobInv' /\ EpochInv'
    <3>1. job' = [job EXCEPT ![w] = [step |-> "issue", player |-> p, epoch |-> epoch[p]]]
      BY <2>2 DEF Authenticate
    <3>2. \A v \in Workers : job[v].step # "rotate"
      BY <2>2, NobodyRotates DEF SessionInv, Authenticate, Idle
    <3>3. epoch[p] \in Nat
      BY DEF SessionInv, EpochInv
    <3>4. JobInv'
      BY <3>1, <3>2, <3>3 DEF SessionInv, JobInv, SignIn, SignOut
    <3>. QED
      BY <1>1, <3>1, <3>3, <3>4 DEF SessionInv, EpochInv, JobInv
  <2>3. ASSUME NEW w \in Workers, NEW t \in offered, RefreshSelect(w, t) PROVE JobInv' /\ EpochInv'
    <3>1. job' = [job EXCEPT ![w] = RefreshOf(t)] /\ guard' = w /\ clock' = clock
      BY <2>3 DEF RefreshSelect, RefreshTakesGuard
    <3>2. \A v \in Workers : job[v].step # "rotate"
      BY <2>3, NobodyRotates DEF SessionInv, RefreshSelect, Idle, MayExec
    <3>3. DOMAIN job = Workers /\ t \in 1..minted
      BY DEF SessionInv, JobInv, TableInv
    <3>4. RefreshInv(w)'
      BY <1>1, <1>2, <3>1, <3>3 DEF RefreshInv, RefreshOf
    <3>5. JobInv'
      BY <3>1, <3>2, <3>3, <3>4 DEF SessionInv, JobInv, RefreshOf
    <3>. QED
      BY <1>1, <3>1, <3>3, <3>5 DEF SessionInv, EpochInv, RefreshOf
  <2>4. ASSUME NEW w \in Workers, NEW a \in access, LogoutAllGate(w, a) PROVE JobInv' /\ EpochInv'
    <3>1. job' = [job EXCEPT ![w] = [step |-> "delete", player |-> a.player]]
      BY <2>4 DEF LogoutAllGate
    <3>2. \A v \in Workers : job[v].step # "rotate"
      BY <2>4, NobodyRotates DEF SessionInv, LogoutAllGate, Idle
    <3>3. a.player \in Players
      BY DEF SessionInv, EpochInv
    <3>4. JobInv'
      BY <3>1, <3>2, <3>3 DEF SessionInv, JobInv, SignIn, SignOut
    <3>. QED
      BY <1>1, <3>1, <3>4 DEF SessionInv, EpochInv, JobInv
  <2>. QED
    BY <2>1, <2>2, <2>3, <2>4
<1>. QED
  BY <1>3, <1>4, <1>5, <1>6 DEF SessionInv

(* A refresh that ends without a new token: the row was unknown, its       *)
(* family is deleted, or it alone because its time is over.                *)
LEMMA RejectedKeeps == ASSUME SessionInv, NEW w \in Workers, RefreshRejected(w) PROVE SessionInv'
<1>. DEFINE j == job[w]
<1>1. RefreshInv(w) /\ TableInv
  BY DEF SessionInv, JobInv, RefreshRejected
<1>2. j.row.family # 0 => j.token \in DOMAIN rows /\ j.row = rows[j.token]
  BY <1>1 DEF RefreshInv
<1>3. \A t \in DOMAIN rows : rows[t] \in Row
  BY <1>1 DEF TableInv, RowTrue
<1>4. \A t \in DOMAIN rows : Superseded(j)[t] = rows[t] \/ Superseded(j)[t] = Turned(rows[t], j.at)
  BY <1>3 DEF Superseded, Supersede, Turned
<1>5. /\ DOMAIN rows' \subseteq DOMAIN rows
      /\ \A t \in DOMAIN rows' : rows'[t] = rows[t] \/ rows'[t] = Turned(rows[t], j.at)
      /\ \A t \in DOMAIN rows \ DOMAIN rows' : rows[t].family \in ended' \/ rows[t].expires_at <= clock
      /\ ended \subseteq ended'
  <2>1. CASE Reuse(j)
    BY <2>1 DEF RefreshRejected, Without, InFamily
  <2>2. CASE ~Reuse(j) /\ Expired(j)
    <3>1. /\ DOMAIN rows' = DOMAIN rows \ {j.token}
          /\ \A t \in DOMAIN rows' : rows'[t] = Superseded(j)[t]
          /\ ended' = ended
      BY <2>2 DEF RefreshRejected
    <3>2. rows[j.token].expires_at <= clock
      BY <1>1, <1>2, <1>3, <2>2 DEF RefreshInv, Expired, Row, TableInv
    <3>. QED
      BY <1>4, <3>1, <3>2
  <2>3. CASE ~Reuse(j) /\ ~Expired(j)
    BY <2>3 DEF RefreshRejected
  <2>. QED
    BY <2>1, <2>2, <2>3
<1>6. SameTokens /\ RowsKept(j.at) /\ NoteReplaced(j.at) /\ clock' = clock /\ offered' = offered
  BY <1>5 DEF SameTokens, RowsKept, RefreshRejected, sessionSent
<1>7. TableInv'
  <2>1. j.at \in Nat \ {0} /\ j.at <= clock /\ offered' \subseteq 1..minted'
    BY <1>1, <1>6 DEF RefreshInv, TableInv, SameTokens
  <2>. QED
    BY <1>1, <1>6, <2>1, TableStep
<1>8. OneCurrentToken'
  BY <1>3, <1>5, <1>6, StillOneCurrent DEF SessionInv
<1>9. LostInv'
  BY <1>1, <1>5, <1>6, NothingLost DEF SessionInv
<1>10. JobInv' /\ EpochInv'
  <2>1. job' = [job EXCEPT ![w] = Idle] /\ UNCHANGED <<epoch, era, access>>
    BY DEF RefreshRejected, Done, sessionSent
  <2>2. \A v \in Workers : v # w => job[v].step # "rotate"
    BY OnlyOneRotates DEF SessionInv, RefreshRejected
  <2>. QED
    BY <2>1, <2>2 DEF SessionInv, JobInv, EpochInv, Idle
<1>. QED
  BY <1>7, <1>8, <1>9, <1>10 DEF SessionInv

(* A committed rotation: the successor is the one current token of its     *)
(* family, whether the token was current or a retry superseded its heir.   *)
LEMMA CommitKeeps ==
    ASSUME SessionInv, NEW w \in Workers, job[w].step = "rotate", Rotates(job[w]),
           Mint(job[w].row.family), rows' = Rotated(job[w]), NoteReplaced(job[w].at),
           clock' = clock, ended' = ended,
           offered' \subseteq offered \cup {minted + 1}
    PROVE  TableInv' /\ OneCurrentToken' /\ LostInv' /\ job[w].row.player \in Players
<1>. DEFINE j == job[w]
            n == minted + 1
<1>1. RefreshInv(w) /\ TableInv
  BY DEF SessionInv, JobInv
<1>2. j.token \in DOMAIN rows /\ j.row = rows[j.token]
  BY <1>1 DEF RefreshInv, Rotates
<1>3. j.row \in Row /\ j.row.family \in 1..minted /\ \A t \in DOMAIN rows : rows[t] \in Row
  BY <1>1, <1>2 DEF TableInv, RowTrue
<1>4. /\ DOMAIN rows' = DOMAIN rows \cup {n}
      /\ rows'[n] = Fresh(j.row.player, j.row.family)
      /\ \A t \in DOMAIN rows : rows'[t] = IF Turns(j, t) THEN Turned(rows[t], j.at) ELSE rows[t]
  BY <1>1, <1>2, RotatedRows
<1>5. minted \in Nat /\ n \notin DOMAIN rows
  BY <1>1 DEF TableInv
<1>6. OneMore(j.row.player, j.row.family) /\ RowsKept(j.at)
  <2>1. j.row.player \in Players /\ j.row.family \in 1..minted + 1
    BY <1>3, <1>5 DEF Row
  <2>. QED
    BY <1>4, <2>1 DEF OneMore, RowsKept
<1>7. TableInv'
  <2>1. j.at \in Nat \ {0} /\ j.at <= clock
    BY <1>1 DEF RefreshInv
  <2>2. offered' \subseteq 1..minted'
    BY <1>1, <1>5 DEF TableInv, Mint
  <2>. QED
    BY <1>1, <1>6, <2>1, <2>2, TableStep
<1>8. OneCurrentToken'
  <2>1. ASSUME NEW t \in DOMAIN rows, ~rows'[t].rotated
        PROVE  rows'[t] = rows[t] /\ rows[t].family # j.row.family
    <3>1. ~Turns(j, t)
      BY <1>3, <1>4, <2>1 DEF Turned, Row
    <3>2. rows'[t] = rows[t] /\ t # j.token /\ ~(j.row.rotated /\ rows[t].family = j.row.family)
      BY <1>4, <3>1 DEF Turns
    <3>3. ~j.row.rotated => rows[t].family # j.row.family
      BY <1>2, <2>1, <3>2 DEF SessionInv, OneCurrentToken
    <3>. QED
      BY <3>2, <3>3
  <2>2. rows'[n].family = j.row.family
    BY <1>4 DEF Fresh
  <2>. SUFFICES ASSUME NEW t \in DOMAIN rows', NEW u \in DOMAIN rows', rows'[t].family = rows'[u].family,
                       ~rows'[t].rotated, ~rows'[u].rotated
                PROVE  t = u
    BY DEF OneCurrentToken
  <2>3. CASE t \in DOMAIN rows /\ u \in DOMAIN rows
    BY <2>1, <2>3 DEF SessionInv, OneCurrentToken
  <2>4. CASE t = n \/ u = n
    BY <1>4, <1>5, <2>1, <2>2, <2>4
  <2>. QED
    BY <1>4, <2>3, <2>4
<1>9. LostInv'
  BY <1>1, <1>4, <1>6, NothingLost DEF SessionInv
<1>. QED
  BY <1>3, <1>7, <1>8, <1>9 DEF Row

(* A refresh whose answer is sent. *)
LEMMA RotatesKeeps == ASSUME SessionInv, NEW w \in Workers, RefreshRotates(w) PROVE SessionInv'
<1>. DEFINE p == job[w].row.player
<1>1. TableInv' /\ OneCurrentToken' /\ LostInv' /\ p \in Players
  BY CommitKeeps DEF RefreshRotates
<1>2. job' = [job EXCEPT ![w] = Idle] /\ UNCHANGED <<epoch, era>>
  BY DEF RefreshRotates, Done
<1>3. JobInv'
  <2>1. \A v \in Workers : v # w => job[v].step # "rotate"
    BY OnlyOneRotates DEF SessionInv, RefreshRotates
  <2>. QED
    BY <1>2, <2>1 DEF SessionInv, JobInv, Idle
<1>4. EpochInv'
  <2>1. access' = access \cup {NewAccess(p, epoch[p])}
    BY DEF RefreshRotates
  <2>2. epoch[p] \in Nat /\ era[p] = epoch[p] /\ clock + AccessTtl \in Nat
    BY <1>1, Bounds DEF SessionInv, EpochInv, TableInv
  <2>. QED
    BY <1>1, <1>2, <2>1, <2>2 DEF SessionInv, EpochInv, JobInv, NewAccess, Idle
<1>. QED
  BY <1>1, <1>3, <1>4 DEF SessionInv

(* A refresh rolled back, or committed without an answer. *)
LEMMA FailsKeeps == ASSUME SessionInv, NEW w \in Workers, RefreshFails(w) PROVE SessionInv'
<1>1. TableInv' /\ OneCurrentToken' /\ LostInv'
  <2>1. CASE UNCHANGED <<rows, minted, born, replacedAt>>
    BY <2>1, DeletionKeeps DEF SessionInv, RefreshFails, sessionSent
  <2>2. CASE /\ Rotates(job[w]) /\ Mint(job[w].row.family)
             /\ rows' = Rotated(job[w]) /\ NoteReplaced(job[w].at)
    BY <2>2, CommitKeeps DEF RefreshFails, sessionSent
  <2>. QED
    BY <2>1, <2>2 DEF RefreshFails
<1>2. JobInv' /\ EpochInv'
  <2>1. job' = [job EXCEPT ![w] = Idle] /\ UNCHANGED <<epoch, era, access>>
    BY DEF RefreshFails, Done, sessionSent
  <2>2. \A v \in Workers : v # w => job[v].step # "rotate"
    BY OnlyOneRotates DEF SessionInv, RefreshFails
  <2>. QED
    BY <2>1, <2>2 DEF SessionInv, JobInv, EpochInv, Idle
<1>. QED
  BY <1>1, <1>2 DEF SessionInv

(* Every step keeps the invariant. *)
LEMMA SessionSteps == SessionInv /\ [SessionsNext]_sessionVars => SessionInv'
<1>. SUFFICES ASSUME SessionInv, [SessionsNext]_sessionVars PROVE SessionInv'
  OBVIOUS
<1>1. CASE SecondPasses
  BY <1>1, QuietKeeps
<1>2. ASSUME NEW w \in Workers, NEW p \in Players, Authenticate(w, p) \/ ResetPassword(w, p)
      PROVE  SessionInv'
  BY <1>2, QuietKeeps, ResetKeeps
<1>3. ASSUME NEW w \in Workers, NEW t \in offered, RefreshSelect(w, t) \/ Logout(w, t)
      PROVE  SessionInv'
  BY <1>3, QuietKeeps, LogoutKeeps
<1>4. ASSUME NEW w \in Workers, NEW a \in access, LogoutAllGate(w, a) PROVE SessionInv'
  BY <1>4, QuietKeeps
<1>5. ASSUME NEW w \in Workers,
             \/ IssueSession(w) \/ RefreshRejected(w) \/ RefreshRotates(w) \/ RefreshFails(w)
             \/ LogoutAllDelete(w) \/ LogoutAllBump(w)
      PROVE  SessionInv'
  BY <1>5, IssueKeeps, RejectedKeeps, RotatesKeeps, FailsKeeps, DeleteKeeps, BumpedKeeps
<1>6. CASE UNCHANGED sessionVars
  BY <1>6 DEF sessionVars, sessionTable, sessionSent, sessionHistory, SessionInv, TableInv, JobInv,
              OneCurrentToken, EpochInv, LostInv, RowTrue, RefreshInv
<1>. QED
  BY <1>1, <1>2, <1>3, <1>4, <1>5, <1>6 DEF SessionsNext

(* The invariant holds throughout. *)
LEMMA SessionAlways == SessionsSpec => []SessionInv
BY SessionStarts, SessionSteps, PTL DEF SessionsSpec

-----------------------------------------------------------------------------
(* One current token per login, however its refreshes are repeated,        *)
(* interleaved, refused or left in doubt by a failed COMMIT.               *)
THEOREM OneTokenIsCurrent == SessionsSpec => []OneCurrentToken
BY SessionAlways, PTL DEF SessionInv

(* Once logout_all or a password reset has answered, no access token       *)
(* issued before passes a gate.                                            *)
THEOREM OldAccessRefused == SessionsSpec => []SignOutTakesEffect
<1>1. SessionInv => SignOutTakesEffect
  <2>. SUFFICES ASSUME SessionInv, NEW a \in access, epoch[a.player] = a.epoch
                PROVE  a.era = era[a.player]
    BY DEF SignOutTakesEffect, Gate, Extract
  <2>1. /\ a.epoch \in Nat /\ a.era \in Nat /\ era = epoch
        /\ a.epoch <= a.era /\ a.era <= era[a.player]
    BY DEF SessionInv, EpochInv
  <2>. QED
    BY <2>1
<1>. QED
  BY <1>1, SessionAlways, PTL

(* A refused refresh has one of the three reasons, and a token replaced    *)
(* longer ago than the grace is refused.                                   *)
LEMMA RefreshAnswers == SessionInv => RetryRecovers /\ GraceNotStretched
<1>. SUFFICES ASSUME SessionInv, NEW t \in offered
              PROVE  /\ ~Rotates(RefreshOf(t)) => \/ born[t].family \in ended
                                                  \/ clock >= born[t].at + RefreshTtl
                                                  \/ replacedAt[t] # 0 /\ clock - replacedAt[t] > Grace
                     /\ Rotates(RefreshOf(t)) => replacedAt[t] = 0 \/ clock - replacedAt[t] <= Grace
  BY DEF RetryRecovers, GraceNotStretched
<1>1. /\ clock \in Nat /\ Grace \in Nat /\ replacedAt[t] \in Nat
      /\ born[t].at \in Nat /\ RefreshTtl \in Nat
  BY Bounds DEF SessionInv, TableInv, Tokens
<1>2. CASE t \notin DOMAIN rows
  <2>1. ~Rotates(RefreshOf(t))
    BY <1>2 DEF Rotates, RefreshOf
  <2>. QED
    BY <1>2, <2>1 DEF SessionInv, LostInv
<1>3. CASE t \in DOMAIN rows
  <2>. DEFINE r == rows[t]
  <2>1. /\ r.family # 0 /\ r.rotated \in BOOLEAN /\ r.expires_at = born[t].at + RefreshTtl
        /\ r.rotated_at = replacedAt[t] /\ (r.rotated = TRUE <=> replacedAt[t] # 0)
        /\ replacedAt[t] <= clock
    BY <1>3 DEF SessionInv, TableInv, RowTrue, Row
  <2>2. RefreshOf(t).row = r /\ RefreshOf(t).at = clock
    BY <1>3 DEF RefreshOf
  <2>3. Rotates(RefreshOf(t)) <=> /\ r.rotated => clock - replacedAt[t] <= Grace
                                  /\ ~(r.expires_at <= clock)
    BY <1>1, <2>1, <2>2 DEF Rotates, Reuse, Expired, TransportRetry
  <2>. QED
    BY <1>1, <2>1, <2>3
<1>. QED
  BY <1>2, <1>3

(* A client whose answer was lost keeps its login within the grace. *)
THEOREM LostAnswersAreRetried == SessionsSpec => []RetryRecovers
BY RefreshAnswers, SessionAlways, PTL

(* Retries do not prolong the grace. *)
THEOREM GraceIsFixed == SessionsSpec => []GraceNotStretched
BY RefreshAnswers, SessionAlways, PTL

(* A family emptied by a logout, a sign-out or a reuse gets no successor   *)
(* from a refresh that was under way.                                      *)
THEOREM EndedForGood == SessionsSpec => EndedFamiliesStayEnded
<1>1. ASSUME SessionInv, [SessionsNext]_sessionVars,
             NEW f \in 1..minted, InFamily(f) = {}, f \in ended
      PROVE  InFamily(f)' = {}
  <2>. DEFINE Same == /\ DOMAIN rows' \subseteq DOMAIN rows
                      /\ \A t \in DOMAIN rows' : rows'[t].family = rows[t].family
  <2>1. Same => InFamily(f)' = {}
    BY <1>1 DEF InFamily
  <2>2. ASSUME NEW w \in Workers, IssueSession(w) PROVE InFamily(f)' = {}
    <3>1. \A t \in DOMAIN rows' : \/ t \in DOMAIN rows /\ rows'[t] = rows[t]
                                 \/ rows'[t].family = minted + 1
      BY <2>2 DEF IssueSession, Fresh
    <3>2. f # minted + 1
      BY <1>1 DEF SessionInv, TableInv
    <3>. QED
      BY <1>1, <3>1, <3>2 DEF InFamily
  <2>3. ASSUME NEW w \in Workers, job[w].step = "rotate", Rotates(job[w]), rows' = Rotated(job[w])
        PROVE  InFamily(f)' = {}
    <3>. DEFINE j == job[w]
    <3>1. RefreshInv(w) /\ TableInv
      BY <1>1, <2>3 DEF SessionInv, JobInv
    <3>2. j.token \in DOMAIN rows /\ j.row = rows[j.token]
      BY <2>3, <3>1 DEF RefreshInv, Rotates
    <3>3. j.row.family # f
      BY <1>1, <3>2 DEF InFamily
    <3>4. \A t \in DOMAIN rows : rows[t] \in Row
      BY <3>1 DEF TableInv, RowTrue
    <3>5. \A t \in DOMAIN rows' : \/ t \in DOMAIN rows /\ rows'[t].family = rows[t].family
                                 \/ rows'[t].family = j.row.family
      <4>1. \A t \in DOMAIN rows : Turned(rows[t], j.at).family = rows[t].family
        BY <3>4 DEF Turned, Row
      <4>2. Fresh(j.row.player, j.row.family).family = j.row.family
        BY DEF Fresh
      <4>3. /\ DOMAIN rows' = DOMAIN rows \cup {minted + 1}
            /\ rows'[minted + 1] = Fresh(j.row.player, j.row.family)
            /\ \A t \in DOMAIN rows : rows'[t] = IF Turns(j, t) THEN Turned(rows[t], j.at) ELSE rows[t]
        BY <2>3, <3>1, <3>2, RotatedRows
      <4>. QED
        BY <4>1, <4>2, <4>3
    <3>. QED
      BY <1>1, <3>3, <3>5 DEF InFamily
  <2>4. ASSUME NEW w \in Workers, RefreshRejected(w) PROVE Same
    <3>1. \A t \in DOMAIN rows : rows[t] \in Row
      BY <1>1 DEF SessionInv, TableInv, RowTrue
    <3>2. \A t \in DOMAIN rows : Superseded(job[w])[t].family = rows[t].family
      BY <3>1 DEF Superseded, Supersede, Row
    <3>. QED
      BY <2>4, <3>2 DEF RefreshRejected, Without
  <2>5. ASSUME NEW w \in Workers, LogoutAllDelete(w) PROVE Same
    BY <2>5 DEF LogoutAllDelete, Without
  <2>6. ASSUME NEW w \in Workers, NEW p \in Players, ResetPassword(w, p) PROVE Same
    BY <2>6 DEF ResetPassword, Without
  <2>7. ASSUME NEW w \in Workers, NEW t \in offered, Logout(w, t) PROVE Same
    BY <2>7 DEF Logout, Without
  <2>8. CASE UNCHANGED rows
    BY <2>1, <2>8
  <2>9. \/ UNCHANGED rows
        \/ \E w \in Workers :
              \/ IssueSession(w) \/ RefreshRejected(w) \/ LogoutAllDelete(w)
              \/ job[w].step = "rotate" /\ Rotates(job[w]) /\ rows' = Rotated(job[w])
              \/ \E p \in Players : ResetPassword(w, p)
              \/ \E t \in offered : Logout(w, t)
    BY <1>1 DEF SessionsNext, sessionVars, sessionTable, SecondPasses, Authenticate, RefreshSelect,
                RefreshRotates, RefreshFails, LogoutAllGate, LogoutAllBump
  <2>. QED
    BY <2>1, <2>2, <2>3, <2>4, <2>5, <2>6, <2>7, <2>8, <2>9
<1>2. SessionInv /\ [SessionsNext]_sessionVars
        => [\A f \in 1..minted : InFamily(f) = {} /\ f \in ended => InFamily(f)' = {}]_sessionVars
  BY <1>1
<1>. QED
  BY <1>2, SessionAlways, PTL DEF SessionsSpec, EndedFamiliesStayEnded

(* session.cpp:96: the grace decides a refresh in both directions, for     *)
(* every number of workers, players and retries.                           *)
THEOREM RefreshesAnswerRight == SessionsSpec => []RefreshAnswersRight
BY LostAnswersAreRetried, GraceIsFixed, PTL DEF RefreshAnswersRight

(* auth_handler.cpp, logout and logout_all: what a sign-out has ended      *)
(* stays over, whichever requests were under way.                          *)
THEOREM SignOutsAlwaysStick == SessionsSpec => SignOutsStick
BY OldAccessRefused, EndedForGood, PTL DEF SignOutsStick

-----------------------------------------------------------------------------
Busy(w) == keyJob[w].step \in {"store", "open"}
Made == 1..(nextKey - 1)

(* A key is in one place: about to be stored, in the store, taken out to   *)
(* open an envelope, or spent.                                             *)
JobKeys == /\ nextKey \in Nat \ {0}
           /\ DOMAIN keyJob = KeyWorkers
           /\ DOMAIN entries \subseteq Made
           /\ \A w \in KeyWorkers : Busy(w) => keyJob[w].key \in Made /\ keyJob[w].key \notin DOMAIN entries
           /\ \A w, v \in KeyWorkers : Busy(w) /\ Busy(v) /\ keyJob[w].key = keyJob[v].key => w = v
Spent == /\ \A d \in dispatched : d[1] # 0 => d[1] \in Made /\ d[1] \notin DOMAIN entries
         /\ \A d \in dispatched, w \in KeyWorkers : Busy(w) => keyJob[w].key # d[1]
         /\ \A d, e \in dispatched : d[1] = e[1] /\ d[1] # 0 => d = e
OnePlace == JobKeys /\ Spent

(* The counts are exact, and absent where they are zero. *)
Count(ip) == IF ip \in DOMAIN per_ip THEN per_ip[ip] ELSE 0
Counted == /\ IsFiniteSet(DOMAIN entries)
           /\ \A ip \in Ips : Count(ip) = Cardinality(Of(DOMAIN entries, ip))
           /\ \A w \in KeyWorkers : keyJob[w].step = "store" => keyJob[w].ip \in Ips
           /\ DOMAIN keyJob = KeyWorkers

-----------------------------------------------------------------------------
(* What an erasure leaves. *)
LEMMA ErasedKeys ==
    ASSUME NEW ks, Erase(ks)
    PROVE  /\ DOMAIN entries' = DOMAIN entries \ ks
           /\ \A k \in DOMAIN entries' : entries'[k] = entries[k]
BY DEF Erase, EntriesWithout

(* Keys stay in one place. *)
LEMMA PlaceStarts == SealInit => OnePlace
BY DEF SealInit, OnePlace, JobKeys, Spent, KeyIdle, Busy, Made

(* A key moves from the table to one request, or goes. *)
LEMMA PlaceSteps == OnePlace /\ [SealNext]_sealVars => OnePlace'
<1>. SUFFICES ASSUME OnePlace, [SealNext]_sealVars PROVE OnePlace'
  OBVIOUS
<1>. USE DEF OnePlace
<1>1. ASSUME NEW w \in KeyWorkers, NEW ip \in Ips, Admit(w, ip) PROVE OnePlace'
  <2>1. /\ DOMAIN entries' \subseteq DOMAIN entries /\ nextKey' = nextKey + 1
        /\ keyJob' = [keyJob EXCEPT ![w] = [step |-> "store", key |-> nextKey, ip |-> ip]]
        /\ keyJob[w] = KeyIdle /\ UNCHANGED dispatched
    BY <1>1, ErasedKeys DEF Admit
  <2>2. JobKeys'
    BY <2>1 DEF JobKeys, Busy, Made
  <2>3. Spent'
    BY <2>1 DEF JobKeys, Spent, Busy, Made
  <2>. QED
    BY <2>2, <2>3
<1>2. ASSUME NEW w \in KeyWorkers, NEW ip \in Ips, Refuse(w, ip) PROVE OnePlace'
  <2>1. DOMAIN entries' \subseteq DOMAIN entries /\ UNCHANGED <<nextKey, keyJob, dispatched>>
    BY <1>2, ErasedKeys DEF Refuse
  <2>. QED
    BY <2>1 DEF JobKeys, Spent, Busy, Made
<1>3. ASSUME NEW w \in KeyWorkers, Store(w) PROVE OnePlace'
  <2>1. /\ DOMAIN entries' \subseteq DOMAIN entries \cup {keyJob[w].key}
        /\ keyJob[w].step = "store" /\ keyJob' = [keyJob EXCEPT ![w] = KeyIdle]
        /\ UNCHANGED <<nextKey, dispatched>>
    BY <1>3 DEF Store
  <2>2. JobKeys'
    BY <2>1 DEF JobKeys, Busy, Made, KeyIdle
  <2>3. Spent'
    BY <2>1 DEF JobKeys, Spent, Busy, Made, KeyIdle
  <2>. QED
    BY <2>2, <2>3
<1>4. ASSUME NEW w \in KeyWorkers, NEW type, NotSealed(w, type) PROVE OnePlace'
  <2>1. dispatched' = dispatched \cup {<<0, type>>} /\ UNCHANGED <<nextKey, keyJob, entries>>
    BY <1>4 DEF NotSealed
  <2>2. JobKeys'
    BY <2>1 DEF JobKeys, Busy, Made
  <2>3. Spent'
    BY <2>1 DEF JobKeys, Spent, Busy, Made
  <2>. QED
    BY <2>2, <2>3
<1>5. ASSUME NEW w \in KeyWorkers, NEW k, NEW type, NEW inner, NEW intact, Consume(w, k, type, intact, inner)
      PROVE OnePlace'
  <2>1. /\ DOMAIN entries' = DOMAIN entries \ {k} /\ k \in DOMAIN entries
        /\ keyJob[w] = KeyIdle /\ UNCHANGED <<nextKey, dispatched>>
    BY <1>5, ErasedKeys DEF Consume
  <2>2. CASE UNCHANGED keyJob
    BY <2>1, <2>2 DEF JobKeys, Spent, Busy, Made
  <2>3. CASE keyJob' = [keyJob EXCEPT ![w] = [step |-> "open", key |-> k, type |-> type,
                                              intact |-> intact, inner |-> inner]]
    <3>1. JobKeys'
      BY <2>1, <2>3 DEF JobKeys, Busy, Made, KeyIdle
    <3>2. Spent'
      BY <2>1, <2>3 DEF JobKeys, Spent, Busy, Made, KeyIdle
    <3>. QED
      BY <3>1, <3>2
  <2>. QED
    BY <1>5, <2>2, <2>3 DEF Consume
<1>6. ASSUME NEW w \in KeyWorkers, OpenEnvelope(w) PROVE OnePlace'
  <2>1. /\ keyJob[w].step = "open" /\ keyJob' = [keyJob EXCEPT ![w] = KeyIdle]
        /\ UNCHANGED <<nextKey, entries>>
        /\ dispatched' \subseteq dispatched \cup {<<keyJob[w].key, keyJob[w].type>>}
    BY <1>6 DEF OpenEnvelope
  <2>2. JobKeys'
    BY <2>1 DEF JobKeys, Busy, Made, KeyIdle
  <2>3. Spent'
    BY <2>1 DEF JobKeys, Spent, Busy, Made, KeyIdle
  <2>. QED
    BY <2>2, <2>3
<1>7. CASE SweepExpired
  <2>1. DOMAIN entries' \subseteq DOMAIN entries /\ UNCHANGED <<nextKey, keyJob, dispatched>>
    BY <1>7, ErasedKeys DEF SweepExpired
  <2>. QED
    BY <2>1 DEF JobKeys, Spent, Busy, Made
<1>8. CASE KeySecondPasses \/ UNCHANGED sealVars
  BY <1>8 DEF KeySecondPasses, sealVars, JobKeys, Spent, Busy, Made
<1>. QED
  BY <1>1, <1>2, <1>3, <1>4, <1>5, <1>6, <1>7, <1>8 DEF SealNext

(* sealed_key_store.cpp:108: of the workers that present one envelope, or  *)
(* relabelled copies of it, one at most opens it, and it stays spent.      *)
THEOREM KeysOpenOneEnvelope == SealSpec => []OneEnvelopePerKey
<1>1. OnePlace => OneEnvelopePerKey
  BY DEF OnePlace, JobKeys, Spent, Busy, OneEnvelopePerKey
<1>. QED
  BY PlaceStarts, PlaceSteps, <1>1, PTL DEF SealSpec

-----------------------------------------------------------------------------
(* The counts after an erasure are those of the entries that are left. *)
LEMMA LeftCounts ==
    ASSUME Counted, NEW ks \in SUBSET DOMAIN entries, NEW ip \in Ips
    PROVE  Cardinality(Of(DOMAIN entries \ ks, ip)) =
             IF ip \in DOMAIN CountsWithout(ks) THEN CountsWithout(ks)[ip] ELSE 0
<1>. DEFINE all == Of(DOMAIN entries, ip)
            gone == Of(ks, ip)
            left == per_ip[ip] - Cardinality(gone)
<1>1. IsFiniteSet(all) /\ IsFiniteSet(gone) /\ gone \subseteq all
  BY FS_Subset DEF Counted, Of
<1>2. all \cap gone = gone /\ Of(DOMAIN entries \ ks, ip) = all \ gone
  BY <1>1 DEF Of
<1>3. /\ Cardinality(all \ gone) = Cardinality(all) - Cardinality(gone)
      /\ Cardinality(all) \in Nat /\ Cardinality(gone) \in Nat /\ Cardinality(all \ gone) \in Nat
  <2>1. IsFiniteSet(all \ gone)
    BY <1>1, FS_Subset
  <2>. QED
    BY <1>1, <1>2, <2>1, FS_Difference, FS_CardinalityType
<1>4. Count(ip) = Cardinality(all)
  BY DEF Counted
<1>5. CASE ip \in DOMAIN per_ip
  <2>1. left = Cardinality(all \ gone)
    BY <1>3, <1>4, <1>5 DEF Count
  <2>2. ip \in DOMAIN CountsWithout(ks) <=> left > 0
    BY <1>5 DEF CountsWithout
  <2>3. ip \in DOMAIN CountsWithout(ks) => CountsWithout(ks)[ip] = left
    BY DEF CountsWithout
  <2>4. left \in Nat /\ Cardinality(Of(DOMAIN entries \ ks, ip)) = left
    BY <1>2, <1>3, <2>1
  <2>. HIDE DEF left
  <2>. QED
    BY <2>2, <2>3, <2>4
<1>6. CASE ip \notin DOMAIN per_ip
  <2>1. ip \notin DOMAIN CountsWithout(ks)
    BY <1>6 DEF CountsWithout
  <2>2. Cardinality(all \ gone) = 0
    BY <1>3, <1>4, <1>6 DEF Count
  <2>. QED
    BY <1>2, <2>1, <2>2
<1>. QED
  BY <1>5, <1>6

(* Erasing entries keeps the counts exact. *)
LEMMA ErasedCounts ==
    ASSUME Counted, NEW ks \in SUBSET DOMAIN entries, Erase(ks)
    PROVE  /\ IsFiniteSet(DOMAIN entries')
           /\ \A ip \in Ips : Count(ip)' = Cardinality(Of(DOMAIN entries, ip)')
           /\ DOMAIN entries' \subseteq DOMAIN entries
           /\ \A ip \in Ips : Of(DOMAIN entries, ip)' \subseteq Of(DOMAIN entries, ip)
<1>1. DOMAIN entries' = DOMAIN entries \ ks /\ \A k \in DOMAIN entries' : entries'[k] = entries[k]
  BY ErasedKeys
<1>2. IsFiniteSet(DOMAIN entries')
  BY <1>1, FS_Subset DEF Counted
<1>3. ASSUME NEW ip \in Ips
      PROVE  Of(DOMAIN entries, ip)' = Of(DOMAIN entries \ ks, ip)
  BY <1>1 DEF Of
<1>4. \A ip \in Ips : Count(ip)' = Cardinality(Of(DOMAIN entries \ ks, ip))
  BY LeftCounts DEF Erase, Count
<1>5. \A ip \in Ips : Of(DOMAIN entries, ip)' \subseteq Of(DOMAIN entries, ip)
  BY <1>3 DEF Of
<1>. QED
  BY <1>1, <1>2, <1>3, <1>4, <1>5

SealInv == OnePlace /\ Counted /\ CapsHold

(* Subsets of sets under a cap are under it. *)
LEMMA CapsShrink ==
    ASSUME CapsHold, Counted, IsFiniteSet(DOMAIN entries'), DOMAIN entries' \subseteq DOMAIN entries,
           \A ip \in Ips : Of(DOMAIN entries, ip)' \subseteq Of(DOMAIN entries, ip)
    PROVE  CapsHold'
<1>. USE CapAssumption
<1>1. Cardinality(DOMAIN entries') <= Cardinality(DOMAIN entries)
  BY FS_Subset DEF Counted
<1>2. Cardinality(DOMAIN entries') \in Nat /\ Cardinality(DOMAIN entries) \in Nat
  BY FS_CardinalityType DEF Counted
<1>3. ASSUME NEW ip \in Ips PROVE Cardinality(Of(DOMAIN entries, ip)') <= MaxPerIp
  <2>1. IsFiniteSet(Of(DOMAIN entries, ip)) /\ IsFiniteSet(Of(DOMAIN entries, ip)')
    BY FS_Subset DEF Counted, Of
  <2>2. Cardinality(Of(DOMAIN entries, ip)') <= Cardinality(Of(DOMAIN entries, ip))
    BY <2>1, FS_Subset
  <2>3. Cardinality(Of(DOMAIN entries, ip)') \in Nat /\ Cardinality(Of(DOMAIN entries, ip)) \in Nat
    BY <2>1, FS_CardinalityType
  <2>. QED
    BY <2>2, <2>3 DEF CapsHold
<1>. QED
  BY <1>1, <1>2, <1>3 DEF CapsHold

(* The empty table satisfies the invariant. *)
LEMMA SealStarts == SealInit => SealInv
<1>. SUFFICES ASSUME SealInit PROVE SealInv
  OBVIOUS
<1>1. DOMAIN entries = {} /\ \A ip \in Ips : Of(DOMAIN entries, ip) = {}
  BY DEF SealInit, Of
<1>2. Counted
  BY <1>1, FS_EmptySet DEF SealInit, Counted, Count, KeyIdle
<1>3. MaxTotal >= 0 /\ MaxPerIp >= 0
  BY CapAssumption
<1>4. CapsHold
  BY <1>1, <1>3, FS_EmptySet DEF CapsHold
<1>. QED
  BY <1>2, <1>4, PlaceStarts DEF SealInv

(* Every step of the key store keeps the counts and the caps. *)
LEMMA SealSteps == SealInv /\ [SealNext]_sealVars => SealInv'
<1>. SUFFICES ASSUME SealInv, [SealNext]_sealVars PROVE (Counted /\ CapsHold)'
  BY PlaceSteps DEF SealInv
<1>. USE DEF SealInv
<1>1. ASSUME NEW ks \in SUBSET DOMAIN entries, Erase(ks), DOMAIN keyJob' = KeyWorkers,
             \A w \in KeyWorkers : keyJob'[w].step = "store" => keyJob'[w].ip \in Ips
      PROVE  (Counted /\ CapsHold)'
  <2>1. Counted'
    BY <1>1, ErasedCounts DEF Counted
  <2>2. CapsHold'
    BY <1>1, ErasedCounts, CapsShrink
  <2>. QED
    BY <2>1, <2>2
<1>2. Outdated \in SUBSET DOMAIN entries
  BY DEF Outdated
<1>3. ASSUME NEW w \in KeyWorkers, NEW ip \in Ips, Admit(w, ip) PROVE (Counted /\ CapsHold)'
  <2>1. /\ DOMAIN keyJob' = KeyWorkers
        /\ \A v \in KeyWorkers : keyJob'[v].step = "store" => keyJob'[v].ip \in Ips
    BY <1>3 DEF Admit, Counted
  <2>. QED
    BY <1>1, <1>2, <1>3, <2>1 DEF Admit
<1>4. ASSUME NEW w \in KeyWorkers, NEW ip \in Ips, Refuse(w, ip) PROVE (Counted /\ CapsHold)'
  BY <1>1, <1>2, <1>4 DEF Refuse, Counted
<1>5. CASE SweepExpired
  BY <1>1, <1>2, <1>5 DEF SweepExpired, Counted
<1>6. ASSUME NEW w \in KeyWorkers, NEW k, NEW type, NEW inner, NEW intact, Consume(w, k, type, intact, inner)
      PROVE (Counted /\ CapsHold)'
  <2>1. {k} \in SUBSET DOMAIN entries /\ Erase({k})
    BY <1>6 DEF Consume
  <2>2. /\ DOMAIN keyJob' = KeyWorkers
        /\ \A v \in KeyWorkers : keyJob'[v].step = "store" => keyJob'[v].ip \in Ips
    BY <1>6 DEF Consume, Counted
  <2>. QED
    BY <1>1, <2>1, <2>2
<1>7. ASSUME UNCHANGED <<entries, per_ip>>, DOMAIN keyJob' = KeyWorkers,
             \A w \in KeyWorkers : keyJob'[w].step = "store" => keyJob'[w].ip \in Ips
      PROVE  (Counted /\ CapsHold)'
  BY <1>7 DEF Counted, CapsHold, Count, Of
<1>8. ASSUME NEW w \in KeyWorkers, Store(w) PROVE (Counted /\ CapsHold)'
  <2>. DEFINE k == keyJob[w].key
              at == keyJob[w].ip
  <2>0. /\ keyJob[w].step = "store" /\ at \in Ips
        /\ DOMAIN keyJob' = KeyWorkers
        /\ \A v \in KeyWorkers : keyJob'[v].step = "store" => keyJob'[v].ip \in Ips
    BY <1>8 DEF Store, Counted, KeyIdle
  <2>1. CASE /\ StillRoom(at)
             /\ entries' = [i \in DOMAIN entries \cup {k} |->
                              IF i = k THEN [ip |-> at, expires_at |-> keyClock + KeyTtl]
                              ELSE entries[i]]
             /\ per_ip' = [i \in DOMAIN per_ip \cup {at} |->
                              (IF i \in DOMAIN per_ip THEN per_ip[i] ELSE 0)
                              + (IF i = at THEN 1 ELSE 0)]
    <3>1. k \notin DOMAIN entries
      BY <2>0 DEF OnePlace, JobKeys, Busy
    <3>2. DOMAIN entries' = DOMAIN entries \cup {k}
      BY <2>1
    <3>3. /\ IsFiniteSet(DOMAIN entries')
          /\ Cardinality(DOMAIN entries') = Cardinality(DOMAIN entries) + 1
          /\ Cardinality(DOMAIN entries) \in Nat
      BY <3>1, <3>2, FS_AddElement, FS_CardinalityType DEF Counted
    <3>4. ASSUME NEW ip \in Ips
          PROVE  /\ Count(ip)' = Cardinality(Of(DOMAIN entries, ip)')
                 /\ Cardinality(Of(DOMAIN entries, ip)') <= MaxPerIp
      <4>1. /\ IsFiniteSet(Of(DOMAIN entries, ip))
            /\ Cardinality(Of(DOMAIN entries, ip)) \in Nat
            /\ Count(ip) = Cardinality(Of(DOMAIN entries, ip))
        BY FS_Subset, FS_CardinalityType DEF Counted, Of
      <4>2. CASE ip = at
        <5>1. Of(DOMAIN entries, ip)' = Of(DOMAIN entries, ip) \cup {k}
          BY <2>1, <3>1, <4>2 DEF Of
        <5>2. k \notin Of(DOMAIN entries, ip)
          BY <3>1 DEF Of
        <5>3. Cardinality(Of(DOMAIN entries, ip)') = Cardinality(Of(DOMAIN entries, ip)) + 1
          BY <4>1, <5>1, <5>2, FS_AddElement
        <5>4. Count(ip)' = Count(ip) + 1
          BY <2>1, <4>2 DEF Count
        <5>5. Count(ip) < MaxPerIp
          BY <2>1, <4>2, CapAssumption DEF StillRoom, Room, Count
        <5>. QED
          BY <4>1, <5>3, <5>4, <5>5, CapAssumption
      <4>3. CASE ip # at
        <5>1. Of(DOMAIN entries, ip)' = Of(DOMAIN entries, ip)
          BY <2>1, <3>1, <4>3 DEF Of
        <5>2. Count(ip)' = Count(ip)
          <6>1. ip \in DOMAIN per_ip' <=> ip \in DOMAIN per_ip
            BY <2>1, <4>3
          <6>2. ip \in DOMAIN per_ip => per_ip'[ip] = per_ip[ip] + 0
            BY <2>1, <4>3
          <6>. QED
            BY <4>1, <6>1, <6>2 DEF Count
        <5>. QED
          BY <4>1, <5>1, <5>2 DEF CapsHold
      <4>. QED
        BY <4>2, <4>3
    <3>5. Cardinality(DOMAIN entries') <= MaxTotal
      BY <2>1, <3>3, CapAssumption DEF StillRoom, Room
    <3>. QED
      BY <2>0, <3>3, <3>4, <3>5 DEF Counted, CapsHold
  <2>2. CASE UNCHANGED <<entries, per_ip>>
    BY <1>7, <2>0, <2>2
  <2>. QED
    BY <1>8, <2>1, <2>2 DEF Store
<1>9. ASSUME NEW w \in KeyWorkers, NEW type, NotSealed(w, type) PROVE (Counted /\ CapsHold)'
  BY <1>7, <1>9 DEF NotSealed, Counted
<1>10. ASSUME NEW w \in KeyWorkers, OpenEnvelope(w) PROVE (Counted /\ CapsHold)'
  <2>1. /\ DOMAIN keyJob' = KeyWorkers
        /\ \A v \in KeyWorkers : keyJob'[v].step = "store" => keyJob'[v].ip \in Ips
    BY <1>10 DEF OpenEnvelope, Counted, KeyIdle
  <2>. QED
    BY <1>7, <1>10, <2>1 DEF OpenEnvelope
<1>11. CASE KeySecondPasses \/ UNCHANGED sealVars
  BY <1>7, <1>11 DEF KeySecondPasses, sealVars, Counted
<1>. QED
  BY <1>3, <1>4, <1>5, <1>6, <1>8, <1>9, <1>10, <1>11 DEF SealNext

(* sealed_key_store.cpp:75: the store never holds more keys, nor more of   *)
(* one address, than its caps allow.                                       *)
THEOREM KeyCapsHold == SealSpec => []CapsHold
<1>1. SealInv => CapsHold
  BY DEF SealInv
<1>. QED
  BY SealStarts, SealSteps, <1>1, PTL DEF SealSpec

(* sealed_key_store.cpp:48: an address is refused only for keys that have  *)
(* not expired; what was consumed or has expired weighs nothing.           *)
THEOREM ExpiredKeysWeighNothing == SealSpec => []ExpiredKeysFreeTheCap
<1>1. ASSUME SealInv, NEW ip \in Ips, Cardinality(DOMAIN entries \ Outdated) < MaxTotal,
             Cardinality(Of(DOMAIN entries \ Outdated, ip)) < MaxPerIp
      PROVE  Room(EntriesWithout(Outdated), CountsWithout(Outdated), ip)
  <2>1. Outdated \in SUBSET DOMAIN entries
    BY DEF Outdated
  <2>2. DOMAIN EntriesWithout(Outdated) = DOMAIN entries \ Outdated
    BY DEF EntriesWithout
  <2>3. ip \in DOMAIN CountsWithout(Outdated) => CountsWithout(Outdated)[ip] < MaxPerIp
    BY <1>1, <2>1, LeftCounts DEF SealInv
  <2>. QED
    BY <1>1, <2>2, <2>3 DEF Room
<1>2. SealInv => ExpiredKeysFreeTheCap
  BY <1>1 DEF ExpiredKeysFreeTheCap
<1>. QED
  BY SealStarts, SealSteps, <1>2, PTL DEF SealSpec

(* sealed_key_store.cpp:39-118: caps, counts and single use of the keys    *)
(* hold together, for every set of addresses, keys and caps.               *)
THEOREM KeyStoreStaysExact == SealSpec => []KeyStoreIsExact
BY KeyCapsHold, ExpiredKeysWeighNothing, KeysOpenOneEnvelope, PTL DEF KeyStoreIsExact

-----------------------------------------------------------------------------
(* The provider's keys *)

(* lastPublished is the truth about the provider: a key it publishes now   *)
(* was published last now.                                                 *)
CacheTypes == /\ cacheClock \in Nat /\ expires_ \in Nat
              /\ published \subseteq Kids /\ keys_ \subseteq Kids
              /\ lastPublished \in [Kids -> Nat]
PublishedNow == \A k \in Kids : /\ lastPublished[k] <= cacheClock
                                /\ k \in published => lastPublished[k] = cacheClock

(* A download ends in time and brings keys that were there when it began;  *)
(* the cached ones were there when the last download that worked began.    *)
FetchInTime ==
    fetch # NoFetch =>
      /\ fetch.began \in Nat /\ fetch.began <= cacheClock
      /\ cacheClock <= fetch.began + FetchTime
      /\ fetch.keys \subseteq Kids
      /\ \A k \in fetch.keys : fetch.began <= lastPublished[k]
CachedInTime == \A k \in keys_ : expires_ <= lastPublished[k] + FetchTime + CacheTtl

(* attempted_ is the last download. *)
AttemptsKnown ==
    /\ attempted_ \in Nat \cup {-1} /\ attempted_ <= cacheClock
    /\ attempted_ = -1 => downloads = {}
    /\ downloads \subseteq Nat
    /\ \A d \in downloads : d <= attempted_
CacheInv == /\ CacheTypes /\ PublishedNow /\ FetchInTime /\ CachedInTime /\ AttemptsKnown
            /\ WithdrawnKeysDie /\ DownloadsSpaced

(* A key that passes has been published recently enough. *)
LEMMA AcceptedInTime ==
    ASSUME CacheTypes, NEW k \in Kids, Accept(k), cacheClock <= lastPublished[k] + FetchTime + CacheTtl
    PROVE  WithdrawnKeysDie'
BY CacheAssumption DEF CacheTypes, Accept, WithdrawnKeysDie

(* Every step keeps the cache's bounds. *)
LEMMA CacheSteps == CacheInv /\ [CacheNext]_cacheVars => CacheInv'
<1>. SUFFICES ASSUME CacheInv, [CacheNext]_cacheVars PROVE CacheInv'
  OBVIOUS
<1>. USE CacheAssumption, KidAssumption DEF CacheInv, CacheTypes
<1>1. ASSUME NEW kid \in Kids, Verify(kid) PROVE CacheInv'
  <2>1. UNCHANGED <<cacheClock, published, lastPublished, keys_, expires_, attempted_, fetch, downloads>>
    BY <1>1 DEF Verify
  <2>2. WithdrawnKeysDie'
    <3>1. CASE cacheClock < expires_ /\ kid \in keys_ /\ Accept(kid)
      <4>1. cacheClock <= lastPublished[kid] + FetchTime + CacheTtl
        BY <3>1 DEF CachedInTime
      <4>. QED
        BY <3>1, <4>1, AcceptedInTime
    <3>2. CASE UNCHANGED accepted
      BY <3>2 DEF WithdrawnKeysDie
    <3>. QED
      BY <1>1, <3>1, <3>2 DEF Verify
  <2>. QED
    BY <2>1, <2>2 DEF PublishedNow, FetchInTime, CachedInTime, AttemptsKnown, DownloadsSpaced
<1>2. ASSUME NEW kid \in Kids \cup {"any"}, StartFetch(kid) PROVE CacheInv'
  <2>1. /\ UNCHANGED <<cacheClock, published, lastPublished, keys_, expires_, accepted>>
        /\ fetch' = [kid |-> kid, keys |-> published, began |-> cacheClock]
        /\ attempted_' = cacheClock /\ downloads' = downloads \cup {cacheClock}
        /\ attempted_ = -1 \/ cacheClock - attempted_ >= Cooldown
    BY <1>2 DEF StartFetch, Cool
  <2>2. FetchInTime'
    BY <2>1 DEF PublishedNow, FetchInTime
  <2>3. AttemptsKnown'
    BY <2>1 DEF AttemptsKnown
  <2>4. DownloadsSpaced'
    <3>1. \A d \in downloads : d \in Nat /\ d <= attempted_ /\ cacheClock - d >= Cooldown
      BY <2>1 DEF AttemptsKnown
    <3>. QED
      BY <2>1, <3>1 DEF DownloadsSpaced
  <2>. QED
    BY <2>1, <2>2, <2>3, <2>4 DEF PublishedNow, CachedInTime, WithdrawnKeysDie
<1>3. CASE EndFetch
  <2>1. /\ UNCHANGED <<cacheClock, published, lastPublished, attempted_, downloads>>
        /\ keys_' = fetch.keys /\ expires_' = cacheClock + CacheTtl /\ fetch' = NoFetch
        /\ fetch # NoFetch
    BY <1>3 DEF EndFetch
  <2>2. \A k \in fetch.keys : k \in Kids /\ cacheClock <= lastPublished[k] + FetchTime
    BY <2>1 DEF FetchInTime
  <2>3. WithdrawnKeysDie'
    <3>1. CASE fetch.kid \in fetch.keys /\ Accept(fetch.kid)
      <4>1. cacheClock <= lastPublished[fetch.kid] + FetchTime + CacheTtl
        BY <2>2, <3>1
      <4>. QED
        BY <2>2, <3>1, <4>1, AcceptedInTime
    <3>2. CASE UNCHANGED accepted
      BY <3>2 DEF WithdrawnKeysDie
    <3>. QED
      BY <1>3, <3>1, <3>2 DEF EndFetch
  <2>4. CachedInTime'
    BY <2>1, <2>2 DEF CachedInTime
  <2>5. keys_' \subseteq Kids /\ expires_' \in Nat
    BY <2>1, <2>2
  <2>. QED
    BY <2>1, <2>3, <2>4, <2>5 DEF PublishedNow, FetchInTime, AttemptsKnown, DownloadsSpaced
<1>4. CASE FailFetch
  <2>1. /\ UNCHANGED <<cacheClock, published, lastPublished, keys_, expires_, attempted_, downloads>>
        /\ fetch' = NoFetch
    BY <1>4 DEF FailFetch
  <2>2. WithdrawnKeysDie'
    <3>1. CASE NoFallback(fetch.kid) /\ Accept(fetch.kid)
      <4>1. fetch.kid \in Kids /\ cacheClock <= lastPublished[fetch.kid] + FetchTime + CacheTtl
        BY <3>1 DEF CachedInTime, NoFallback
      <4>. QED
        BY <3>1, <4>1, AcceptedInTime
    <3>2. CASE UNCHANGED accepted
      BY <3>2 DEF WithdrawnKeysDie
    <3>. QED
      BY <1>4, <3>1, <3>2 DEF FailFetch
  <2>. QED
    BY <2>1, <2>2 DEF PublishedNow, FetchInTime, CachedInTime, AttemptsKnown, DownloadsSpaced
<1>5. ASSUME NEW ks \in SUBSET Kids, Publish(ks) PROVE CacheInv'
  <2>1. /\ published' = ks
        /\ UNCHANGED <<cacheClock, keys_, expires_, attempted_, fetch, accepted, downloads>>
        /\ lastPublished' = [k \in Kids |-> IF k \in published \cup ks THEN cacheClock
                                            ELSE lastPublished[k]]
    BY <1>5 DEF Publish
  <2>2. \A k \in Kids : lastPublished[k] <= lastPublished'[k]
    BY <2>1 DEF PublishedNow
  <2>3. \A k \in Kids : lastPublished'[k] \in {lastPublished[k], cacheClock}
    BY <2>1
  <2>4. CacheTypes' /\ PublishedNow'
    BY <2>1 DEF PublishedNow
  <2>5. FetchInTime'
    BY <2>1, <2>3 DEF FetchInTime
  <2>6. CachedInTime'
    <3>. SUFFICES ASSUME NEW k \in keys_
                  PROVE  expires_ <= lastPublished'[k] + FetchTime + CacheTtl
      BY <2>1 DEF CachedInTime
    <3>1. lastPublished[k] <= lastPublished'[k] /\ lastPublished'[k] \in Nat
      BY <2>2, <2>3
    <3>. QED
      BY <3>1 DEF CachedInTime
  <2>. QED
    BY <2>1, <2>4, <2>5, <2>6 DEF AttemptsKnown, WithdrawnKeysDie, DownloadsSpaced
<1>6. CASE CacheSecondPasses
  <2>1. /\ cacheClock' = cacheClock + 1
        /\ UNCHANGED <<published, keys_, expires_, attempted_, fetch, accepted, downloads>>
        /\ lastPublished' = [k \in Kids |-> IF k \in published THEN cacheClock + 1
                                            ELSE lastPublished[k]]
        /\ fetch # NoFetch => cacheClock - fetch.began < FetchTime
    BY <1>6 DEF CacheSecondPasses
  <2>2. \A k \in Kids : lastPublished'[k] \in Nat /\ lastPublished[k] <= lastPublished'[k]
    BY <2>1 DEF PublishedNow
  <2>3. CacheTypes' /\ PublishedNow'
    BY <2>1 DEF PublishedNow
  <2>4. FetchInTime'
    <3>. SUFFICES ASSUME fetch # NoFetch
                  PROVE  /\ fetch.began \in Nat /\ fetch.began <= cacheClock + 1
                         /\ cacheClock + 1 <= fetch.began + FetchTime
                         /\ fetch.keys \subseteq Kids
                         /\ \A k \in fetch.keys : fetch.began <= lastPublished'[k]
      BY <2>1 DEF FetchInTime
    <3>. QED
      BY <2>1, <2>2 DEF FetchInTime
  <2>5. CachedInTime'
    <3>. SUFFICES ASSUME NEW k \in keys_
                  PROVE  expires_ <= lastPublished'[k] + FetchTime + CacheTtl
      BY <2>1 DEF CachedInTime
    <3>. QED
      BY <2>2 DEF CachedInTime
  <2>. QED
    BY <2>1, <2>3, <2>4, <2>5 DEF AttemptsKnown, WithdrawnKeysDie, DownloadsSpaced
<1>7. CASE UNCHANGED cacheVars
  BY <1>7 DEF cacheVars, PublishedNow, FetchInTime, CachedInTime, AttemptsKnown, WithdrawnKeysDie,
     DownloadsSpaced
<1>. QED
  BY <1>1, <1>2, <1>3, <1>4, <1>5, <1>6, <1>7 DEF CacheNext

(* jwks_verifier.cpp: whatever the provider publishes and however often a  *)
(* download fails, a withdrawn key passes for the cache's time and that of *)
(* one download at most, and downloads keep their distance.                *)
THEOREM WithdrawnKeysRefused == CacheSpec => []ProviderKeysAreCurrent
<1>1. CacheInit => CacheInv
  <2>. SUFFICES ASSUME CacheInit PROVE CacheInv
    OBVIOUS
  <2>. USE KidAssumption, CacheAssumption DEF CacheInit
  <2>1. CacheTypes /\ PublishedNow /\ FetchInTime /\ CachedInTime
    BY DEF CacheTypes, PublishedNow, FetchInTime, CachedInTime
  <2>2. AttemptsKnown /\ WithdrawnKeysDie /\ DownloadsSpaced
    BY DEF AttemptsKnown, WithdrawnKeysDie, DownloadsSpaced
  <2>. QED
    BY <2>1, <2>2 DEF CacheInv
<1>2. CacheInv => ProviderKeysAreCurrent
  BY DEF CacheInv, ProviderKeysAreCurrent
<1>. QED
  BY <1>1, <1>2, CacheSteps, PTL DEF CacheSpec
-----------------------------------------------------------------------------
(* Rate limits                                                             *)

(* What a key has in hand now: the balance of its bucket, or a full one.   *)
Bucket == [tokens : 0..Full, last_touched : 0..limitClock]
InHand(k) == IF k \in DOMAIN buckets THEN Refill(buckets[k]).tokens ELSE Full

LimitTypes ==
    /\ limitClock \in 0..MaxLimitTime
    /\ DOMAIN buckets \subseteq BucketKeys /\ buckets \in [DOMAIN buckets -> Bucket]
    /\ allowedBy \in [BucketKeys -> [0..MaxLimitTime -> Nat]]
    /\ \A k \in BucketKeys : \A t \in limitClock..MaxLimitTime : allowedBy[k][t] = allowedBy[k][limitClock]

(* What was allowed since any second and what is in hand now were paid for *)
(* by the burst and the refills since.                                     *)
PaidFor(k, a) ==
    Interval * (allowedBy[k][limitClock] - AllowedBefore(k, a)) + InHand(k) <= Full + Burst * (limitClock - a)
Balanced == \A k \in BucketKeys : \A a \in 0..limitClock : PaidFor(k, a)
LimitInv == LimitTypes /\ Balanced /\ RateRespected

LEMMA FullIs == Burst \in Nat \ {0} /\ Interval \in Nat \ {0} /\ Full \in Nat /\ BucketTtl \in Nat /\ MaxLimitTime \in Nat
BY LimitAssumption DEF Full

(* Refilling never takes a bucket over its burst, and a bucket that is     *)
(* swept would have been full.                                             *)
LEMMA RefillFills ==
    ASSUME NEW b \in Bucket, limitClock \in Nat
    PROVE  /\ Refill(b) \in Bucket /\ Refill(b).last_touched = limitClock
           /\ b.tokens <= Refill(b).tokens
           /\ Stale(b) => Refill(b).tokens = Full
<1> USE FullIs
<1>1. /\ b.tokens \in 0..Full /\ b.last_touched \in 0..limitClock
      /\ limitClock - b.last_touched \in Nat
  BY DEF Bucket
<1>2. PICK gain \in Nat : gain = (limitClock - b.last_touched) * Burst
  BY <1>1
<1>3. Refill(b) = [tokens |-> IF b.tokens + gain <= Full THEN b.tokens + gain ELSE Full, last_touched |-> limitClock]
  BY <1>2 DEF Refill
<1>4. Refill(b) \in Bucket
  BY <1>1, <1>3 DEF Bucket
<1>5. ASSUME Stale(b) PROVE gain >= Full
  <2>1. limitClock - b.last_touched >= Interval
    BY <1>1, <1>5, LimitAssumption DEF Stale
  <2>2. PICK more \in Nat : limitClock - b.last_touched = Interval + more
    BY <1>1, <2>1
  <2>3. gain = Interval * Burst + more * Burst
    BY <1>2, <2>2
  <2>4. more * Burst \in Nat /\ Interval * Burst = Full
    BY <2>2 DEF Full
  <2>. QED
    BY <2>3, <2>4
<1>6. b.tokens <= Refill(b).tokens
  BY <1>1, <1>2, <1>3
<1>7. Stale(b) => Refill(b).tokens = Full
  BY <1>1, <1>2, <1>3, <1>5
<1>. QED
  BY <1>3, <1>4, <1>6, <1>7

LEMMA InHandIs == LimitTypes => \A k \in BucketKeys : InHand(k) \in 0..Full
BY FullIs, RefillFills DEF LimitTypes, InHand, Bucket

LEMMA LimitStarts == LimitInit => LimitInv
<1>. SUFFICES ASSUME LimitInit PROVE LimitInv
  OBVIOUS
<1>. USE FullIs
<1>1. DOMAIN buckets = {} /\ buckets \in [DOMAIN buckets -> Bucket]
  <2>1. PICK e : e = << >>
    OBVIOUS
  <2>2. DOMAIN e = {} /\ e \in [DOMAIN e -> Bucket]
    BY <2>1
  <2>. QED
    BY <2>1, <2>2 DEF LimitInit
<1>2. LimitTypes
  BY <1>1 DEF LimitInit, LimitTypes
<1>3. ASSUME NEW k \in BucketKeys, NEW a \in 0..limitClock PROVE PaidFor(k, a)
  <2>1. a = 0 /\ limitClock = 0 /\ allowedBy[k][limitClock] = 0 /\ AllowedBefore(k, a) = 0 /\ InHand(k) = Full
    BY <1>1 DEF LimitInit, AllowedBefore, InHand
  <2>2. Interval * (0 - 0) = 0 /\ Burst * (0 - 0) = 0
    OBVIOUS
  <2>. QED
    BY <2>1, <2>2 DEF PaidFor
<1>4. ASSUME NEW k \in BucketKeys, NEW b \in 0..limitClock, NEW a \in 0..b
      PROVE Interval * (allowedBy[k][b] - AllowedBefore(k, a)) <= Full + Burst * (b - a)
  <2>1. a = 0 /\ b = 0 /\ allowedBy[k][b] = 0 /\ AllowedBefore(k, a) = 0
    BY DEF LimitInit, AllowedBefore
  <2>2. Interval * (0 - 0) = 0 /\ Burst * (0 - 0) = 0
    OBVIOUS
  <2>. QED
    BY <2>1, <2>2
<1>. QED
  BY <1>2, <1>3, <1>4 DEF LimitInv, Balanced, RateRespected

(* Touching buckets grants nothing by itself: who has no more in hand than *)
(* before, or than what a request left of it, stays within the rate.       *)
LEMMA SameSecond ==
    ASSUME LimitInv, LimitTypes', limitClock' = limitClock,
           \A k \in BucketKeys : \E n \in {0, 1} :
              /\ allowedBy'[k] = [t \in 0..MaxLimitTime |-> IF t >= limitClock THEN allowedBy[k][t] + n ELSE allowedBy[k][t]]
              /\ InHand(k)' \in Nat /\ InHand(k)' + Interval * n <= InHand(k)
    PROVE  LimitInv'
<1>. USE FullIs DEF LimitInv
<1>1. limitClock \in 0..MaxLimitTime /\ limitClock \in Nat
  BY DEF LimitTypes
<1>2. ASSUME NEW k \in BucketKeys, NEW a \in 0..limitClock PROVE PaidFor(k, a)'
  <2>1. PICK n \in {0, 1} :
              /\ allowedBy'[k] = [t \in 0..MaxLimitTime |-> IF t >= limitClock THEN allowedBy[k][t] + n ELSE allowedBy[k][t]]
              /\ InHand(k)' \in Nat /\ InHand(k)' + Interval * n <= InHand(k)
    OBVIOUS
  <2>2. allowedBy'[k][limitClock] = allowedBy[k][limitClock] + n
    BY <1>1, <2>1
  <2>3. AllowedBefore(k, a)' = AllowedBefore(k, a)
    BY <1>1, <2>1 DEF AllowedBefore
  <2>4. PICK x, y, h, g : /\ x = allowedBy[k][limitClock] /\ y = AllowedBefore(k, a)
                          /\ h = InHand(k) /\ g = InHand(k)'
    OBVIOUS
  <2>5. x \in Nat /\ y \in Nat /\ h \in Nat /\ g \in Nat
    <3>1. x \in Nat /\ y \in Nat
      BY <1>1, <2>4 DEF LimitTypes, AllowedBefore
    <3>2. h \in Nat
      BY <2>4, InHandIs
    <3>. QED
      BY <2>1, <2>4, <3>1, <3>2
  <2>6. Interval * (x - y) + h <= Full + Burst * (limitClock - a)
    BY <2>4 DEF Balanced, PaidFor
  <2>7. Interval * (x + n - y) = Interval * (x - y) + Interval * n
    BY <2>5
  <2>8. g + Interval * n <= h
    BY <2>1, <2>4
  <2>9. PICK p, q, r \in Int : p = Interval * (x - y) /\ q = Interval * n /\ r = Burst * (limitClock - a)
    BY <1>1, <2>5
  <2>10. Interval * (x + n - y) + g <= Full + r
    BY <2>5, <2>6, <2>7, <2>8, <2>9
  <2>11. PaidFor(k, a)' <=> Interval * (x + n - y) + g <= Full + Burst * (limitClock - a)
    <3>1. PaidFor(k, a)' <=> Interval * (allowedBy'[k][limitClock'] - AllowedBefore(k, a)') + InHand(k)'
                                <= Full + Burst * (limitClock' - a)
      BY Zenon DEF PaidFor
    <3>2. limitClock' = limitClock /\ allowedBy'[k][limitClock] = x + n /\ AllowedBefore(k, a)' = y /\ InHand(k)' = g
      BY <2>2, <2>3, <2>4
    <3>. QED
      BY <1>1, <2>5, <3>1, <3>2
  <2>. QED
    BY <2>9, <2>10, <2>11
<1>3. Balanced'
  BY <1>2 DEF Balanced
<1>4. ASSUME NEW k \in BucketKeys, NEW b \in 0..limitClock, NEW a \in 0..b
      PROVE (Interval * (allowedBy[k][b] - AllowedBefore(k, a)))' <= Full + Burst * (b - a)
  <2>1. a \in 0..limitClock /\ a <= limitClock
    BY <1>1
  <2>2. CASE b = limitClock
    <3>1. PaidFor(k, a)'
      BY <1>2, <2>1
    <3>2. InHand(k)' \in Nat
      OBVIOUS
    <3>3. allowedBy'[k][limitClock] \in Nat /\ AllowedBefore(k, a)' \in Nat
      <4>1. allowedBy' \in [BucketKeys -> [0..MaxLimitTime -> Nat]]
        BY DEF LimitTypes
      <4>2. limitClock \in 0..MaxLimitTime /\ (a # 0 => a - 1 \in 0..MaxLimitTime)
        BY <1>1, <2>1
      <4>. QED
        BY <4>1, <4>2 DEF AllowedBefore
    <3>4. Interval * (allowedBy'[k][limitClock] - AllowedBefore(k, a)') \in Int /\ Burst * (limitClock - a) \in Int
      BY <1>1, <3>3
    <3>. QED
      BY <2>2, <3>1, <3>2, <3>4 DEF PaidFor
  <2>3. CASE b < limitClock
    <3>1. PICK n \in {0, 1} :
              allowedBy'[k] = [t \in 0..MaxLimitTime |-> IF t >= limitClock THEN allowedBy[k][t] + n ELSE allowedBy[k][t]]
      OBVIOUS
    <3>2. allowedBy'[k][b] = allowedBy[k][b]
      BY <1>1, <2>3, <3>1
    <3>3. AllowedBefore(k, a)' = AllowedBefore(k, a)
      BY <1>1, <2>1, <3>1 DEF AllowedBefore
    <3>4. Interval * (allowedBy[k][b] - AllowedBefore(k, a)) <= Full + Burst * (b - a)
      BY DEF RateRespected
    <3>. QED
      BY <3>2, <3>3, <3>4
  <2>. QED
    BY <1>1, <2>2, <2>3
<1>5. RateRespected'
  BY <1>4 DEF RateRespected
<1>. QED
  BY <1>3, <1>5

(* Every step of the limiter keeps the rate.                               *)
LEMMA LimitSteps == LimitInv /\ [LimitNext]_limitVars => LimitInv'
<1>. SUFFICES ASSUME LimitInv, [LimitNext]_limitVars PROVE LimitInv'
  OBVIOUS
<1>. USE FullIs
<1>0. LimitTypes /\ limitClock \in Nat
  BY DEF LimitInv, LimitTypes
<1>1. ASSUME NEW k \in BucketKeys, TryTake(k) PROVE LimitInv'
  <2>1. PICK found : found = IF k \in Swept THEN Refill(buckets[k]) ELSE [tokens |-> Full, last_touched |-> limitClock]
    OBVIOUS
  <2>2. PICK allowed \in BOOLEAN : allowed <=> found.tokens >= Interval
    OBVIOUS
  <2>3. PICK left : left = [found EXCEPT !.tokens = IF allowed THEN @ - Interval ELSE @]
    OBVIOUS
  <2>4. /\ buckets' = [i \in Swept \cup {k} |-> IF i # k THEN buckets[i] ELSE left]
        /\ allowedBy' = [allowedBy EXCEPT ![k] =
             [t \in 0..MaxLimitTime |-> IF allowed /\ t >= limitClock THEN @[t] + 1 ELSE @[t]]]
        /\ limitClock' = limitClock
    BY <1>1, <2>1, <2>2, <2>3 DEF TryTake
  <2>5. found \in Bucket /\ found.last_touched = limitClock /\ found.tokens = InHand(k)
    <3>1. CASE k \in Swept
      BY <1>0, <2>1, <3>1, RefillFills DEF Swept, LimitTypes, InHand
    <3>2. CASE k \notin Swept
      <4>1. k \in DOMAIN buckets => Refill(buckets[k]).tokens = Full
        BY <1>0, <3>2, RefillFills DEF Swept, LimitTypes
      <4>. QED
        BY <1>0, <2>1, <3>2, <4>1 DEF InHand, Bucket
    <3>. QED
      BY <3>1, <3>2
  <2>6. /\ left \in Bucket /\ left.last_touched = limitClock
        /\ left.tokens = IF allowed THEN found.tokens - Interval ELSE found.tokens
    BY <2>2, <2>3, <2>5 DEF Bucket
  <2>7. Swept \subseteq DOMAIN buckets /\ DOMAIN buckets \subseteq BucketKeys
    BY <1>0 DEF Swept, LimitTypes
  <2>8. DOMAIN buckets' = Swept \cup {k} /\ buckets' \in [DOMAIN buckets' -> Bucket]
    <3>1. \A i \in Swept : buckets[i] \in Bucket
      BY <1>0, <2>7 DEF LimitTypes
    <3>. QED
      BY <2>4, <2>6, <3>1
  <2>9. LimitTypes'
    <3>1. DOMAIN buckets' \subseteq BucketKeys /\ buckets' \in [DOMAIN buckets' -> Bucket']
      BY <2>4, <2>7, <2>8 DEF Bucket
    <3>2. \A i \in BucketKeys : allowedBy'[i] =
             IF i = k /\ allowed THEN [t \in 0..MaxLimitTime |-> IF t >= limitClock THEN allowedBy[i][t] + 1 ELSE allowedBy[i][t]]
             ELSE allowedBy[i]
      BY <1>0, <2>4 DEF LimitTypes
    <3>3. allowedBy' \in [BucketKeys -> [0..MaxLimitTime -> Nat]]
      BY <1>0, <2>4 DEF LimitTypes
    <3>4. \A i \in BucketKeys : \A t \in limitClock..MaxLimitTime : allowedBy'[i][t] = allowedBy'[i][limitClock]
      <4>1. ASSUME NEW i \in BucketKeys, NEW t \in limitClock..MaxLimitTime
            PROVE  allowedBy'[i][t] = allowedBy'[i][limitClock]
        <5>1. allowedBy[i][t] = allowedBy[i][limitClock]
          BY <1>0 DEF LimitTypes
        <5>2. t \in 0..MaxLimitTime /\ t >= limitClock /\ limitClock \in 0..MaxLimitTime
          BY <1>0 DEF LimitTypes
        <5>3. CASE i = k /\ allowed
          <6>1. allowedBy'[i] = [u \in 0..MaxLimitTime |-> IF u >= limitClock THEN allowedBy[i][u] + 1 ELSE allowedBy[i][u]]
            BY <3>2, <5>3
          <6>2. allowedBy'[i][t] = allowedBy[i][t] + 1 /\ allowedBy'[i][limitClock] = allowedBy[i][limitClock] + 1
            BY <1>0, <5>2, <6>1
          <6>. QED
            BY <5>1, <6>2
        <5>4. CASE ~(i = k /\ allowed)
          BY <3>2, <5>1, <5>4
        <5>. QED
          BY <5>3, <5>4
      <4>. QED
        BY <4>1
    <3>5. limitClock' \in 0..MaxLimitTime
      BY <1>0, <2>4 DEF LimitTypes
    <3>6. \A i \in BucketKeys : \A t \in limitClock'..MaxLimitTime : allowedBy'[i][t] = allowedBy'[i][limitClock']
      BY <2>4, <3>4
    <3>. QED
      BY <3>1, <3>3, <3>5, <3>6 DEF LimitTypes
  <2>10. ASSUME NEW i \in BucketKeys
         PROVE  \E n \in {0, 1} :
              /\ allowedBy'[i] = [t \in 0..MaxLimitTime |-> IF t >= limitClock THEN allowedBy[i][t] + n ELSE allowedBy[i][t]]
              /\ InHand(i)' \in Nat /\ InHand(i)' + Interval * n <= InHand(i)
    <3>1. allowedBy[i] = [t \in 0..MaxLimitTime |-> allowedBy[i][t]]
             /\ \A t \in 0..MaxLimitTime : allowedBy[i][t] \in Nat
      BY <1>0 DEF LimitTypes
    <3>2. CASE i # k
      <4>1. allowedBy'[i] = [t \in 0..MaxLimitTime |-> IF t >= limitClock THEN allowedBy[i][t] + 0 ELSE allowedBy[i][t]]
        BY <2>4, <3>1, <3>2, <1>0 DEF LimitTypes
      <4>2. InHand(i)' = InHand(i)
        <5>1. CASE i \in Swept
          BY <1>0, <2>4, <2>7, <2>8, <3>2, <5>1 DEF InHand, Refill
        <5>2. CASE i \notin Swept
          <6>1. i \in DOMAIN buckets => Refill(buckets[i]).tokens = Full
            BY <1>0, <5>2, RefillFills DEF Swept, LimitTypes
          <6>. QED
            BY <2>8, <3>2, <5>2, <6>1 DEF InHand
        <5>. QED
          BY <5>1, <5>2
      <4>. QED
        BY <1>0, <4>1, <4>2, InHandIs
    <3>3. CASE i = k
      <4>1. InHand(k)' = left.tokens
        <5>1. InHand(k)' = Refill(left)'.tokens
          BY <2>4, <2>8 DEF InHand, Refill
        <5>2. left.tokens \in 0..Full /\ (limitClock - limitClock) * Burst = 0
          BY <1>0, <2>6 DEF Bucket
        <5>. QED
          BY <2>4, <2>6, <5>1, <5>2 DEF Refill
      <4>2. CASE allowed
        <5>1. allowedBy'[i] = [t \in 0..MaxLimitTime |-> IF t >= limitClock THEN allowedBy[i][t] + 1 ELSE allowedBy[i][t]]
          BY <1>0, <2>4, <3>3, <4>2 DEF LimitTypes
        <5>2. InHand(i)' \in Nat /\ InHand(i)' + Interval * 1 <= InHand(i)
          BY <2>2, <2>5, <2>6, <3>3, <4>1, <4>2 DEF Bucket
        <5>. QED
          BY <5>1, <5>2
      <4>3. CASE ~allowed
        <5>1. allowedBy'[i] = [t \in 0..MaxLimitTime |-> IF t >= limitClock THEN allowedBy[i][t] + 0 ELSE allowedBy[i][t]]
          BY <1>0, <2>4, <3>1, <3>3, <4>3 DEF LimitTypes
        <5>2. InHand(i)' \in Nat /\ InHand(i)' + Interval * 0 <= InHand(i)
          BY <2>5, <2>6, <3>3, <4>1, <4>3 DEF Bucket
        <5>. QED
          BY <5>1, <5>2
      <4>. QED
        BY <4>2, <4>3
    <3>. QED
      BY <3>2, <3>3
  <2>. QED
    BY <2>4, <2>9, <2>10, SameSecond
<1>2. ASSUME UNCHANGED <<limitClock, allowedBy>>, DOMAIN buckets' \subseteq DOMAIN buckets,
             buckets' \in [DOMAIN buckets' -> Bucket],
             \A i \in BucketKeys : InHand(i)' = InHand(i)
      PROVE  LimitInv'
  <2>1. LimitTypes'
    BY <1>0, <1>2 DEF LimitTypes, Bucket
  <2>2. ASSUME NEW i \in BucketKeys
        PROVE  \E n \in {0, 1} :
              /\ allowedBy'[i] = [t \in 0..MaxLimitTime |-> IF t >= limitClock THEN allowedBy[i][t] + n ELSE allowedBy[i][t]]
              /\ InHand(i)' \in Nat /\ InHand(i)' + Interval * n <= InHand(i)
    <3>1. allowedBy'[i] = [t \in 0..MaxLimitTime |-> IF t >= limitClock THEN allowedBy[i][t] + 0 ELSE allowedBy[i][t]]
      <4>1. allowedBy[i] = [t \in 0..MaxLimitTime |-> allowedBy[i][t]]
               /\ \A t \in 0..MaxLimitTime : allowedBy[i][t] \in Nat
        BY <1>0 DEF LimitTypes
      <4>. QED
        BY <1>2, <4>1
    <3>2. InHand(i)' \in Nat /\ InHand(i)' + Interval * 0 <= InHand(i)
      BY <1>0, <1>2, InHandIs
    <3>. QED
      BY <3>1, <3>2
  <2>. QED
    BY <1>2, <2>1, <2>2, SameSecond
<1>3. ASSUME NEW k \in DOMAIN buckets, CurrentTokens(k) PROVE LimitInv'
  <2>1. /\ buckets' = [buckets EXCEPT ![k] = Refill(buckets[k])] /\ UNCHANGED <<limitClock, allowedBy>>
    BY <1>3 DEF CurrentTokens
  <2>2. buckets \in [DOMAIN buckets -> Bucket]
    BY <1>0 DEF LimitTypes
  <2>3. Refill(buckets[k]) \in Bucket /\ Refill(buckets[k]).last_touched = limitClock
    BY <1>0, <2>2, RefillFills
  <2>4. PICK again : again = Refill(buckets[k])
    OBVIOUS
  <2>5. DOMAIN buckets' = DOMAIN buckets /\ buckets' \in [DOMAIN buckets' -> Bucket]
    BY <2>1, <2>2, <2>3
  <2>6. ASSUME NEW i \in BucketKeys PROVE InHand(i)' = InHand(i)
    <3>1. CASE i = k
      <4>1. InHand(i)' = Refill(again)'.tokens /\ InHand(i) = again.tokens
        BY <2>1, <2>2, <2>4, <2>5, <3>1 DEF InHand, Refill
      <4>2. again.tokens \in 0..Full /\ (limitClock - limitClock) * Burst = 0
        BY <1>0, <2>3, <2>4 DEF Bucket
      <4>. QED
        BY <2>1, <2>3, <2>4, <4>1, <4>2 DEF Refill
    <3>2. CASE i # k
      BY <2>1, <2>5, <3>2 DEF InHand, Refill
    <3>. QED
      BY <3>1, <3>2
  <2>. QED
    BY <1>2, <2>1, <2>5, <2>6
<1>4. CASE SweepBuckets
  <2>1. /\ Swept \subseteq DOMAIN buckets /\ UNCHANGED <<limitClock, allowedBy>>
        /\ buckets' = [i \in Swept |-> buckets[i]]
    BY <1>4 DEF SweepBuckets, Swept, Restrict
  <2>2. DOMAIN buckets' \subseteq DOMAIN buckets /\ buckets' \in [DOMAIN buckets' -> Bucket]
    BY <1>0, <2>1 DEF LimitTypes
  <2>3. ASSUME NEW i \in BucketKeys PROVE InHand(i)' = InHand(i)
    <3>1. CASE i \in Swept
      BY <2>1, <3>1 DEF InHand, Refill
    <3>2. CASE i \notin Swept
      <4>1. i \in DOMAIN buckets => Refill(buckets[i]).tokens = Full
        BY <1>0, <3>2, RefillFills DEF Swept, LimitTypes
      <4>. QED
        BY <2>1, <3>2, <4>1 DEF InHand
    <3>. QED
      BY <3>1, <3>2
  <2>. QED
    BY <1>2, <2>1, <2>2, <2>3
<1>5. CASE LimitSecondPasses
  <2>1. /\ limitClock' = limitClock + 1 /\ limitClock < MaxLimitTime
        /\ UNCHANGED <<buckets, allowedBy>>
    BY <1>5 DEF LimitSecondPasses
  <2>2. LimitTypes'
    <3>1. limitClock' \in 0..MaxLimitTime /\ limitClock'..MaxLimitTime \subseteq limitClock..MaxLimitTime
      BY <1>0, <2>1
    <3>2. Bucket \subseteq Bucket'
      BY <1>0, <2>1 DEF Bucket
    <3>3. \A k \in BucketKeys : \A t \in limitClock'..MaxLimitTime : allowedBy'[k][t] = allowedBy'[k][limitClock']
      BY <1>0, <2>1, <3>1 DEF LimitTypes
    <3>. QED
      BY <1>0, <2>1, <3>1, <3>2, <3>3 DEF LimitTypes
  <2>3. ASSUME NEW k \in BucketKeys
        PROVE  InHand(k)' \in 0..Full /\ InHand(k)' <= InHand(k) + Burst
    <3>1. CASE k \in DOMAIN buckets
      <4>1. PICK b \in Bucket : b = buckets[k]
        BY <1>0, <3>1 DEF LimitTypes
      <4>2. b.tokens \in Nat /\ limitClock - b.last_touched \in Nat
        BY <1>0, <4>1 DEF Bucket
      <4>3. PICK gain \in Nat : gain = (limitClock - b.last_touched) * Burst
        BY <4>2
      <4>4. b.last_touched \in Nat /\ (limitClock + 1 - b.last_touched) * Burst = gain + Burst
        <5>1. b.last_touched \in Nat
          BY <4>1 DEF Bucket
        <5>2. PICK d \in Nat : d = limitClock - b.last_touched
          BY <4>2
        <5>3. limitClock + 1 - b.last_touched = d + 1 /\ (d + 1) * Burst = d * Burst + Burst
          BY <1>0, <5>1, <5>2
        <5>. QED
          BY <4>3, <5>1, <5>2, <5>3
      <4>5. InHand(k) = IF b.tokens + gain <= Full THEN b.tokens + gain ELSE Full
        BY <3>1, <4>1, <4>3 DEF InHand, Refill
      <4>6. InHand(k)' = IF b.tokens + (gain + Burst) <= Full THEN b.tokens + (gain + Burst) ELSE Full
        <5>1. PICK more : more = (limitClock' - b.last_touched) * Burst
          OBVIOUS
        <5>2. InHand(k)' = IF b.tokens + more <= Full THEN b.tokens + more ELSE Full
          BY <2>1, <3>1, <4>1, <5>1 DEF InHand, Refill
        <5>3. more = gain + Burst
          BY <1>0, <2>1, <4>4, <5>1
        <5>. QED
          BY <5>2, <5>3
      <4>. QED
        BY <4>2, <4>5, <4>6
    <3>2. CASE k \notin DOMAIN buckets
      BY <2>1, <3>2 DEF InHand
    <3>. QED
      BY <3>1, <3>2
  <2>4. ASSUME NEW k \in BucketKeys, NEW a \in 0..limitClock' PROVE PaidFor(k, a)'
    <3>1. allowedBy'[k][limitClock'] = allowedBy[k][limitClock] /\ AllowedBefore(k, a)' = AllowedBefore(k, a)
      <4>1. limitClock + 1 \in limitClock..MaxLimitTime
        BY <1>0, <2>1, FullIs
      <4>. QED
        BY <1>0, <2>1, <4>1 DEF LimitTypes, AllowedBefore
    <3>2. PICK x, y, h, g : /\ x = allowedBy[k][limitClock] /\ y = AllowedBefore(k, a)
                            /\ h = InHand(k) /\ g = InHand(k)'
      OBVIOUS
    <3>3. x \in Nat /\ y \in Nat /\ h \in Nat /\ g \in 0..Full /\ g <= h + Burst
      <4>1. h \in Nat /\ g \in 0..Full /\ g <= h + Burst
        BY <1>0, <2>3, <3>2, InHandIs
      <4>2. a # 0 => a - 1 \in 0..MaxLimitTime
        BY <1>0, <2>1
      <4>3. allowedBy \in [BucketKeys -> [0..MaxLimitTime -> Nat]] /\ limitClock \in 0..MaxLimitTime
        BY <1>0 DEF LimitTypes
      <4>. QED
        BY <3>2, <4>1, <4>2, <4>3 DEF AllowedBefore
    <3>4. PaidFor(k, a)' <=> Interval * (x - y) + g <= Full + Burst * (limitClock + 1 - a)
      <4>1. PaidFor(k, a)' <=> Interval * (allowedBy'[k][limitClock'] - AllowedBefore(k, a)') + InHand(k)'
                                <= Full + Burst * (limitClock' - a)
        BY Zenon DEF PaidFor
      <4>. QED
        BY <1>0, <2>1, <3>1, <3>2, <3>3, <4>1
    <3>5. CASE a = limitClock + 1
      <4>1. x = y
        BY <1>0, <2>1, <3>2, <3>5 DEF AllowedBefore
      <4>2. Interval * (x - y) = 0 /\ Burst * (limitClock + 1 - a) = 0
        BY <1>0, <3>3, <3>5, <4>1
      <4>. QED
        BY <3>3, <3>4, <4>2
    <3>6. CASE a # limitClock + 1
      <4>1. a \in 0..limitClock
        BY <1>0, <2>1, <3>6
      <4>2. Interval * (x - y) + h <= Full + Burst * (limitClock - a)
        BY <3>2, <4>1 DEF LimitInv, Balanced, PaidFor
      <4>3. PICK d \in Nat : d = limitClock - a
        BY <1>0, <4>1
      <4>4. limitClock + 1 - a = d + 1 /\ Burst * (d + 1) = Burst * d + Burst
        BY <1>0, <4>1, <4>3
      <4>5. PICK p, q \in Int : p = Interval * (x - y) /\ q = Burst * d
        BY <3>3
      <4>. QED
        BY <3>3, <3>4, <4>2, <4>3, <4>4, <4>5
    <3>. QED
      BY <3>5, <3>6
  <2>5. Balanced'
    BY <2>4 DEF Balanced
  <2>6. ASSUME NEW k \in BucketKeys, NEW b \in 0..limitClock', NEW a \in 0..b
        PROVE  Interval * (allowedBy'[k][b] - AllowedBefore(k, a)') <= Full + Burst * (b - a)
    <3>1. CASE b \in 0..limitClock
      <4>1. Interval * (allowedBy[k][b] - AllowedBefore(k, a)) <= Full + Burst * (b - a)
        BY <3>1 DEF LimitInv, RateRespected
      <4>2. allowedBy'[k][b] = allowedBy[k][b] /\ AllowedBefore(k, a)' = AllowedBefore(k, a)
        BY <2>1 DEF AllowedBefore
      <4>. QED
        BY <4>1, <4>2
    <3>2. CASE b = limitClock'
      <4>1. PaidFor(k, a)' /\ InHand(k)' \in Nat
        BY <2>3, <2>4, <3>2
      <4>2. PaidFor(k, a)' <=> Interval * (allowedBy'[k][limitClock'] - AllowedBefore(k, a)') + InHand(k)'
                                <= Full + Burst * (limitClock' - a)
        BY Zenon DEF PaidFor
      <4>3. allowedBy'[k][b] \in Nat /\ AllowedBefore(k, a)' \in Nat
        <5>1. allowedBy' \in [BucketKeys -> [0..MaxLimitTime -> Nat]]
          BY <2>2 DEF LimitTypes
        <5>2. b \in 0..MaxLimitTime /\ (a # 0 => a - 1 \in 0..MaxLimitTime)
          BY <1>0, <2>1
        <5>. QED
          BY <5>1, <5>2 DEF AllowedBefore
      <4>4. PICK p, q \in Int : p = Interval * (allowedBy'[k][b] - AllowedBefore(k, a)') /\ q = Burst * (b - a)
        BY <4>3
      <4>. QED
        BY <3>2, <4>1, <4>2, <4>4
    <3>. QED
      BY <1>0, <2>1, <3>1, <3>2
  <2>7. RateRespected'
    BY <2>6 DEF RateRespected
  <2>. QED
    BY <2>2, <2>5, <2>7 DEF LimitInv
<1>6. CASE UNCHANGED limitVars
  <2>1. buckets' \in [DOMAIN buckets' -> Bucket] /\ DOMAIN buckets' \subseteq DOMAIN buckets
    BY <1>0, <1>6 DEF limitVars, LimitTypes
  <2>2. \A i \in BucketKeys : InHand(i)' = InHand(i)
    BY <1>6 DEF limitVars, InHand, Refill
  <2>. QED
    BY <1>2, <1>6, <2>1, <2>2 DEF limitVars
<1>7. ASSUME NEW k \in BucketKeys, CurrentTokens(k) PROVE LimitInv'
  BY <1>3, <1>7 DEF CurrentTokens
<1>. QED
  BY <1>1, <1>4, <1>5, <1>6, <1>7 DEF LimitNext

(* In every stretch of time a key is allowed its burst and what the time   *)
(* refills, no more, for every limit, every sweep and any number of keys   *)
(* (RateLimiter, src/auth/rate_limiter.cpp).                               *)
THEOREM RateIsRespected == LimitSpec => []RateRespected
<1>1. LimitInv => RateRespected
  BY DEF LimitInv
<1>. QED
  BY <1>1, LimitStarts, LimitSteps, PTL DEF LimitSpec

-----------------------------------------------------------------------------
(* Accounts                                                                *)

(* The table's rows obey the schema and have one owner each.               *)
Sound(t) == /\ t \in Seq(AccountRow)
            /\ \A i \in DOMAIN t : LoginMethod(t[i]) /\ \E who \in Persons : HeldBy(t[i], who)

(* No owner loses an account, and a Google identity stays or is unlinked.  *)
Grown(t, u) == /\ DOMAIN t \subseteq DOMAIN u
               /\ \A i \in DOMAIN t : \A who \in Persons : HeldBy(t[i], who) => HeldBy(u[i], who)
GoogleKept(t, u) == \A i \in DOMAIN t : t[i].google # Nobody => u[i].google \in {t[i].google, Nobody}

(* What a request carries, and a mailed link, was true when it was read of *)
(* the account it names, and its owner is still the same.                  *)
Purposes == {"register", "reset", "recovery_email"}
MayBind(t, r) == /\ r.purpose = "recovery_email" => r.acct \in DOMAIN t /\ HeldBy(t[r.acct], Owner[r.mail])
                 /\ r.purpose = "register" => r.name \in Names
Asks(t, j) ==
    /\ j.op = "issue" => /\ j \in [op : {"issue"}, purpose : Purposes, mail : Identities,
                                   acct : DOMAIN t \cup {Nobody}, epoch : Nat, name : Names \cup {""}]
                         /\ MayBind(t, j)
    /\ j.op = "send" => j \in [op : {"send"}, id : Nat, body : BOOLEAN]
    /\ j.op = "google" => j.g \in Identities
    /\ j.op = "insert" => j.g \in Identities /\ j.name \in Names
    /\ j.op = "adopt" => j.g \in Identities /\ j.acct \in DOMAIN t
    /\ j.op \in {"other", "link"} => /\ j \in [op : {"other", "link"}, g : Identities, acct : DOMAIN t]
                                     /\ HeldBy(t[j.acct], Owner[j.g])
    /\ j.op = "unlink" => j.acct \in DOMAIN t
    /\ j.op = "upgrade" => j.acct \in DOMAIN t /\ j.who \in Persons /\ HeldBy(t[j.acct], j.who)
Linked(t, l) == /\ l \in [id : Nat, purpose : Purposes, mail : Identities, acct : DOMAIN t \cup {Nobody},
                          epoch : Nat, name : Names \cup {""}, created : Nat, expires : Nat]
                /\ MayBind(t, l)
AcctInv == /\ Sound(accts) /\ mailClock \in Nat /\ lastLink \in Nat
           /\ DOMAIN asked = MailWorkers /\ \A w \in MailWorkers : Asks(accts, asked[w])
           /\ \A l \in links : Linked(accts, l)
           /\ PendingRegistrationsDistinct /\ RowsHaveMail

LEMMA OwnersAre == \A m \in Identities : Owner[m] \in Persons /\ m \in Nat \ {0} /\ Owner[m] \in Nat \ {0}
BY AccountAssumption DEF Persons, Identities

(* An account that can be signed in to has one owner.                      *)
LEMMA OneHolds ==
    ASSUME NEW a \in AccountRow, LoginMethod(a), NEW x \in Persons, NEW y \in Persons, HeldBy(a, x), HeldBy(a, y)
    PROVE  x = y
BY AccountAssumption DEF LoginMethod, HeldBy, AccountRow, Nobody

LEMMA ChangedRow ==
    ASSUME NEW t, Sound(t), NEW i \in DOMAIN t, NEW b \in AccountRow, LoginMethod(b),
           \A who \in Persons : HeldBy(t[i], who) => HeldBy(b, who),
           t[i].google # Nobody => b.google \in {t[i].google, Nobody},
           NEW u, u = [t EXCEPT ![i] = b]
    PROVE  Sound(u) /\ Grown(t, u) /\ GoogleKept(t, u)
<1>1. t \in Seq(AccountRow) /\ u \in Seq(AccountRow) /\ DOMAIN u = DOMAIN t
  BY DEF Sound
<1>2. \A k \in DOMAIN t : u[k] = IF k = i THEN b ELSE t[k]
  BY <1>1
<1>. QED
  BY <1>1, <1>2 DEF Sound, Grown, GoogleKept

LEMMA AddedRow ==
    ASSUME NEW t, Sound(t), NEW b \in AccountRow, LoginMethod(b), NEW who \in Persons, HeldBy(b, who),
           NEW u, u = Append(t, b)
    PROVE  Sound(u) /\ Grown(t, u) /\ GoogleKept(t, u)
<1>1. t \in Seq(AccountRow) /\ u \in Seq(AccountRow) /\ Len(t) \in Nat
  BY DEF Sound
<1>2. DOMAIN t = 1..Len(t) /\ DOMAIN u = 1..(Len(t) + 1)
  BY <1>1
<1>3. \A k \in DOMAIN u : u[k] = IF k = Len(t) + 1 THEN b ELSE t[k]
  BY <1>1, <1>2
<1>4. \A k \in DOMAIN t : k \in DOMAIN u /\ u[k] = t[k]
  BY <1>1, <1>2, <1>3
<1>5. \A k \in DOMAIN u : k \in DOMAIN t \/ u[k] = b
  BY <1>1, <1>2, <1>3
<1>6. Grown(t, u) /\ GoogleKept(t, u)
  BY <1>4 DEF Grown, GoogleKept
<1>7. Sound(u)
  BY <1>1, <1>4, <1>5 DEF Sound
<1>. QED
  BY <1>6, <1>7

LEMMA SameRows == ASSUME NEW t, Sound(t) PROVE Grown(t, t) /\ GoogleKept(t, t)
BY DEF Grown, GoogleKept

(* What a request or a link relies on survives every change of the table.  *)
LEMMA ReliesOnOwner ==
    ASSUME NEW t, NEW u, Grown(t, u), NEW r, MayBind(t, r), r.mail \in Identities
    PROVE  MayBind(u, r)
BY OwnersAre DEF Grown, MayBind

LEMMA AsksStill == ASSUME NEW t, NEW u, Grown(t, u), NEW j, Asks(t, j) PROVE Asks(u, j)
<1>1. j.op = "issue" => MayBind(u, j)
  BY ReliesOnOwner DEF Asks
<1>2. j.op \in {"other", "link"} => HeldBy(u[j.acct], Owner[j.g])
  BY OwnersAre DEF Asks, Grown
<1>. QED
  BY <1>1, <1>2 DEF Asks, Grown

LEMMA LinkedStill == ASSUME NEW t, NEW u, Grown(t, u), NEW l, Linked(t, l) PROVE Linked(u, l)
<1>1. MayBind(u, l)
  BY ReliesOnOwner DEF Linked
<1>. QED
  BY <1>1 DEF Linked, Grown

LEMMA AcctStarts == AcctInit => AcctInv
<1>. SUFFICES ASSUME AcctInit PROVE AcctInv
  OBVIOUS
<1>1. Sound(accts)
  BY LegacyAssumption DEF AcctInit, Sound, Constraints
<1>2. \A w \in MailWorkers : Asks(accts, asked[w])
  BY DEF AcctInit, Asks, NoJob
<1>. QED
  BY <1>1, <1>2 DEF AcctInit, AcctInv, PendingRegistrationsDistinct, RowsHaveMail

(* The statements that write the table.                                    *)
LEMMA ConfirmOwns ==
    ASSUME AcctInv, NEW l \in links, ConfirmEmail(l)
    PROVE  Sound(accts') /\ Grown(accts, accts') /\ GoogleKept(accts, accts')
<1>. USE OwnersAre DEF AcctInv
<1>1. Linked(accts, l) /\ Sound(accts)
  OBVIOUS
<1>2. CASE l.purpose = "register"
  <2>1. PICK b : b = Account(l.name, l.mail, Owner[l.mail], Nobody)
    OBVIOUS
  <2>2. accts' = Append(accts, b)
    BY <1>2, <2>1 DEF ConfirmEmail, Add
  <2>3. l.mail \in Identities /\ l.name \in Names
    BY <1>1, <1>2 DEF Linked, MayBind
  <2>4. b \in AccountRow /\ LoginMethod(b) /\ HeldBy(b, Owner[l.mail])
    BY <2>1, <2>3 DEF Account, AccountRow, LoginMethod, HeldBy, Nobody
  <2>. QED
    BY <1>1, <2>2, <2>3, <2>4, AddedRow
<1>3. CASE l.purpose = "recovery_email"
  <2>1. /\ l.acct \in DOMAIN accts /\ HeldBy(accts[l.acct], Owner[l.mail]) /\ l.mail \in Identities
        /\ accts[l.acct].mail = Nobody
    BY <1>1, <1>3 DEF Linked, MayBind, ConfirmEmail
  <2>2. PICK a \in AccountRow : a = accts[l.acct]
    BY <1>1, <2>1 DEF Sound
  <2>3. PICK b : b = [a EXCEPT !.mail = l.mail, !.verified = TRUE]
    OBVIOUS
  <2>4. accts' = [accts EXCEPT ![l.acct] = b]
    BY <1>1, <1>3, <2>1, <2>2, <2>3 DEF ConfirmEmail, Sound
  <2>5. b \in AccountRow /\ b.google = a.google /\ b.chosen = a.chosen /\ b.mail = l.mail
    BY <2>1, <2>2, <2>3 DEF AccountRow
  <2>6. LoginMethod(a) /\ LoginMethod(b)
    BY <1>1, <2>1, <2>2, <2>5 DEF Sound, LoginMethod
  <2>7. ASSUME NEW who \in Persons, HeldBy(a, who) PROVE HeldBy(b, who)
    <3>1. who = Owner[l.mail]
      BY <2>1, <2>2, <2>6, <2>7, OneHolds
    <3>. QED
      BY <2>5, <2>7, <3>1 DEF HeldBy
  <2>. QED
    BY <1>1, <2>1, <2>2, <2>4, <2>5, <2>6, <2>7, ChangedRow
<1>. QED
  BY <1>2, <1>3 DEF ConfirmEmail

LEMMA ResetOwns ==
    ASSUME AcctInv, NEW l \in links, ResetByLink(l)
    PROVE  Sound(accts') /\ Grown(accts, accts') /\ GoogleKept(accts, accts')
<1>. USE OwnersAre DEF AcctInv
<1>1. Linked(accts, l) /\ Sound(accts)
  OBVIOUS
<1>2. l.acct \in DOMAIN accts /\ l.mail \in Identities
  BY <1>1 DEF Linked, ResetByLink, Nobody
<1>3. PICK a \in AccountRow : a = accts[l.acct]
  BY <1>1, <1>2 DEF Sound
<1>4. a.epoch + 1 \in Nat
  BY <1>3 DEF AccountRow
<1>4a. PICK b : b = [a EXCEPT !.chosen = Owner[l.mail], !.old = FALSE, !.epoch = a.epoch + 1]
  OBVIOUS
<1>5. /\ a.verified /\ a.mail = l.mail /\ accts' = [accts EXCEPT ![l.acct] = b]
  BY <1>3, <1>4a DEF ResetByLink
<1>6. b \in AccountRow /\ b.google = a.google /\ b.chosen = Owner[l.mail] /\ b.mail = a.mail /\ b.verified = a.verified
  BY <1>2, <1>3, <1>4, <1>4a DEF AccountRow
<1>7. LoginMethod(b)
  BY <1>2, <1>6 DEF LoginMethod, Nobody
<1>8. ASSUME NEW who \in Persons, HeldBy(a, who) PROVE HeldBy(b, who)
  BY <1>2, <1>5, <1>6, <1>8 DEF HeldBy, Nobody
<1>. QED
  BY <1>1, <1>2, <1>3, <1>5, <1>6, <1>7, <1>8, ChangedRow

LEMMA AdoptOwns ==
    ASSUME AcctInv, NEW w \in MailWorkers, GoogleAdopt(w)
    PROVE  Sound(accts') /\ Grown(accts, accts') /\ GoogleKept(accts, accts')
<1>. USE OwnersAre DEF AcctInv
<1>1. PICK j : j = asked[w]
  OBVIOUS
<1>2. Sound(accts) /\ j.g \in Identities /\ j.acct \in DOMAIN accts
  BY <1>1 DEF GoogleAdopt, Asks
<1>3. PICK a \in AccountRow : a = accts[j.acct]
  BY <1>2 DEF Sound
<1>4. PICK b : b = [a EXCEPT !.google = j.g]
  OBVIOUS
<1>5. CASE accts' = accts
  BY <1>2, <1>5, SameRows
<1>6. CASE accts' # accts
  <2>1. accts' = [accts EXCEPT ![j.acct].google = j.g] /\ Proved(a, j.g) /\ a.mail = j.g
    BY <1>1, <1>3, <1>6 DEF GoogleAdopt
  <2>2. accts' = [accts EXCEPT ![j.acct] = b]
    BY <1>3, <1>4, <2>1
  <2>3. b \in AccountRow /\ b.google = j.g /\ b.chosen = a.chosen /\ b.mail = a.mail /\ b.verified = a.verified
    BY <1>2, <1>3, <1>4 DEF AccountRow
  <2>4. LoginMethod(b)
    BY <1>2, <2>3 DEF LoginMethod, Nobody
  <2>5. ASSUME NEW who \in Persons, HeldBy(a, who) PROVE HeldBy(b, who)
    BY <1>2, <2>1, <2>3, <2>5 DEF HeldBy, Nobody, Proved
  <2>6. a.google # Nobody => b.google \in {a.google, Nobody}
    BY <2>1, <2>3 DEF Proved
  <2>. QED
    BY <1>2, <1>3, <2>2, <2>3, <2>4, <2>5, <2>6, ChangedRow
<1>. QED
  BY <1>5, <1>6

LEMMA InsertOwns ==
    ASSUME AcctInv, NEW w \in MailWorkers, GoogleInsert(w)
    PROVE  Sound(accts') /\ Grown(accts, accts') /\ GoogleKept(accts, accts')
<1>. USE OwnersAre DEF AcctInv
<1>1. PICK j : j = asked[w]
  OBVIOUS
<1>2. Sound(accts) /\ j.g \in Identities /\ j.name \in Names
  BY <1>1 DEF GoogleInsert, Asks
<1>3. PICK b : b = Account(j.name, j.g, Nobody, j.g)
  OBVIOUS
<1>4. accts' \in {accts, Append(accts, b)}
  BY <1>1, <1>3 DEF GoogleInsert, Add
<1>5. b \in AccountRow /\ LoginMethod(b) /\ HeldBy(b, Owner[j.g])
  BY <1>2, <1>3 DEF Account, AccountRow, LoginMethod, HeldBy, Nobody
<1>. QED
  BY <1>2, <1>4, <1>5, AddedRow, SameRows

LEMMA LinkOwns ==
    ASSUME AcctInv, NEW w \in MailWorkers, LinkUpdate(w)
    PROVE  Sound(accts') /\ Grown(accts, accts') /\ GoogleKept(accts, accts')
<1>. USE OwnersAre DEF AcctInv
<1>1. PICK j : j = asked[w]
  OBVIOUS
<1>2. Sound(accts) /\ j.g \in Identities /\ j.acct \in DOMAIN accts /\ HeldBy(accts[j.acct], Owner[j.g])
  BY <1>1 DEF LinkUpdate, Asks
<1>3. PICK a \in AccountRow : a = accts[j.acct]
  BY <1>2 DEF Sound
<1>4. PICK b : b = [a EXCEPT !.google = j.g, !.mail = IF @ = Nobody THEN j.g ELSE @,
                             !.verified = @ \/ a.mail \in {Nobody, j.g}]
  OBVIOUS
<1>5. CASE accts' = accts
  BY <1>2, <1>5, SameRows
<1>6. CASE accts' # accts
  <2>1. accts' = [accts EXCEPT ![j.acct] = b] /\ a.google \in {Nobody, j.g}
    BY <1>1, <1>3, <1>4, <1>6 DEF LinkUpdate, FreeFor
  <2>2. /\ b \in AccountRow /\ b.google = j.g /\ b.chosen = a.chosen
        /\ b.mail = IF a.mail = Nobody THEN j.g ELSE a.mail
        /\ b.verified <=> a.verified \/ a.mail \in {Nobody, j.g}
    BY <1>2, <1>3, <1>4 DEF AccountRow
  <2>3. LoginMethod(a) /\ LoginMethod(b)
    <3>1. LoginMethod(a)
      BY <1>2, <1>3 DEF Sound
    <3>2. b.google # Nobody
      BY <1>2, <2>2 DEF Nobody
    <3>. QED
      BY <3>1, <3>2 DEF LoginMethod
  <2>4. ASSUME NEW who \in Persons, HeldBy(a, who) PROVE HeldBy(b, who)
    <3>1. who = Owner[j.g]
      BY <1>2, <1>3, <2>3, <2>4, OneHolds
    <3>. QED
      BY <2>2, <2>4, <3>1 DEF HeldBy
  <2>. QED
    BY <1>2, <1>3, <2>1, <2>2, <2>3, <2>4, ChangedRow
<1>. QED
  BY <1>5, <1>6

LEMMA UnlinkOwns ==
    ASSUME AcctInv, NEW w \in MailWorkers, UnlinkUpdate(w)
    PROVE  Sound(accts') /\ Grown(accts, accts') /\ GoogleKept(accts, accts')
<1>. USE OwnersAre DEF AcctInv
<1>1. PICK j : j = asked[w]
  OBVIOUS
<1>2. Sound(accts) /\ j.acct \in DOMAIN accts
  BY <1>1 DEF UnlinkUpdate, Asks
<1>3. PICK a \in AccountRow : a = accts[j.acct]
  BY <1>2 DEF Sound
<1>4. PICK b : b = [a EXCEPT !.google = Nobody]
  OBVIOUS
<1>5. CASE accts' = accts
  BY <1>2, <1>5, SameRows
<1>6. CASE accts' # accts
  <2>1. accts' = [accts EXCEPT ![j.acct].google = Nobody] /\ Constraints(accts')
    BY <1>1, <1>3, <1>6 DEF UnlinkUpdate
  <2>2. accts' = [accts EXCEPT ![j.acct] = b] /\ j.acct \in DOMAIN accts' /\ accts'[j.acct] = b
    <3>1. accts \in Seq(AccountRow)
      BY <1>2 DEF Sound
    <3>. QED
      BY <1>2, <1>3, <1>4, <2>1, <3>1
  <2>3. b \in AccountRow /\ b.google = Nobody /\ b.chosen = a.chosen /\ b.mail = a.mail /\ b.verified = a.verified
    BY <1>2, <1>3, <1>4 DEF AccountRow
  <2>4. LoginMethod(b)
    BY <2>1, <2>2 DEF Constraints
  <2>5. ASSUME NEW who \in Persons, HeldBy(a, who) PROVE HeldBy(b, who)
    BY <2>3, <2>5 DEF HeldBy
  <2>. QED
    BY <1>2, <1>3, <2>2, <2>3, <2>4, <2>5, ChangedRow
<1>. QED
  BY <1>5, <1>6

LEMMA UpgradeOwns ==
    ASSUME AcctInv, NEW w \in MailWorkers, UpgradeHash(w)
    PROVE  Sound(accts') /\ Grown(accts, accts') /\ GoogleKept(accts, accts')
<1>. USE OwnersAre DEF AcctInv
<1>1. PICK j : j = asked[w]
  OBVIOUS
<1>2. Sound(accts) /\ j.acct \in DOMAIN accts /\ j.who \in Persons /\ HeldBy(accts[j.acct], j.who)
  BY <1>1 DEF UpgradeHash, Asks
<1>3. PICK a \in AccountRow : a = accts[j.acct]
  BY <1>2 DEF Sound
<1>4. PICK b : b = [a EXCEPT !.chosen = j.who, !.old = FALSE]
  OBVIOUS
<1>5. accts' = [accts EXCEPT ![j.acct] = b]
  <2>1. accts' = [accts EXCEPT ![j.acct].chosen = j.who, ![j.acct].old = FALSE]
    BY <1>1 DEF UpgradeHash
  <2>2. accts \in Seq(AccountRow)
    BY <1>2 DEF Sound
  <2>. QED
    BY <1>2, <1>3, <1>4, <2>1, <2>2
<1>6. b \in AccountRow /\ b.google = a.google /\ b.chosen = j.who /\ b.mail = a.mail /\ b.verified = a.verified
  BY <1>2, <1>3, <1>4 DEF AccountRow
<1>7. LoginMethod(a) /\ LoginMethod(b)
  <2>1. j.who # Nobody
    BY <1>2, AccountAssumption DEF Nobody
  <2>. QED
    BY <1>2, <1>3, <1>6, <2>1 DEF Sound, LoginMethod
<1>8. ASSUME NEW who \in Persons, HeldBy(a, who) PROVE HeldBy(b, who)
  <2>1. who = j.who
    BY <1>2, <1>3, <1>7, <1>8, OneHolds
  <2>. QED
    BY <1>6, <1>8, <2>1 DEF HeldBy
<1>. QED
  BY <1>2, <1>3, <1>5, <1>6, <1>7, <1>8, ChangedRow

(* Every step of the account services leaves each account to its owner.    *)
LEMMA EveryStepOwns ==
    ASSUME AcctInv, [AcctNext]_acctVars
    PROVE  Sound(accts') /\ Grown(accts, accts') /\ GoogleKept(accts, accts')
<1>1. CASE accts' = accts
  BY <1>1, SameRows DEF AcctInv
<1>2. CASE accts' # accts
  <2>1. \/ \E l \in links : ConfirmEmail(l) \/ ResetByLink(l)
        \/ \E w \in MailWorkers : GoogleAdopt(w) \/ GoogleInsert(w) \/ LinkUpdate(w) \/ UnlinkUpdate(w) \/ UpgradeHash(w)
    BY <1>2 DEF AcctNext, acctVars, RequestReset, GoogleSignIn, RegisterUser, RequestRecoveryEmail, LinkGoogle,
                UnlinkGoogle, Login, Issue, Send, GoogleByEmail, LinkOther, Abandon, DeliverMail, StopMailer,
                MailSecondPasses
  <2>. QED
    BY <2>1, ConfirmOwns, ResetOwns, AdoptOwns, InsertOwns, LinkOwns, UnlinkOwns, UpgradeOwns
<1>. QED
  BY <1>1, <1>2

(* What one request begins or goes on with leaves the others as they are.  *)
LEMMA OneAsks ==
    ASSUME AcctInv, [AcctNext]_acctVars, NEW w \in MailWorkers, NEW j,
           asked' = [asked EXCEPT ![w] = j], Asks(accts', j)
    PROVE  DOMAIN asked' = MailWorkers /\ \A v \in MailWorkers : Asks(accts', asked'[v])
<1>1. Grown(accts, accts')
  BY EveryStepOwns
<1>2. \A v \in MailWorkers : asked'[v] = IF v = w THEN j ELSE asked[v]
  BY DEF AcctInv
<1>. QED
  BY <1>1, <1>2, AsksStill DEF AcctInv

(* What a request asks for holds of the table when it begins.              *)
LEMMA RequestsAsk ==
    ASSUME AcctInv, [AcctNext]_acctVars
    PROVE  DOMAIN asked' = MailWorkers /\ \A w \in MailWorkers : Asks(accts', asked'[w])
<1>. USE OwnersAre DEF AcctInv
<1>0. Grown(accts, accts') /\ Asks(accts', NoJob)
  BY EveryStepOwns DEF Asks, NoJob
<1>1. ASSUME UNCHANGED asked PROVE DOMAIN asked' = MailWorkers /\ \A w \in MailWorkers : Asks(accts', asked'[w])
  BY <1>0, <1>1, AsksStill
<1>2. ASSUME NEW w \in MailWorkers, asked' = [asked EXCEPT ![w] = NoJob]
      PROVE  DOMAIN asked' = MailWorkers /\ \A v \in MailWorkers : Asks(accts', asked'[v])
  BY <1>0, <1>2, OneAsks
<1>3. ASSUME NEW i \in DOMAIN accts PROVE accts[i] \in AccountRow /\ LoginMethod(accts[i])
  BY DEF Sound
<1>4. ASSUME NEW i \in DOMAIN accts, NEW who \in Persons, SignsIn(i, who) PROVE HeldBy(accts[i], who)
  <2>1. PICK x \in Persons : HeldBy(accts[i], x)
    BY DEF Sound
  <2>2. x = who
    BY <1>4, <2>1, AccountAssumption DEF SignsIn, HeldBy, Nobody
  <2>. QED
    BY <2>1, <2>2
<1>5. ASSUME NEW w \in MailWorkers, NEW m \in Identities, RequestReset(w, m)
      PROVE  DOMAIN asked' = MailWorkers /\ \A v \in MailWorkers : Asks(accts', asked'[v])
  <2>1. PICK j : /\ asked' = [asked EXCEPT ![w] = j]
                 /\ \E a \in DOMAIN accts \cup {Nobody} : \E e \in Nat :
                       j = [op |-> "issue", purpose |-> "reset", mail |-> m, acct |-> a, epoch |-> e, name |-> ""]
    <3>1. \A i \in DOMAIN accts : accts[i].epoch \in Nat
      BY <1>3 DEF AccountRow
    <3>. QED
      BY <1>5, <3>1 DEF RequestReset, Issues, Begins, ByMail
  <2>2. Asks(accts', j)
    <3>0. PICK a \in DOMAIN accts \cup {Nobody}, e \in Nat :
             j = [op |-> "issue", purpose |-> "reset", mail |-> m, acct |-> a, epoch |-> e, name |-> ""]
      BY <2>1
    <3>1. Asks(accts, j)
      BY <3>0 DEF Asks, MayBind, Purposes
    <3>. QED
      BY <1>0, <3>1, AsksStill
  <2>. QED
    BY <2>1, <2>2, OneAsks
<1>6. ASSUME NEW w \in MailWorkers, NEW m \in Identities, NEW n \in Names, RegisterUser(w, m, n)
      PROVE  DOMAIN asked' = MailWorkers /\ \A v \in MailWorkers : Asks(accts', asked'[v])
  <2>1. PICK j : /\ asked' = [asked EXCEPT ![w] = j]
                 /\ j = [op |-> "issue", purpose |-> "register", mail |-> m, acct |-> Nobody, epoch |-> 0, name |-> n]
    BY <1>6 DEF RegisterUser, Issues, Begins
  <2>2. Asks(accts, j)
    BY <2>1 DEF Asks, MayBind, Purposes
  <2>. QED
    BY <1>0, <2>1, <2>2, OneAsks, AsksStill
<1>7. ASSUME NEW w \in MailWorkers, NEW m \in Identities, NEW i \in DOMAIN accts, RequestRecoveryEmail(w, m, i)
      PROVE  DOMAIN asked' = MailWorkers /\ \A v \in MailWorkers : Asks(accts', asked'[v])
  <2>1. PICK j : /\ asked' = [asked EXCEPT ![w] = j]
                 /\ j = [op |-> "issue", purpose |-> "recovery_email", mail |-> m, acct |-> i,
                         epoch |-> accts[i].epoch, name |-> ""]
    BY <1>7 DEF RequestRecoveryEmail, Issues, Begins
  <2>2. HeldBy(accts[i], Owner[m]) /\ accts[i].epoch \in Nat
    BY <1>3, <1>4, <1>7 DEF RequestRecoveryEmail, SignsIn, AccountRow
  <2>3. Asks(accts, j)
    BY <2>1, <2>2 DEF Asks, MayBind, Purposes
  <2>. QED
    BY <1>0, <2>1, <2>3, OneAsks, AsksStill
<1>8. ASSUME NEW w \in MailWorkers, Issue(w)
      PROVE  DOMAIN asked' = MailWorkers /\ \A v \in MailWorkers : Asks(accts', asked'[v])
  <2>1. PICK j : /\ asked' = [asked EXCEPT ![w] = j]
                 /\ j = NoJob \/ \E b \in BOOLEAN : j = [op |-> "send", id |-> lastLink + 1, body |-> b]
    BY <1>8 DEF Issue, Goes
  <2>2. Asks(accts', j)
    <3>1. CASE j = NoJob
      BY <1>0, <3>1
    <3>2. ASSUME NEW b \in BOOLEAN, j = [op |-> "send", id |-> lastLink + 1, body |-> b] PROVE Asks(accts', j)
      <4>1. PICK n \in Nat : n = lastLink + 1
        OBVIOUS
      <4>2. j = [op |-> "send", id |-> n, body |-> b]
        BY <3>2, <4>1
      <4>. QED
        BY <4>2 DEF Asks
    <3>. QED
      BY <2>1, <3>1, <3>2
  <2>. QED
    BY <2>1, <2>2, OneAsks
<1>9. ASSUME NEW w \in MailWorkers, NEW g \in Identities, GoogleSignIn(w, g)
      PROVE  DOMAIN asked' = MailWorkers /\ \A v \in MailWorkers : Asks(accts', asked'[v])
  <2>1. PICK j : asked' = [asked EXCEPT ![w] = j] /\ j = [op |-> "google", g |-> g]
    BY <1>9 DEF GoogleSignIn, Begins
  <2>2. Asks(accts', j)
    BY <2>1 DEF Asks
  <2>. QED
    BY <2>1, <2>2, OneAsks
<1>10. ASSUME NEW w \in MailWorkers, GoogleByEmail(w)
       PROVE  DOMAIN asked' = MailWorkers /\ \A v \in MailWorkers : Asks(accts', asked'[v])
  <2>1. PICK g \in Identities : g = asked[w].g
    BY <1>10 DEF GoogleByEmail, Asks
  <2>2. PICK j : /\ asked' = [asked EXCEPT ![w] = j]
                 /\ \/ j = NoJob
                    \/ \E n \in Names : j = [op |-> "insert", g |-> g, name |-> n]
                    \/ \E i \in DOMAIN accts : j = [op |-> "adopt", g |-> g, acct |-> i]
    BY <1>10, <2>1 DEF GoogleByEmail, Goes, ByMail
  <2>3. Asks(accts, j)
    <3>1. CASE j = NoJob
      BY <3>1 DEF Asks, NoJob
    <3>2. ASSUME NEW n \in Names, j = [op |-> "insert", g |-> g, name |-> n] PROVE Asks(accts, j)
      BY <3>2 DEF Asks
    <3>3. ASSUME NEW i \in DOMAIN accts, j = [op |-> "adopt", g |-> g, acct |-> i] PROVE Asks(accts, j)
      BY <3>3 DEF Asks
    <3>. QED
      BY <2>2, <3>1, <3>2, <3>3
  <2>. QED
    BY <1>0, <2>2, <2>3, OneAsks, AsksStill
<1>11. ASSUME NEW w \in MailWorkers, NEW g \in Identities, NEW i \in DOMAIN accts, LinkGoogle(w, g, i)
       PROVE  DOMAIN asked' = MailWorkers /\ \A v \in MailWorkers : Asks(accts', asked'[v])
  <2>1. PICK j : asked' = [asked EXCEPT ![w] = j] /\ j = [op |-> "other", g |-> g, acct |-> i]
    BY <1>11 DEF LinkGoogle, Begins
  <2>2. HeldBy(accts[i], Owner[g])
    BY <1>4, <1>11 DEF LinkGoogle
  <2>3. Asks(accts, j)
    BY <2>1, <2>2 DEF Asks
  <2>. QED
    BY <1>0, <2>1, <2>3, OneAsks, AsksStill
<1>12. ASSUME NEW w \in MailWorkers, LinkOther(w)
       PROVE  DOMAIN asked' = MailWorkers /\ \A v \in MailWorkers : Asks(accts', asked'[v])
  <2>1. PICK k : k = asked[w]
    OBVIOUS
  <2>2. k \in [op : {"other", "link"}, g : Identities, acct : DOMAIN accts] /\ HeldBy(accts[k.acct], Owner[k.g])
    BY <1>12, <2>1 DEF LinkOther, Asks
  <2>3. PICK j : asked' = [asked EXCEPT ![w] = j] /\ j \in {NoJob, [k EXCEPT !.op = "link"]}
    BY <1>12, <2>1 DEF LinkOther, Goes
  <2>4. CASE j = [k EXCEPT !.op = "link"]
    <3>1. j = [op |-> "link", g |-> k.g, acct |-> k.acct]
      BY <2>2, <2>4
    <3>2. Asks(accts, j)
      BY <2>2, <3>1 DEF Asks
    <3>. QED
      BY <1>0, <2>3, <3>2, OneAsks, AsksStill
  <2>. QED
    BY <1>2, <2>3, <2>4
<1>13. ASSUME NEW w \in MailWorkers, NEW who \in Persons, NEW i \in DOMAIN accts, UnlinkGoogle(w, who, i)
       PROVE  DOMAIN asked' = MailWorkers /\ \A v \in MailWorkers : Asks(accts', asked'[v])
  <2>1. PICK j : asked' = [asked EXCEPT ![w] = j] /\ j = [op |-> "unlink", acct |-> i]
    BY <1>13 DEF UnlinkGoogle, Begins
  <2>2. Asks(accts, j)
    BY <2>1 DEF Asks
  <2>. QED
    BY <1>0, <2>1, <2>2, OneAsks, AsksStill
<1>14. ASSUME NEW w \in MailWorkers, NEW who \in Persons, NEW i \in DOMAIN accts, Login(w, who, i)
       PROVE  DOMAIN asked' = MailWorkers /\ \A v \in MailWorkers : Asks(accts', asked'[v])
  <2>1. PICK j : asked' = [asked EXCEPT ![w] = j] /\ j = [op |-> "upgrade", who |-> who, acct |-> i]
    BY <1>14 DEF Login, Begins
  <2>2. HeldBy(accts[i], who)
    BY <1>4, <1>14 DEF Login, SignsIn
  <2>3. Asks(accts, j)
    BY <2>1, <2>2 DEF Asks
  <2>. QED
    BY <1>0, <2>1, <2>3, OneAsks, AsksStill
<1>15. ASSUME NEW w \in MailWorkers,
              Send(w) \/ GoogleAdopt(w) \/ GoogleInsert(w) \/ LinkUpdate(w) \/ UnlinkUpdate(w) \/ UpgradeHash(w) \/ Abandon(w)
       PROVE  DOMAIN asked' = MailWorkers /\ \A v \in MailWorkers : Asks(accts', asked'[v])
  BY <1>2, <1>15 DEF Send, GoogleAdopt, GoogleInsert, LinkUpdate, UnlinkUpdate, UpgradeHash, Abandon, Goes
<1>16. ASSUME UNCHANGED acctVars \/ (\E l \in links : ConfirmEmail(l) \/ ResetByLink(l))
              \/ DeliverMail \/ StopMailer \/ MailSecondPasses
       PROVE  UNCHANGED asked
  BY <1>16 DEF acctVars, ConfirmEmail, ResetByLink, DeliverMail, StopMailer, MailSecondPasses
<1>. QED
  BY <1>1, <1>5, <1>6, <1>7, <1>8, <1>9, <1>10, <1>11, <1>12, <1>13, <1>14, <1>15, <1>16 DEF AcctNext

(* The mailed links: what issue writes, and what the rest removes.         *)
LEMMA LinksHold ==
    ASSUME AcctInv, [AcctNext]_acctVars
    PROVE  /\ mailClock' \in Nat /\ lastLink' \in Nat
           /\ \A l \in links' : Linked(accts', l)
           /\ PendingRegistrationsDistinct' /\ RowsHaveMail'
<1>. USE DEF AcctInv
<1>0. Grown(accts, accts') /\ {ResetTtl, LinkTtl} \subseteq Nat
  BY EveryStepOwns, AccountAssumption
<1>1. ASSUME NEW w \in MailWorkers, Issue(w)
      PROVE  /\ mailClock' \in Nat /\ lastLink' \in Nat
             /\ \A l \in links' : Linked(accts', l)
             /\ PendingRegistrationsDistinct' /\ RowsHaveMail'
  <2>1. PICK j : j = asked[w]
    OBVIOUS
  <2>2. j \in [op : {"issue"}, purpose : Purposes, mail : Identities, acct : DOMAIN accts \cup {Nobody},
               epoch : Nat, name : Names \cup {""}] /\ MayBind(accts, j)
    BY <1>1, <2>1 DEF Issue, Asks
  <2>3. mailClock' = mailClock /\ accts' = accts /\ mailed' = mailed
    BY <1>1 DEF Issue
  <2>4. CASE links' = links /\ lastLink' = lastLink /\ asked' = [asked EXCEPT ![w] = NoJob]
    <3>1. \A v \in MailWorkers : asked[v].op = "send" => asked'[v] = asked[v]
      BY <1>1, <2>4 DEF Issue
    <3>2. PendingRegistrationsDistinct'
      BY <2>3, <2>4 DEF PendingRegistrationsDistinct, Live
    <3>3. RowsHaveMail'
      BY <2>3, <2>4, <3>1 DEF RowsHaveMail
    <3>. QED
      BY <2>3, <2>4, <3>2, <3>3
  <2>5. CASE ~(links' = links /\ lastLink' = lastLink /\ asked' = [asked EXCEPT ![w] = NoJob])
    <3>1. PICK made, s :
              /\ made = [id |-> lastLink + 1, purpose |-> j.purpose, mail |-> j.mail, acct |-> j.acct,
                         epoch |-> j.epoch, name |-> j.name, created |-> mailClock,
                         expires |-> mailClock + (IF j.purpose = "reset" THEN ResetTtl ELSE LinkTtl)]
              /\ s = [op |-> "send", id |-> lastLink + 1, body |-> ~(j.purpose = "reset" /\ j.acct = Nobody)]
      OBVIOUS
    <3>2. /\ links' = Kept \cup {made} /\ lastLink' = lastLink + 1
          /\ asked' = [asked EXCEPT ![w] = s] /\ ~(j.purpose = "register" /\ Taken(j))
      BY <1>1, <2>1, <2>5, <3>1 DEF Issue, Goes
    <3>3. /\ made.id = lastLink + 1 /\ made.purpose = j.purpose /\ made.mail = j.mail /\ made.acct = j.acct
          /\ made.epoch = j.epoch /\ made.name = j.name
          /\ s.op = "send" /\ s.id = lastLink + 1
      BY <3>1
    <3>4. Linked(accts, made)
      <4>1. made \in [id : Nat, purpose : Purposes, mail : Identities, acct : DOMAIN accts \cup {Nobody},
                     epoch : Nat, name : Names \cup {""}, created : Nat, expires : Nat]
        <5>1. lastLink + 1 \in Nat /\ mailClock \in Nat
              /\ mailClock + (IF j.purpose = "reset" THEN ResetTtl ELSE LinkTtl) \in Nat
          BY <1>0
        <5>. QED
          BY <2>2, <3>1, <5>1
      <4>2. MayBind(accts, made)
        BY <2>2, <3>3 DEF MayBind
      <4>. QED
        BY <4>1, <4>2 DEF Linked
    <3>5. \A l \in links' : Linked(accts', l)
      BY <2>3, <3>2, <3>4 DEF Kept
    <3>6. PendingRegistrationsDistinct'
      <4>1. Live(made)' => Live(made)
        BY <2>3 DEF Live
      <4>2. \A l \in links : l.purpose = "register" /\ Live(l) /\ j.purpose = "register" =>
               ((l.name = j.name) <=> (l.mail = j.mail))
        BY <3>2 DEF Taken
      <4>. QED
        BY <2>3, <3>2, <3>3, <4>2 DEF PendingRegistrationsDistinct, Kept, Live
    <3>7. RowsHaveMail'
      <4>1. asked'[w] = s /\ \A v \in MailWorkers : asked[v].op = "send" => asked'[v] = asked[v]
        BY <1>1, <3>2 DEF Issue
      <4>2. made.id = asked'[w].id /\ asked'[w].op = "send"
        BY <3>3, <4>1
      <4>3. ASSUME NEW l \in links
            PROVE  l.id \in mailed' \/ \E v \in MailWorkers : asked'[v].op = "send" /\ asked'[v].id = l.id
        BY <2>3, <4>1 DEF RowsHaveMail
      <4>. QED
        BY <3>2, <4>2, <4>3 DEF RowsHaveMail, Kept
    <3>. QED
      BY <2>3, <3>2, <3>5, <3>6, <3>7
  <2>. QED
    BY <2>4, <2>5
<1>2. ASSUME NEW w \in MailWorkers, Send(w)
      PROVE  /\ mailClock' \in Nat /\ lastLink' \in Nat
             /\ \A l \in links' : Linked(accts', l)
             /\ PendingRegistrationsDistinct' /\ RowsHaveMail'
  <2>1. /\ UNCHANGED <<mailClock, accts, lastLink>> /\ asked' = [asked EXCEPT ![w] = NoJob]
        /\ links' \subseteq links /\ mailed \subseteq mailed'
        /\ \A l \in links' : l.id = asked[w].id => l.id \in mailed'
    BY <1>2 DEF Send, Goes, Refused
  <2>2. RowsHaveMail'
    <3>1. ASSUME NEW l \in links'
          PROVE  l.id \in mailed' \/ \E v \in MailWorkers : asked'[v].op = "send" /\ asked'[v].id = l.id
      BY <2>1 DEF RowsHaveMail
    <3>. QED
      BY <3>1 DEF RowsHaveMail
  <2>3. PendingRegistrationsDistinct'
    BY <2>1 DEF PendingRegistrationsDistinct, Live
  <2>. QED
    BY <2>1, <2>2, <2>3
<1>3. ASSUME UNCHANGED <<lastLink, mailed>>, mailClock' \in Nat, mailClock <= mailClock', links' \subseteq links,
             \A v \in MailWorkers : asked[v].op = "send" => asked'[v] = asked[v]
      PROVE  /\ mailClock' \in Nat /\ lastLink' \in Nat
             /\ \A l \in links' : Linked(accts', l)
             /\ PendingRegistrationsDistinct' /\ RowsHaveMail'
  <2>1. \A l \in links' : Linked(accts', l)
    BY <1>0, <1>3, LinkedStill
  <2>2. \A l \in links' : Live(l)' => Live(l)
    <3>1. \A l \in links : l.expires \in Nat
      BY DEF Linked
    <3>. QED
      BY <1>3, <3>1 DEF Live
  <2>3. PendingRegistrationsDistinct'
    BY <1>3, <2>2 DEF PendingRegistrationsDistinct
  <2>4. RowsHaveMail'
    BY <1>3 DEF RowsHaveMail
  <2>. QED
    BY <1>3, <2>1, <2>3, <2>4
<1>4. ASSUME NEW w \in MailWorkers, NEW j, Begins(w, j) PROVE \A v \in MailWorkers : asked[v].op = "send" => asked'[v] = asked[v]
  BY <1>4 DEF Begins, NoJob
<1>5. ASSUME NEW w \in MailWorkers, asked[w].op # "send", NEW j, Goes(w, j)
      PROVE  \A v \in MailWorkers : asked[v].op = "send" => asked'[v] = asked[v]
  BY <1>5 DEF Goes
<1>6. CASE UNCHANGED acctVars
  BY <1>3, <1>6 DEF acctVars, linkVars
<1>7. CASE \E l \in links : ConfirmEmail(l) \/ ResetByLink(l)
  <2>1. UNCHANGED <<lastLink, mailed, mailClock, asked>> /\ links' \subseteq links
    BY <1>7 DEF ConfirmEmail, ResetByLink
  <2>. QED
    BY <1>3, <2>1
<1>8. CASE DeliverMail \/ StopMailer
  BY <1>3, <1>8 DEF DeliverMail, StopMailer, linkVars
<1>9. CASE MailSecondPasses
  BY <1>3, <1>9 DEF MailSecondPasses, linkVars
<1>10. ASSUME NEW w \in MailWorkers, NEW m \in Identities, NEW n, RequestReset(w, m) \/ GoogleSignIn(w, m) \/ RegisterUser(w, m, n)
       PROVE  /\ UNCHANGED <<lastLink, mailed, mailClock, links>>
              /\ \A v \in MailWorkers : asked[v].op = "send" => asked'[v] = asked[v]
  BY <1>4, <1>10 DEF RequestReset, GoogleSignIn, RegisterUser, Issues, linkVars
<1>11. ASSUME NEW w \in MailWorkers, NEW m, NEW i,
              RequestRecoveryEmail(w, m, i) \/ LinkGoogle(w, m, i) \/ UnlinkGoogle(w, m, i) \/ Login(w, m, i)
       PROVE  /\ UNCHANGED <<lastLink, mailed, mailClock, links>>
              /\ \A v \in MailWorkers : asked[v].op = "send" => asked'[v] = asked[v]
  BY <1>4, <1>11 DEF RequestRecoveryEmail, LinkGoogle, UnlinkGoogle, Login, Issues, linkVars
<1>12. ASSUME NEW w \in MailWorkers,
              \/ GoogleByEmail(w) \/ GoogleAdopt(w) \/ GoogleInsert(w) \/ LinkOther(w) \/ LinkUpdate(w)
              \/ UnlinkUpdate(w) \/ UpgradeHash(w) \/ Abandon(w)
       PROVE  /\ UNCHANGED <<lastLink, mailed, mailClock, links>>
              /\ \A v \in MailWorkers : asked[v].op = "send" => asked'[v] = asked[v]
  BY <1>5, <1>12 DEF GoogleByEmail, GoogleAdopt, GoogleInsert, LinkOther, LinkUpdate, UnlinkUpdate, UpgradeHash,
                     Abandon, linkVars
<1>13. ASSUME UNCHANGED <<lastLink, mailed, mailClock, links>>,
              \A v \in MailWorkers : asked[v].op = "send" => asked'[v] = asked[v]
       PROVE  /\ mailClock' \in Nat /\ lastLink' \in Nat
              /\ \A l \in links' : Linked(accts', l)
              /\ PendingRegistrationsDistinct' /\ RowsHaveMail'
  BY <1>3, <1>13
<1>. QED
  BY <1>1, <1>2, <1>6, <1>7, <1>8, <1>9, <1>10, <1>11, <1>12, <1>13 DEF AcctNext

LEMMA AcctSteps == AcctInv /\ [AcctNext]_acctVars => AcctInv'
BY EveryStepOwns, RequestsAsk, LinksHold DEF AcctInv

LEMMA OwnersAlone == AcctInv => OneOwnerPerAccount
<1>. SUFFICES ASSUME AcctInv, NEW i \in DOMAIN accts
              PROVE  LET a == accts[i]
                         proofs == {a.google, IF a.verified THEN a.mail ELSE Nobody} \ {Nobody}
                     IN  Cardinality(({a.chosen} \ {Nobody}) \cup {Owner[m] : m \in proofs}) = 1
  BY DEF OneOwnerPerAccount
<1>1. PICK a \in AccountRow : a = accts[i] /\ LoginMethod(a)
  BY DEF AcctInv, Sound
<1>2. PICK who \in Persons : HeldBy(a, who)
  BY <1>1 DEF AcctInv, Sound
<1>3. PICK P : P = {a.google, IF a.verified THEN a.mail ELSE Nobody} \ {Nobody}
  OBVIOUS
<1>4. PICK W : W = ({a.chosen} \ {Nobody}) \cup {Owner[m] : m \in P}
  OBVIOUS
<1>5. \A m \in P : Owner[m] = who
  BY <1>2, <1>3 DEF HeldBy
<1>6. W \subseteq {who}
  BY <1>2, <1>4, <1>5 DEF HeldBy
<1>7. who \in W
  <2>1. CASE a.chosen # Nobody
    BY <1>2, <1>4, <2>1 DEF HeldBy
  <2>2. CASE a.google # Nobody
    BY <1>3, <1>4, <1>5, <2>2
  <2>. QED
    BY <1>1, <2>1, <2>2 DEF LoginMethod
<1>8. Cardinality(W) = 1
  BY <1>6, <1>7, FS_Singleton
<1>. QED
  BY <1>1, <1>3, <1>4, <1>8, Zenon

(* No interleaving of registrations, mailed links, Google sign-ins, links  *)
(* and hash upgrades gives an account to a second person, promises a name  *)
(* twice, loses a link or replaces a Google identity, for any people,      *)
(* addresses, requests and rows of an older release (email_recovery.cpp,   *)
(* oauth_verify.cpp and service.cpp of src/auth).                          *)
THEOREM AccountsStayOwned == AcctSpec => AccountsKeepTheirOwners
<1>1. AcctInv => OneOwnerPerAccount /\ PendingRegistrationsDistinct /\ RowsHaveMail
  BY OwnersAlone DEF AcctInv
<1>2. AcctInv /\ [AcctNext]_acctVars =>
         [\A i \in DOMAIN accts : accts[i].google # Nobody => accts'[i].google \in {accts[i].google, Nobody}]_acctVars
  BY EveryStepOwns DEF GoogleKept
<1>. QED
  BY <1>1, <1>2, AcctStarts, AcctSteps, PTL DEF AcctSpec, AccountsKeepTheirOwners, GoogleNeverReplaced

=============================================================================
