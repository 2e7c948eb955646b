----------------------------- MODULE DeskProofs -----------------------------
(* The desk's accounts and the desks themselves, for any visitors, seats,    *)
(* requests, roles and agents: registrations and resets that stop or cross   *)
(* leave accounts whole, desks, rosters and shelves hold together under      *)
(* overlapping and half-done requests, and the tables they read are sound.   *)
(* Then the scrubber, for any texts, patterns and keywords: where matches    *)
(* cross the earlier is kept, nothing that matches is left in what is        *)
(* handed on, and answers come back whole.                                   *)
EXTENDS DeskAccounts, DeskWorkspace, Scrubbing, SequenceTheorems, WellFoundedInduction,
        FiniteSetTheorems, TLAPS

-----------------------------------------------------------------------------
(* Desk accounts: the inductive invariant.                                    *)

Account == [email : Emails, secret : Secrets, role : SelfRegisterable]
Registering == [at : {"account", "profile", "profile receipt", "account receipt"}, id : Nat,
                secret : Secrets, email : Emails, role : SelfRegisterable]
Renewing == [at : {"reset", "reset receipt"}, id : Nat, secret : Secrets, row : Account]

AccountTypeOK ==
    /\ accounts \in Seq(Account)
    /\ settled \in Seq(Secrets) /\ Len(settled) = Len(accounts)
    /\ door \in [Doors -> {Outside} \cup Registering \cup Renewing]
    /\ hours \in Nat
    /\ \A t \in sessions : t.id \in Ids
    /\ \A l \in links : l.id \in Ids

\* What a request knows of the account it is at: it is there, and its email and
\* role are those of the row that was read.
DoorInv(d) ==
    /\ door[d].at \in {"profile", "profile receipt", "account receipt", "reset", "reset receipt"} =>
         door[d].id \in Ids
    /\ door[d].at \in {"reset", "reset receipt"} =>
         /\ door[d].row.email = accounts[door[d].id].email
         /\ door[d].row.role = accounts[door[d].id].role

\* An account whose resets did not cross has one reset at most; between its save and its
\* receipt the row holds the password that will be told.
ResetInv(i) ==
    /\ \A d, e \in Resetting(i) : d = e
    /\ \A d \in Resetting(i) : door[d].at = "reset receipt" => accounts[i].secret = door[d].secret
    /\ (\A d \in Resetting(i) : door[d].at = "reset") => accounts[i].secret = settled[i]

AccountsInv ==
    /\ AccountTypeOK
    /\ \A d \in Doors : DoorInv(d)
    /\ OneAccountPerEmail
    /\ StrandedOnlyByStop
    /\ \A i \in Ids \ crossed : ResetInv(i)

\* A sequence with one element more, and with one changed.
LEMMA Grown ==
  ASSUME NEW S, NEW s \in Seq(S), NEW x \in S
  PROVE  /\ Append(s, x) \in Seq(S) /\ Len(Append(s, x)) = Len(s) + 1
         /\ DOMAIN Append(s, x) = DOMAIN s \cup {Len(s) + 1} /\ Len(s) + 1 \notin DOMAIN s
         /\ Append(s, x)[Len(s) + 1] = x
         /\ \A i \in DOMAIN s : Append(s, x)[i] = s[i]
OBVIOUS

\* A sequence with one element changed.
LEMMA Replaced ==
  ASSUME NEW S, NEW s \in Seq(S), NEW x \in S, NEW k \in DOMAIN s
  PROVE  LET r == [s EXCEPT ![k] = x] IN
         /\ r \in Seq(S) /\ Len(r) = Len(s) /\ DOMAIN r = DOMAIN s
         /\ r[k] = x /\ \A i \in DOMAIN s \ {k} : r[i] = s[i]
OBVIOUS

\* Only the request at door d moves.
OnlyDoor(d) ==
    /\ door' \in [Doors -> {Outside} \cup Registering \cup Renewing]
    /\ \A e \in Doors \ {d} : door'[e] = door[e]

\* A request that moves leaves the others where they are.
LEMMA DoorStep ==
  ASSUME AccountTypeOK, NEW d \in Doors, NEW there,
         there \in {Outside} \cup Registering \cup Renewing,
         door' = [door EXCEPT ![d] = there]
  PROVE  OnlyDoor(d) /\ door'[d] = there
BY DEF AccountTypeOK, OnlyDoor

\* A request that ends is outside.
LEMMA LeaveDoor ==
  ASSUME AccountTypeOK, NEW d \in Doors, door' = [door EXCEPT ![d] = Outside]
  PROVE  OnlyDoor(d) /\ door'[d] = Outside /\ door'[d].at = "outside"
<1>1. Outside.at = "outside"
  BY DEF Outside
<1>2. OnlyDoor(d) /\ door'[d] = Outside
  BY DoorStep
<1> QED
  BY <1>1, <1>2

\* What kind of request is at a door is told by its stage.
LEMMA DoorKinds ==
  ASSUME AccountTypeOK, NEW d \in Doors
  PROVE  /\ \/ door[d] = Outside /\ door[d].at = "outside"
            \/ door[d] \in Registering
               /\ door[d].at \in {"account", "profile", "profile receipt", "account receipt"}
            \/ door[d] \in Renewing /\ door[d].at \in {"reset", "reset receipt"}
<1>1. Outside.at = "outside"
  BY DEF Outside
<1>2. \A r \in Registering : r.at \in {"account", "profile", "profile receipt", "account receipt"}
  BY DEF Registering
<1>3. \A r \in Renewing : r.at \in {"reset", "reset receipt"}
  BY DEF Renewing
<1>4. door[d] = Outside \/ door[d] \in Registering \/ door[d] \in Renewing
  BY DEF AccountTypeOK
<1> QED
  BY <1>1, <1>2, <1>3, <1>4

\* A request that goes on keeps what it carries.
LEMMA OnwardRegistering ==
  ASSUME AccountTypeOK, NEW d \in Doors, door[d].at \in {"profile", "profile receipt"},
         NEW stage \in {"profile receipt", "account receipt"},
         door' = [door EXCEPT ![d].at = stage]
  PROVE  OnlyDoor(d) /\ door'[d].at = stage /\ door'[d].id = door[d].id
<1> DEFINE there == [door[d] EXCEPT !.at = stage]
<1>1. door[d] \in Registering
  BY DoorKinds
<1>2. there \in Registering /\ there.at = stage /\ there.id = door[d].id
  BY <1>1 DEF Registering
<1>3. door' = [door EXCEPT ![d] = there]
  OBVIOUS
<1> HIDE DEF there
<1> QED
  BY <1>2, <1>3, DoorStep

\* The same of a reset: it keeps the account, the password and the row it read.
LEMMA OnwardReset ==
  ASSUME AccountTypeOK, NEW d \in Doors, door[d].at = "reset",
         door' = [door EXCEPT ![d].at = "reset receipt"]
  PROVE  /\ OnlyDoor(d) /\ door'[d].at = "reset receipt" /\ door'[d].id = door[d].id
         /\ door'[d].secret = door[d].secret /\ door'[d].row = door[d].row
<1> DEFINE there == [door[d] EXCEPT !.at = "reset receipt"]
<1>1. door[d] \in Renewing
  BY DoorKinds
<1>2. /\ there \in Renewing /\ there.at = "reset receipt" /\ there.id = door[d].id
      /\ there.secret = door[d].secret /\ there.row = door[d].row
  BY <1>1 DEF Renewing
<1>3. door' = [door EXCEPT ![d] = there]
  OBVIOUS
<1> HIDE DEF there
<1> QED
  BY <1>2, <1>3, DoorStep

\* What every step but SaveAccount, SavePassword and RecordReset leaves alone.
LEMMA QuietInv ==
  ASSUME AccountsInv, NEW d \in Doors, OnlyDoor(d),
         UNCHANGED <<accounts, settled, profiled>>,
         hours' \in Nat, \A t \in sessions' : t.id \in Ids, \A l \in links' : l.id \in Ids,
         DoorInv(d)', cutShort \subseteq cutShort', crossed \subseteq crossed',
         door[d].at = "profile" => door[d].id \in cutShort',
         door[d].at \in {"reset", "reset receipt"} => door[d].id \in crossed',
         door'[d].at \in {"reset", "reset receipt"} =>
           door'[d].at = "reset" /\ (Resetting(door'[d].id) = {} \/ door'[d].id \in crossed')
  PROVE  AccountsInv'
<1>1. AccountTypeOK'
  BY DEF AccountsInv, AccountTypeOK, OnlyDoor, Ids
<1>2. \A e \in Doors : DoorInv(e)'
  BY DEF AccountsInv, OnlyDoor, DoorInv, Ids
<1>3. OneAccountPerEmail' /\ Ids' = Ids
  BY DEF AccountsInv, OneAccountPerEmail, Ids
<1>4. StrandedOnlyByStop'
  <2> SUFFICES ASSUME NEW i \in Ids, accounts[i].role = "contributor", i \notin profiled,
                      i \notin cutShort'
               PROVE  \E e \in Doors : door'[e].at = "profile" /\ door'[e].id = i
    BY <1>3 DEF StrandedOnlyByStop, At
  <2>1. PICK e \in Doors : door[e].at = "profile" /\ door[e].id = i
    BY DEF AccountsInv, StrandedOnlyByStop, At
  <2>2. e # d
    BY <2>1
  <2> QED
    BY <2>1, <2>2 DEF OnlyDoor
<1>5. ASSUME NEW i \in Ids, i \notin crossed'
      PROVE  ResetInv(i)'
  <2>1. ResetInv(i)
    BY <1>5 DEF AccountsInv
  <2>2. CASE door'[d].at = "reset" /\ door'[d].id = i
    <3>1. Resetting(i) = {} /\ Resetting(i)' = {d}
      BY <1>5, <2>2 DEF Resetting, OnlyDoor
    <3> QED
      BY <2>1, <2>2, <3>1 DEF ResetInv
  <2>3. CASE ~(door'[d].at = "reset" /\ door'[d].id = i)
    <3>1. Resetting(i)' = Resetting(i) /\ d \notin Resetting(i)
      BY <1>5, <2>3 DEF Resetting, OnlyDoor
    <3> QED
      BY <2>1, <3>1 DEF ResetInv, OnlyDoor, Resetting
  <2> QED
    BY <2>2, <2>3
<1> QED
  BY <1>1, <1>2, <1>3, <1>4, <1>5 DEF AccountsInv

-----------------------------------------------------------------------------
(* Desk accounts: the three steps that change rows or what was told.          *)

\* The table grows by one row: nobody stranded but the one who goes on to a profile.
LEMMA SaveAccountInv ==
  ASSUME AccountsInv, NEW d \in Doors, SaveAccount(d)
  PROVE  AccountsInv'
<1> DEFINE it == door[d]
           row == [email |-> it.email, secret |-> it.secret, role |-> it.role]
           n == Len(accounts) + 1
           next == IF it.role = "contributor" THEN "profile" ELSE "account receipt"
           there == [it EXCEPT !.id = n, !.at = next]
<1>1. /\ it \in Registering /\ it.at = "account"
      /\ it.email \in Emails /\ it.secret \in Secrets /\ it.role \in SelfRegisterable
  BY DoorKinds DEF AccountsInv, SaveAccount, At, Registering
<1>2. /\ UNCHANGED <<profiled, recorded, sessions, links, hours, cutShort, crossed>>
      /\ AccountTypeOK /\ accounts \in Seq(Account) /\ settled \in Seq(Secrets)
      /\ Len(settled) = Len(accounts) /\ Len(accounts) \in Nat /\ n \in Nat
  <2>1. UNCHANGED <<profiled, recorded, sessions, links, hours, cutShort, crossed>>
    BY DEF SaveAccount
  <2>2. /\ AccountTypeOK /\ accounts \in Seq(Account) /\ settled \in Seq(Secrets)
        /\ Len(settled) = Len(accounts) /\ Len(accounts) \in Nat
    BY DEF AccountsInv, AccountTypeOK
  <2> QED
    BY <2>1, <2>2
<1>3. CASE Taken(it.email)
  <2>1. OnlyDoor(d) /\ door'[d] = Outside /\ door'[d].at = "outside"
        /\ UNCHANGED <<accounts, settled>>
    BY <1>2, <1>3, LeaveDoor DEF SaveAccount, Leave
  <2>2. DoorInv(d)'
    BY <2>1 DEF DoorInv
  <2>3. hours' \in Nat /\ (\A t \in sessions' : t.id \in Ids) /\ (\A l \in links' : l.id \in Ids)
    BY <1>2 DEF AccountTypeOK
  <2> QED
    BY <1>1, <1>2, <2>1, <2>2, <2>3, QuietInv
<1>4. CASE ~Taken(it.email)
  <2>1. /\ accounts' = Append(accounts, row) /\ settled' = Append(settled, it.secret)
        /\ door' = [door EXCEPT ![d].id = n, ![d].at = next]
    BY <1>4 DEF SaveAccount
  <2>2. /\ row \in Account /\ row.email = it.email /\ row.role = it.role /\ row.secret = it.secret
    BY <1>1 DEF Account
  <2>3. /\ there \in Registering /\ there.id = n /\ there.at = next
        /\ next \in {"profile", "account receipt"}
    BY <1>1, <1>2 DEF Registering
  <2>4. door' = [door EXCEPT ![d] = there]
    BY <2>1
  <2> HIDE DEF there, row
  <2>5. OnlyDoor(d) /\ door'[d] = there
    BY <1>2, <2>3, <2>4, DoorStep
  <2>6. /\ accounts' \in Seq(Account) /\ Len(accounts') = n
        /\ Ids' = Ids \cup {n} /\ n \notin Ids
        /\ accounts'[n] = row /\ \A i \in Ids : accounts'[i] = accounts[i]
    <3>1. accounts \in Seq(Account) /\ row \in Account
      BY <1>2, <2>2
    <3>2. /\ Append(accounts, row) \in Seq(Account) /\ Len(Append(accounts, row)) = n
          /\ DOMAIN Append(accounts, row) = DOMAIN accounts \cup {n} /\ n \notin DOMAIN accounts
          /\ Append(accounts, row)[n] = row
          /\ \A i \in DOMAIN accounts : Append(accounts, row)[i] = accounts[i]
      BY ONLY <3>1, Grown
    <3> QED
      BY <2>1, <3>2 DEF Ids
  <2>7. /\ settled' \in Seq(Secrets) /\ Len(settled') = n
        /\ settled'[n] = it.secret /\ \A i \in Ids : settled'[i] = settled[i]
    <3> DEFINE said == it.secret
    <3>1. settled \in Seq(Secrets) /\ said \in Secrets /\ settled' = Append(settled, said)
      BY <1>1, <1>2, <2>1
    <3>2. Len(settled) + 1 = n /\ DOMAIN settled = Ids
      BY <1>2 DEF Ids
    <3> HIDE DEF said
    <3>3. /\ Append(settled, said) \in Seq(Secrets) /\ Len(Append(settled, said)) = Len(settled) + 1
          /\ Append(settled, said)[Len(settled) + 1] = said
          /\ \A i \in DOMAIN settled : Append(settled, said)[i] = settled[i]
      BY ONLY <3>1, Grown
    <3> QED
      BY <3>1, <3>2, <3>3 DEF said
  <2>8. AccountTypeOK'
    BY <1>2, <2>5, <2>6, <2>7 DEF AccountTypeOK, OnlyDoor
  <2>9. \A e \in Doors : DoorInv(e)'
    <3>1. ASSUME NEW e \in Doors, e # d
          PROVE  DoorInv(e)'
      <4>1. DoorInv(e) /\ door'[e] = door[e]
        BY <2>5, <3>1 DEF AccountsInv, OnlyDoor
      <4>2. \A i \in Ids : i \in Ids' /\ accounts'[i] = accounts[i]
        BY <2>6
      <4> QED
        BY <4>1, <4>2 DEF DoorInv
    <3>2. DoorInv(d)'
      BY <2>3, <2>5, <2>6 DEF DoorInv
    <3> QED
      BY <3>1, <3>2
  <2>10. OneAccountPerEmail'
    <3>1. \A i \in Ids : accounts[i].email # it.email
      BY <1>4 DEF Taken
    <3> QED
      BY <2>2, <2>6, <3>1 DEF AccountsInv, OneAccountPerEmail
  <2>11. StrandedOnlyByStop'
    <3> SUFFICES ASSUME NEW i \in Ids', accounts'[i].role = "contributor", i \notin profiled,
                        i \notin cutShort
                 PROVE  \E e \in Doors : door'[e].at = "profile" /\ door'[e].id = i
      BY <1>2 DEF StrandedOnlyByStop, At
    <3>1. CASE i = n
      BY <2>2, <2>3, <2>5, <2>6, <3>1
    <3>2. CASE i # n
      <4>1. PICK e \in Doors : door[e].at = "profile" /\ door[e].id = i
        BY <2>6, <3>2 DEF AccountsInv, StrandedOnlyByStop, At
      <4>2. e # d
        BY <1>1, <4>1
      <4> QED
        BY <2>5, <4>1, <4>2 DEF OnlyDoor
    <3> QED
      BY <3>1, <3>2
  <2>12. ASSUME NEW i \in Ids', i \notin crossed
         PROVE  ResetInv(i)'
    <3>1. Resetting(i)' = Resetting(i) /\ d \notin Resetting(i)
      BY <1>1, <2>3, <2>5 DEF Resetting, OnlyDoor
    <3>2. CASE i = n
      <4>1. Resetting(i) = {}
        BY <2>6, <3>2 DEF Resetting, AccountsInv, DoorInv
      <4> QED
        BY <2>2, <2>6, <2>7, <3>1, <3>2, <4>1 DEF ResetInv
    <3>3. CASE i # n
      <4>1. ResetInv(i) /\ i \in Ids
        BY <2>6, <2>12, <3>3 DEF AccountsInv
      <4> QED
        BY <2>5, <2>6, <2>7, <3>1, <4>1 DEF ResetInv, OnlyDoor, Resetting
    <3> QED
      BY <3>2, <3>3
  <2> QED
    BY <1>2, <2>8, <2>9, <2>10, <2>11, <2>12 DEF AccountsInv
<1> QED
  BY <1>3, <1>4

\* A password is saved with the email and the role that were read.
LEMMA SavePasswordInv ==
  ASSUME AccountsInv, NEW d \in Doors, SavePassword(d)
  PROVE  AccountsInv'
<1> DEFINE k == door[d].id
           row == [door[d].row EXCEPT !.secret = door[d].secret]
<1>1. /\ AccountTypeOK /\ door[d] \in Renewing /\ door[d].at = "reset" /\ k \in Ids
      /\ door[d].secret \in Secrets /\ door[d].row \in Account
  BY DoorKinds DEF AccountsInv, SavePassword, At, Renewing, DoorInv
<1>2. /\ row \in Account /\ row.secret = door[d].secret
      /\ row.email = accounts[k].email /\ row.role = accounts[k].role
  BY <1>1 DEF AccountsInv, DoorInv, Account
<1>3. /\ accounts' = [accounts EXCEPT ![k] = row]
      /\ UNCHANGED <<profiled, recorded, sessions, links, hours, cutShort, settled, crossed>>
  BY DEF SavePassword
<1> HIDE DEF row
<1>4. /\ accounts' \in Seq(Account) /\ Len(accounts') = Len(accounts) /\ Ids' = Ids
      /\ accounts'[k] = row /\ \A i \in Ids \ {k} : accounts'[i] = accounts[i]
  BY <1>1, <1>2, <1>3 DEF AccountTypeOK, Ids
<1>5. /\ OnlyDoor(d) /\ door'[d].at = "reset receipt" /\ door'[d].id = k
      /\ door'[d].secret = door[d].secret /\ door'[d].row = door[d].row
  BY <1>1, OnwardReset DEF SavePassword, Onward
<1>6. \A i \in Ids : accounts'[i].email = accounts[i].email /\ accounts'[i].role = accounts[i].role
  BY <1>2, <1>4
<1>7. AccountTypeOK'
  BY <1>1, <1>3, <1>4, <1>5 DEF AccountTypeOK, OnlyDoor
<1>8. \A e \in Doors : DoorInv(e)'
  <2>1. ASSUME NEW e \in Doors, e # d
        PROVE  DoorInv(e)'
    <3>1. DoorInv(e) /\ door'[e] = door[e]
      BY <1>5, <2>1 DEF AccountsInv, OnlyDoor
    <3> QED
      BY <1>4, <1>6, <3>1 DEF DoorInv
  <2>2. DoorInv(d)'
    BY ZenonT(60), <1>1, <1>4, <1>5, <1>6 DEF AccountsInv, DoorInv
  <2> QED
    BY <2>1, <2>2
<1>9. OneAccountPerEmail'
  BY <1>4, <1>6 DEF AccountsInv, OneAccountPerEmail
<1>10. StrandedOnlyByStop'
  <2> SUFFICES ASSUME NEW i \in Ids, accounts[i].role = "contributor", i \notin profiled,
                      i \notin cutShort
               PROVE  \E e \in Doors : door'[e].at = "profile" /\ door'[e].id = i
    BY <1>3, <1>4, <1>6 DEF StrandedOnlyByStop, At
  <2>1. PICK e \in Doors : door[e].at = "profile" /\ door[e].id = i
    BY DEF AccountsInv, StrandedOnlyByStop, At
  <2>2. e # d
    BY <1>1, <2>1
  <2> QED
    BY <1>5, <2>1, <2>2 DEF OnlyDoor
<1>11. ASSUME NEW i \in Ids, i \notin crossed
       PROVE  ResetInv(i)'
  <2>1. ResetInv(i)
    BY <1>11 DEF AccountsInv
  <2>2. Resetting(i)' = Resetting(i)
    BY <1>1, <1>5 DEF Resetting, OnlyDoor
  <2>3. CASE i = k
    <3>1. Resetting(i) = {d}
      BY <1>1, <2>1, <2>3 DEF Resetting, ResetInv
    <3>2. accounts'[i].secret = door'[d].secret /\ door'[d].at # "reset"
      BY <1>2, <1>4, <1>5, <2>3
    <3>3. Resetting(i)' = {d}
      BY <2>2, <3>1
    <3> QED
      BY <3>2, <3>3 DEF ResetInv
  <2>4. CASE i # k
    <3>1. d \notin Resetting(i)
      BY <2>4 DEF Resetting
    <3> QED
      BY <1>3, <1>4, <1>5, <2>1, <2>2, <2>4, <3>1 DEF ResetInv, OnlyDoor, Resetting
  <2> QED
    BY <2>3, <2>4
<1> QED
  BY <1>3, <1>4, <1>7, <1>8, <1>9, <1>10, <1>11 DEF AccountsInv

\* The caller is told the password that the row holds.
LEMMA RecordResetInv ==
  ASSUME AccountsInv, NEW d \in Doors, RecordReset(d)
  PROVE  AccountsInv'
<1> DEFINE k == door[d].id
<1>1. /\ AccountTypeOK /\ door[d].at = "reset receipt" /\ k \in Ids /\ door[d].secret \in Secrets
  BY DoorKinds DEF AccountsInv, RecordReset, At, Renewing, DoorInv
<1>2. /\ settled' = [settled EXCEPT ![k] = door[d].secret]
      /\ UNCHANGED <<accounts, profiled, sessions, links, hours, cutShort, crossed>>
      /\ OnlyDoor(d) /\ door'[d].at = "outside"
  BY <1>1, LeaveDoor DEF RecordReset, Leave
<1>3. /\ settled' \in Seq(Secrets) /\ Len(settled') = Len(accounts) /\ Ids' = Ids
      /\ settled'[k] = door[d].secret /\ \A i \in Ids \ {k} : settled'[i] = settled[i]
  <2> DEFINE said == door[d].secret
             s == [settled EXCEPT ![k] = said]
  <2>1. Ids' = Ids
    BY <1>2 DEF Ids
  <2>2. settled \in Seq(Secrets) /\ Len(settled) = Len(accounts) /\ accounts \in Seq(Account)
    BY <1>1 DEF AccountTypeOK
  <2>3. DOMAIN settled = Ids
    BY <2>2 DEF Ids
  <2>4. settled \in Seq(Secrets) /\ k \in DOMAIN settled /\ said \in Secrets
    BY <1>1, <2>2, <2>3
  <2> HIDE DEF k, said
  <2>5. /\ s \in Seq(Secrets) /\ Len(s) = Len(settled) /\ s[k] = said
        /\ \A i \in DOMAIN settled \ {k} : s[i] = settled[i]
    BY ONLY <2>4, Replaced
  <2> QED
    BY <1>2, <2>1, <2>2, <2>3, <2>5 DEF k, said
<1>4. AccountTypeOK'
  BY <1>1, <1>2, <1>3 DEF AccountTypeOK, OnlyDoor
<1>5. \A e \in Doors : DoorInv(e)'
  BY ZenonT(60), <1>2, <1>3 DEF AccountsInv, OnlyDoor, DoorInv
<1>6. OneAccountPerEmail'
  BY <1>2 DEF AccountsInv, OneAccountPerEmail, Ids
<1>7. StrandedOnlyByStop'
  <2> SUFFICES ASSUME NEW i \in Ids, accounts[i].role = "contributor", i \notin profiled,
                      i \notin cutShort
               PROVE  \E e \in Doors : door'[e].at = "profile" /\ door'[e].id = i
    BY <1>2, <1>3 DEF StrandedOnlyByStop, At
  <2>1. PICK e \in Doors : door[e].at = "profile" /\ door[e].id = i
    BY DEF AccountsInv, StrandedOnlyByStop, At
  <2>2. e # d
    BY <1>1, <2>1
  <2> QED
    BY <1>2, <2>1, <2>2 DEF OnlyDoor
<1>8. ASSUME NEW i \in Ids, i \notin crossed
      PROVE  ResetInv(i)'
  <2>1. ResetInv(i)
    BY <1>8 DEF AccountsInv
  <2>2. Resetting(i)' = Resetting(i) \ {d}
    BY <1>2 DEF Resetting, OnlyDoor
  <2>3. CASE i = k
    <3>1. Resetting(i) = {d} /\ accounts[i].secret = door[d].secret
      BY <1>1, <2>1, <2>3 DEF Resetting, ResetInv
    <3> QED
      BY <1>2, <1>3, <2>2, <2>3, <3>1 DEF ResetInv
  <2>4. CASE i # k
    <3>1. d \notin Resetting(i)
      BY <2>4 DEF Resetting
    <3> QED
      BY <1>2, <1>3, <2>1, <2>2, <2>4, <3>1 DEF ResetInv, OnlyDoor, Resetting
  <2> QED
    BY <2>3, <2>4
<1> QED
  BY <1>2, <1>3, <1>4, <1>5, <1>6, <1>7, <1>8 DEF AccountsInv

-----------------------------------------------------------------------------
(* Desk accounts: the other steps.                                            *)

\* No papers are given out but for accounts.
LEMMA PapersInv ==
  ASSUME AccountsInv, NEW d \in Doors
  PROVE  /\ AccountTypeOK /\ hours \in Nat /\ DoorInv(d)
         /\ \A t \in sessions : t.id \in Ids
         /\ \A l \in links : l.id \in Ids
BY DEF AccountsInv, AccountTypeOK

\* A visitor begins to register.
LEMMA RegisterInv ==
  ASSUME AccountsInv, NEW d \in Doors, NEW email \in Emails, NEW secret \in Secrets, NEW role,
         Register(d, email, secret, role)
  PROVE  AccountsInv'
<1> DEFINE there == [at |-> "account", id |-> 0, secret |-> secret, email |-> email, role |-> role]
<1>1. /\ door' = [door EXCEPT ![d] = there] /\ role \in SelfRegisterable /\ door[d] = Outside
      /\ UNCHANGED <<accounts, profiled, recorded, sessions, links, hours, cutShort, settled, crossed>>
  BY DEF Register, Enter
<1>2. there \in Registering /\ there.at = "account"
  BY <1>1 DEF Registering
<1>3. Outside.at = "outside"
  BY DEF Outside
<1> HIDE DEF there
<1>4. OnlyDoor(d) /\ door'[d] = there
  BY <1>1, <1>2, PapersInv, DoorStep
<1>5. DoorInv(d)'
  BY <1>2, <1>4 DEF DoorInv
<1> QED
  BY <1>1, <1>2, <1>3, <1>4, <1>5, PapersInv, QuietInv

\* The profile's receipt.
LEMMA RecordProfileInv ==
  ASSUME AccountsInv, NEW d \in Doors, RecordProfile(d)
  PROVE  AccountsInv'
<1>1. /\ door[d].at = "profile receipt" /\ door' = [door EXCEPT ![d].at = "account receipt"]
      /\ UNCHANGED <<accounts, profiled, sessions, links, hours, cutShort, settled, crossed>>
  BY DEF RecordProfile, At, Onward
<1>2. OnlyDoor(d) /\ door'[d].at = "account receipt" /\ door'[d].id = door[d].id
  BY <1>1, PapersInv, OnwardRegistering
<1>3. DoorInv(d)'
  BY <1>1, <1>2, PapersInv DEF DoorInv, Ids
<1> QED
  BY <1>1, <1>2, <1>3, PapersInv, QuietInv

\* The account's receipt, with the token that signs the visitor in.
LEMMA RecordAccountInv ==
  ASSUME AccountsInv, NEW d \in Doors, RecordAccount(d)
  PROVE  AccountsInv'
<1>1. /\ door[d].at = "account receipt" /\ door' = [door EXCEPT ![d] = Outside]
      /\ sessions' = sessions \cup {[id |-> door[d].id, till |-> hours + SessionLife]}
      /\ UNCHANGED <<accounts, profiled, links, hours, cutShort, settled, crossed>>
  BY DEF RecordAccount, At, Leave, IssueToken
<1>2. OnlyDoor(d) /\ door'[d].at = "outside"
  BY <1>1, PapersInv, LeaveDoor
<1>3. DoorInv(d)' /\ door[d].id \in Ids
  BY <1>1, <1>2, PapersInv DEF DoorInv
<1>4. \A t \in sessions' : t.id \in Ids
  <2> DEFINE token == [id |-> door[d].id, till |-> hours + SessionLife]
  <2>1. sessions' = sessions \cup {token} /\ token.id = door[d].id
    BY <1>1
  <2> HIDE DEF token
  <2> QED
    BY <1>3, <2>1, PapersInv
<1> QED
  BY <1>1, <1>2, <1>3, <1>4, PapersInv, QuietInv

\* A reset reads the row; if another is under way on it, the two cross.
LEMMA BeginResetInv ==
  ASSUME AccountsInv, NEW d \in Doors, NEW l \in links, NEW secret \in Secrets,
         BeginReset(d, l, secret)
  PROVE  AccountsInv'
<1> DEFINE row == accounts[l.id]
           there == [at |-> "reset", id |-> l.id, secret |-> secret, row |-> row]
<1>1. /\ door' = [door EXCEPT ![d] = there] /\ door[d] = Outside
      /\ crossed' = IF Resetting(l.id) # {} THEN crossed \cup {l.id} ELSE crossed
      /\ UNCHANGED <<accounts, profiled, recorded, sessions, links, hours, cutShort, settled>>
  BY DEF BeginReset, Enter
<1>2. l.id \in Ids /\ l.id \in Nat /\ row \in Account
  BY PapersInv DEF AccountTypeOK, Ids
<1>3. /\ there \in Renewing /\ there.at = "reset" /\ there.id = l.id /\ there.row = row
  BY <1>2 DEF Renewing
<1>4. Outside.at = "outside"
  BY DEF Outside
<1> HIDE DEF there
<1>5. OnlyDoor(d) /\ door'[d] = there
  BY <1>1, <1>3, PapersInv, DoorStep
<1>6. DoorInv(d)'
  BY <1>1, <1>2, <1>3, <1>5 DEF DoorInv, Ids
<1>7. /\ door[d].at = "outside" /\ door'[d].at = "reset" /\ door'[d].id = l.id
      /\ Resetting(l.id) = {} \/ l.id \in crossed'
      /\ crossed \subseteq crossed' /\ cutShort' = cutShort
  BY <1>1, <1>3, <1>4, <1>5
<1>8. UNCHANGED <<accounts, settled, profiled>> /\ hours' \in Nat
      /\ (\A t \in sessions' : t.id \in Ids) /\ \A k \in links' : k.id \in Ids
  BY <1>1, PapersInv
<1> QED
  BY <1>5, <1>6, <1>7, <1>8, QuietInv

\* A request stops: a registration may strand, a reset counts as crossed.
LEMMA BreakInv ==
  ASSUME AccountsInv, NEW d \in Doors, Break(d)
  PROVE  AccountsInv'
<1>1. /\ door' = [door EXCEPT ![d] = Outside]
      /\ cutShort' = IF door[d].at = "profile" THEN cutShort \cup {door[d].id} ELSE cutShort
      /\ crossed' = IF door[d].at \in {"reset", "reset receipt"} THEN crossed \cup {door[d].id}
                    ELSE crossed
      /\ UNCHANGED <<accounts, profiled, recorded, sessions, links, hours, settled>>
  BY DEF Break, Leave
<1>2. OnlyDoor(d) /\ door'[d].at = "outside"
  BY <1>1, PapersInv, LeaveDoor
<1>3. DoorInv(d)'
  BY <1>2 DEF DoorInv
<1> QED
  BY <1>1, <1>2, <1>3, PapersInv, QuietInv

\* The profile is there before the request goes on from it.
LEMMA RegisterProfileInv ==
  ASSUME AccountsInv, NEW d \in Doors, RegisterProfile(d)
  PROVE  AccountsInv'
<1>1. /\ door[d].at = "profile" /\ door' = [door EXCEPT ![d].at = "profile receipt"]
      /\ profiled' = profiled \cup {door[d].id}
      /\ UNCHANGED <<accounts, recorded, sessions, links, hours, cutShort, settled, crossed>>
  BY DEF RegisterProfile, At, Onward
<1>2. OnlyDoor(d) /\ door'[d].at = "profile receipt" /\ door'[d].id = door[d].id
  BY <1>1, PapersInv, OnwardRegistering
<1>3. \A e \in Doors : DoorInv(e)'
  <2>1. ASSUME NEW e \in Doors, e # d
        PROVE  DoorInv(e)'
    BY <1>1, <1>2, <2>1 DEF AccountsInv, OnlyDoor, DoorInv, Ids
  <2>2. DoorInv(d)'
    BY <1>1, <1>2, PapersInv DEF DoorInv, Ids
  <2> QED
    BY <2>1, <2>2
<1>4. AccountTypeOK' /\ OneAccountPerEmail' /\ Ids' = Ids
  BY <1>1, <1>2 DEF AccountsInv, AccountTypeOK, OnlyDoor, OneAccountPerEmail, Ids
<1>5. StrandedOnlyByStop'
  <2> SUFFICES ASSUME NEW i \in Ids, accounts[i].role = "contributor", i \notin profiled',
                      i \notin cutShort
               PROVE  \E e \in Doors : door'[e].at = "profile" /\ door'[e].id = i
    BY <1>1, <1>4 DEF StrandedOnlyByStop, At
  <2>1. PICK e \in Doors : door[e].at = "profile" /\ door[e].id = i
    BY <1>1 DEF AccountsInv, StrandedOnlyByStop, At
  <2>2. e # d
    BY <1>1, <2>1
  <2> QED
    BY <1>2, <2>1, <2>2 DEF OnlyDoor
<1>6. ASSUME NEW i \in Ids, i \notin crossed
      PROVE  ResetInv(i)'
  <2>1. ResetInv(i)
    BY <1>6 DEF AccountsInv
  <2>2. Resetting(i)' = Resetting(i) /\ d \notin Resetting(i)
    BY <1>1, <1>2 DEF Resetting, OnlyDoor
  <2> QED
    BY <1>1, <1>2, <2>1, <2>2 DEF ResetInv, OnlyDoor, Resetting
<1> QED
  BY <1>1, <1>3, <1>4, <1>5, <1>6 DEF AccountsInv

\* Signing in, asking for a link and the clock touch no row and no request.
LEMMA PaperStepInv ==
  ASSUME AccountsInv, UNCHANGED <<accounts, profiled, door, cutShort, settled, crossed>>,
         hours' \in Nat, \A t \in sessions' : t.id \in Ids, \A l \in links' : l.id \in Ids
  PROVE  AccountsInv'
<1>1. AccountTypeOK' /\ OneAccountPerEmail' /\ Ids' = Ids /\ \A i : Resetting(i)' = Resetting(i)
  BY DEF AccountsInv, AccountTypeOK, OneAccountPerEmail, Ids, Resetting
<1>2. \A d \in Doors : DoorInv(d)'
  BY <1>1 DEF AccountsInv, DoorInv
<1>3. StrandedOnlyByStop'
  BY <1>1 DEF AccountsInv, StrandedOnlyByStop, At
<1>4. \A i \in Ids \ crossed : ResetInv(i)'
  BY <1>1 DEF AccountsInv, ResetInv
<1> QED
  BY <1>1, <1>2, <1>3, <1>4 DEF AccountsInv

\* Every step keeps the invariant of the accounts.
LEMMA AccountsStep == AccountsInv /\ [AccountsNext]_accountVars => AccountsInv'
<1> SUFFICES ASSUME AccountsInv, [AccountsNext]_accountVars  PROVE AccountsInv'
  OBVIOUS
<1>0. /\ hours \in Nat /\ (\A t \in sessions : t.id \in Ids) /\ (\A l \in links : l.id \in Ids)
  BY DEF AccountsInv, AccountTypeOK
<1>1. ASSUME NEW d \in Doors, NEW e \in Emails, NEW s \in Secrets, NEW r \in SignUpRoles,
             Register(d, e, s, r)
      PROVE  AccountsInv'
  BY <1>1, RegisterInv
<1>2. ASSUME NEW d \in Doors,
             SaveAccount(d) \/ RegisterProfile(d) \/ RecordProfile(d) \/ RecordAccount(d)
      PROVE  AccountsInv'
  BY <1>2, SaveAccountInv, RegisterProfileInv, RecordProfileInv, RecordAccountInv
<1>3. ASSUME NEW d \in Doors, NEW l \in links, NEW s \in Secrets, BeginReset(d, l, s)
      PROVE  AccountsInv'
  BY <1>3, BeginResetInv
<1>4. ASSUME NEW d \in Doors, SavePassword(d) \/ RecordReset(d) \/ Break(d)
      PROVE  AccountsInv'
  BY <1>4, SavePasswordInv, RecordResetInv, BreakInv
<1>5. ASSUME NEW e \in Emails, NEW s \in Secrets, SignIn(e, s)
      PROVE  AccountsInv'
  <2>1. PICK i \in Ids : IssueToken(i)
    BY <1>5 DEF SignIn
  <2>2. \A t \in sessions' : t.id \in Ids
    BY <1>0, <2>1 DEF IssueToken
  <2>3. UNCHANGED <<accounts, profiled, links, hours, door, cutShort, settled, crossed>>
    BY <1>5 DEF SignIn
  <2> QED
    BY <1>0, <2>2, <2>3, PaperStepInv
<1>6. ASSUME NEW e \in Emails, RequestReset(e)
      PROVE  AccountsInv'
  <2>1. PICK i \in Ids : links' = links \cup {[id |-> i, till |-> hours + LinkLife]}
    BY <1>6 DEF RequestReset
  <2>2. \A l \in links' : l.id \in Ids
    BY <1>0, <2>1
  <2>3. UNCHANGED <<accounts, profiled, sessions, hours, door, cutShort, settled, crossed>>
    BY <1>6 DEF RequestReset
  <2> QED
    BY <1>0, <2>2, <2>3, PaperStepInv
<1>7. CASE AccountsTick
  BY <1>0, <1>7, PaperStepInv DEF AccountsTick
<1>8. CASE UNCHANGED accountVars
  BY <1>0, <1>8, PaperStepInv DEF accountVars
<1> QED
  BY <1>1, <1>2, <1>3, <1>4, <1>5, <1>6, <1>7, <1>8 DEF AccountsNext

\* It holds when nobody has registered.
LEMMA AccountsStart == AccountsInit => AccountsInv
<1> SUFFICES ASSUME AccountsInit  PROVE AccountsInv
  OBVIOUS
<1>1. AccountTypeOK /\ Ids = {}
  BY DEF AccountsInit, AccountTypeOK, Ids
<1>2. \A d \in Doors : DoorInv(d)
  BY DEF AccountsInit, DoorInv, Outside
<1> QED
  BY <1>1, <1>2 DEF AccountsInv, OneAccountPerEmail, StrandedOnlyByStop

\* It has what the accounts promise as a part, or as its outcome for a quiet account.
LEMMA AccountsTold == AccountsInv => AccountsHold
<1> SUFFICES ASSUME AccountsInv  PROVE AccountsHold
  OBVIOUS
<1>1. HoldersAreKnown
  BY DEF AccountsInv, AccountTypeOK, HoldersAreKnown, StrandedOnlyByStop
<1>2. PasswordIsTheLastTold
  BY DEF AccountsInv, PasswordIsTheLastTold, ResetInv
<1> QED
  BY <1>1, <1>2 DEF AccountsInv, AccountsHold

\* One account for an email, no contributor without a profile but where a registration
\* stopped, and the password of an account is the last one its owner was told.
THEOREM AccountsHoldAlways == AccountsSpec => []AccountsHold
<1>1. AccountsSpec => []AccountsInv
  BY AccountsStart, AccountsStep, PTL DEF AccountsSpec
<1> QED
  BY <1>1, AccountsTold, PTL

-----------------------------------------------------------------------------
(* Desks: the inductive invariant.                                            *)

Picks == [discipline : Disciplines, agent : Agents]
Things == Picks \cup [edit : {"profile_updated", "promoted"}] \cup [item : Nat]
          \cup [host : {"named"}]
Happenings == {"run", "shift_report", "investigate", "analyze", "explain", "agent_added",
               "profile_updated", "promoted"} \cup Receipted

Provisioning == [at : {"venture", "milestone", "desk"}, seat : Seats,
                 role : RoleWords \cup {"it_ops"}]
Editing == [at : {"grant", "profile"}, seat : Seats, what : Things, row : SUBSET Picks]
Reporting == [at : {"log", "receipt"}, seat : Seats, what : Things, event : Happenings]
Jobs == {AtRest} \cup Provisioning \cup Editing \cup Reporting

DeskTypeOK ==
    /\ profiles \in [Seats -> {NoProfile} \cup SUBSET Picks]
    /\ desks \in [Seats -> RoleWords \cup {"it_ops", NoDesk}]
    /\ clerk \in [Clerks -> Jobs]
    /\ items \in Nat
    /\ shelf \subseteq [id : Nat, seat : Seats, kind : Receipted \cup {"query", "runbook"}]

\* A profile that is there, and a pick on it.
Has(s, p) == profiles[s] # NoProfile /\ p \in profiles[s]

Known(p) == p \in Picks /\ p.agent \in AgentCatalog[p.discipline]

\* What a request that edits profiles holds: what was granted before and, unless
\* the saves of two requests met, all that the profile has.
EditInv(c) ==
    clerk[c].at \in {"grant", "profile"} =>
      LET s == clerk[c].seat IN
      /\ clerk[c].at = "grant" => Known(clerk[c].what) /\ clerk[c].what \in clerk[c].row
      /\ clerk[c].at = "profile" => clerk[c].what \in [edit : {"profile_updated", "promoted"}]
      /\ \A p \in clerk[c].row :
           <<s, p>> \in granted \/ (clerk[c].at = "grant" /\ p = clerk[c].what)
      /\ s \notin interleaved => \A p \in Picks : p \in profiles[s] => p \in clerk[c].row

ClerkInv(c) ==
    /\ clerk[c].at \in {"milestone", "desk"} => <<clerk[c].seat, "venture">> \in ground
    /\ clerk[c].at = "desk" => <<clerk[c].seat, "milestone">> \in ground
    /\ EditInv(c)
    /\ clerk[c].at = "log" => clerk[c].event = "run"
    /\ clerk[c].at = "log" =>
         \/ clerk[c].what.agent \in BaseKit(clerk[c].what.discipline).agents
         \/ <<clerk[c].seat, clerk[c].what>> \in granted
    /\ clerk[c].at = "receipt" /\ clerk[c].event = "agent_added" =>
         <<clerk[c].seat, clerk[c].what>> \in granted

GrantInv ==
    /\ \A s \in Seats, p \in Picks : Has(s, p) => <<s, p>> \in granted
    /\ \A s \in Seats : \A p : <<s, p>> \in granted =>
         /\ Known(p)
         /\ s \in interleaved \/ p \in profiles[s]
    /\ \A s \in Seats : \A p : <<s, "agent_added", p>> \in told => <<s, p>> \in granted

DesksInv ==
    /\ DeskTypeOK /\ DesksHaveGround /\ RunsFitTheRoster /\ KeptIsReceipted
    /\ GrantInv
    /\ \A c \in Clerks : ClerkInv(c)

-----------------------------------------------------------------------------
(* Desks: one request moves.                                                  *)

OnlyClerk(c) ==
    /\ clerk' \in [Clerks -> Jobs]
    /\ \A e \in Clerks \ {c} : clerk'[e] = clerk[e]

\* A request that moves leaves the others where they are.
LEMMA ClerkStep ==
  ASSUME DeskTypeOK, NEW c \in Clerks, NEW job \in Jobs, clerk' = [clerk EXCEPT ![c] = job]
  PROVE  OnlyClerk(c) /\ clerk'[c] = job
BY DEF DeskTypeOK, OnlyClerk

\* What a request holds is told by its stage.
LEMMA JobKinds ==
  ASSUME DeskTypeOK, NEW c \in Clerks
  PROVE  /\ clerk[c] \in Jobs
         /\ \/ clerk[c] = AtRest /\ clerk[c].at = "rest"
            \/ clerk[c] \in Provisioning /\ clerk[c].at \in {"venture", "milestone", "desk"}
               /\ clerk[c].seat \in Seats
            \/ clerk[c] \in Editing /\ clerk[c].at \in {"grant", "profile"}
               /\ clerk[c].seat \in Seats /\ clerk[c].row \in SUBSET Picks
            \/ clerk[c] \in Reporting /\ clerk[c].at \in {"log", "receipt"}
               /\ clerk[c].seat \in Seats
<1>1. AtRest.at = "rest"
  BY DEF AtRest
<1>2. clerk[c] \in Jobs
  BY DEF DeskTypeOK
<1>3. \A j \in Provisioning : j.at \in {"venture", "milestone", "desk"} /\ j.seat \in Seats
  BY DEF Provisioning
<1>4. \A j \in Editing : j.at \in {"grant", "profile"} /\ j.seat \in Seats /\ j.row \in SUBSET Picks
  BY DEF Editing
<1>5. \A j \in Reporting : j.at \in {"log", "receipt"} /\ j.seat \in Seats
  BY DEF Reporting
<1> QED
  BY <1>1, <1>2, <1>3, <1>4, <1>5 DEF Jobs

\* A receipt that is about to be written is not lost by the steps of the others.
Pending(r) ==
    \/ r \in told \cup dropped
    \/ \E c \in Clerks :
         clerk[c].at = "receipt" /\ <<clerk[c].seat, clerk[c].event, clerk[c].what>> = r

\* A step keeps what is kept receipted, if it writes or drops the receipt that it takes from
\* a request and tells of what it adds.
LEMMA KeptPending ==
  ASSUME DesksInv, NEW c \in Clerks, OnlyClerk(c), told \subseteq told', dropped \subseteq dropped',
         clerk[c].at = "receipt" =>
           <<clerk[c].seat, clerk[c].event, clerk[c].what>> \in told' \cup dropped',
         \A i \in shelf' : i \in shelf \/ (i.kind \in Receipted => Pending(<<i.seat, i.kind, [item |-> i.id]>>)')
  PROVE  KeptIsReceipted'
<1> SUFFICES ASSUME NEW i \in shelf', i.kind \in Receipted
             PROVE  Pending(<<i.seat, i.kind, [item |-> i.id]>>)'
  BY DEF KeptIsReceipted, Pending, Holds
<1>0. ASSUME NEW r, Pending(r)
      PROVE  Pending(r)'
  <2>1. CASE r \in told \cup dropped
    BY <2>1 DEF Pending
  <2>2. ASSUME NEW e \in Clerks, clerk[e].at = "receipt",
               <<clerk[e].seat, clerk[e].event, clerk[e].what>> = r
        PROVE  Pending(r)'
    <3>1. CASE e = c
      BY <2>2, <3>1 DEF Pending
    <3>2. CASE e # c
      BY <2>2, <3>2 DEF Pending, OnlyClerk
    <3> QED
      BY <3>1, <3>2
  <2> QED
    BY <1>0, <2>1, <2>2 DEF Pending
<1>1. CASE i \in shelf
  <2>1. Pending(<<i.seat, i.kind, [item |-> i.id]>>)
    BY <1>1 DEF DesksInv, KeptIsReceipted, Pending, Holds
  <2> QED
    BY <1>0, <2>1
<1>2. CASE i \notin shelf
  BY <1>2
<1> QED
  BY <1>1, <1>2

\* A step that saves no profile and writes no receipt.
LEMMA QuietDesk ==
  ASSUME DesksInv, NEW c \in Clerks, OnlyClerk(c),
         UNCHANGED <<profiles, interleaved, granted, told>>, dropped \subseteq dropped',
         clerk[c].at = "receipt" => <<clerk[c].seat, clerk[c].event, clerk[c].what>> \in dropped',
         ground \subseteq ground', items' \in Nat,
         desks' \in [Seats -> RoleWords \cup {"it_ops", NoDesk}], DesksHaveGround',
         shelf' \subseteq [id : Nat, seat : Seats, kind : Receipted \cup {"query", "runbook"}],
         \A i \in shelf' : i \in shelf \/ (i.kind \in Receipted => Pending(<<i.seat, i.kind, [item |-> i.id]>>)'),
         RunsFitTheRoster', ClerkInv(c)'
  PROVE  DesksInv'
<1>1. DeskTypeOK'
  BY DEF DesksInv, DeskTypeOK, OnlyClerk
<1>2. KeptIsReceipted'
  BY KeptPending
<1>3. GrantInv'
  BY DEF DesksInv, GrantInv, Has, Known
<1>4. ASSUME NEW e \in Clerks, e # c
      PROVE  ClerkInv(e)'
  <2>1. ClerkInv(e) /\ clerk'[e] = clerk[e]
    BY <1>4 DEF DesksInv, OnlyClerk
  <2>2. EditInv(e)'
    BY <2>1 DEF ClerkInv, EditInv, Has, Known
  <2> QED
    BY <2>1, <2>2 DEF ClerkInv
<1> QED
  BY <1>1, <1>2, <1>3, <1>4 DEF DesksInv

-----------------------------------------------------------------------------
(* Desks: the actions.                                                        *)

\* What the invariant says of one request.
LEMMA DeskFacts ==
  ASSUME DesksInv, NEW c \in Clerks
  PROVE  /\ DeskTypeOK /\ ClerkInv(c) /\ DesksHaveGround /\ RunsFitTheRoster
         /\ desks \in [Seats -> RoleWords \cup {"it_ops", NoDesk}] /\ items \in Nat
         /\ profiles \in [Seats -> {NoProfile} \cup SUBSET Picks]
         /\ shelf \subseteq [id : Nat, seat : Seats, kind : Receipted \cup {"query", "runbook"}]
BY DEF DesksInv, DeskTypeOK

\* A request begins; nothing else moves.
LEMMA BeginInv ==
  ASSUME DesksInv, NEW c \in Clerks, NEW job \in Jobs, Starts(c, job), ClerkInv(c)',
         UNCHANGED <<ground, desks, profiles, runs, shelf, told, items, interleaved, granted, dropped>>
  PROVE  DesksInv'
<1>1. OnlyClerk(c) /\ clerk[c].at = "rest"
  <2>1. clerk[c] = AtRest /\ clerk' = [clerk EXCEPT ![c] = job]
    BY DEF Starts
  <2>2. AtRest.at = "rest"
    BY DEF AtRest
  <2> QED
    BY <2>1, <2>2, DeskFacts, ClerkStep
<1>2. DesksHaveGround' /\ RunsFitTheRoster'
  BY DeskFacts DEF DesksHaveGround, RunsFitTheRoster
<1> QED
  BY <1>1, <1>2, DeskFacts, QuietDesk

\* A visitor asks for a desk: on from the venture, or from the desk when there is one.
LEMMA MyDeskInv ==
  ASSUME DesksInv, NEW c \in Clerks, NEW s \in Seats, NEW word \in RoleWords, MyDesk(c, s, word)
  PROVE  DesksInv'
<1> DEFINE role == IF word = "" THEN "it_ops" ELSE word
           stage == IF Owns(s) THEN "desk" ELSE "venture"
           job == [at |-> stage, seat |-> s, role |-> role]
<1>1. Starts(c, job)
      /\ UNCHANGED <<ground, desks, profiles, runs, shelf, told, items, interleaved, granted, dropped>>
  BY DEF MyDesk
<1>2. job \in Provisioning /\ job.at = stage /\ job.seat = s /\ stage \in {"desk", "venture"}
      /\ (stage = "desk" => Owns(s))
  BY DEF Provisioning
<1>3. job \in Jobs
  BY <1>2 DEF Jobs
<1> HIDE DEF job, stage
<1>4. clerk'[c] = job
  BY <1>1, <1>3, DeskFacts, ClerkStep DEF Starts
<1>5. stage = "desk" => {<<s, "venture">>, <<s, "milestone">>} \subseteq ground
  BY <1>2, DeskFacts DEF DesksHaveGround, Owns
<1>6. ClerkInv(c)'
  BY <1>1, <1>2, <1>4, <1>5 DEF ClerkInv, EditInv
<1> QED
  BY <1>1, <1>3, <1>6, BeginInv

\* A row below the desk's is put.
LEMMA PutGroundInv ==
  ASSUME DesksInv, NEW c \in Clerks, PutGround(c)
  PROVE  DesksInv'
<1> DEFINE next == IF clerk[c].at = "venture" THEN "milestone" ELSE "desk"
           job == [clerk[c] EXCEPT !.at = next]
<1>1. /\ clerk[c].at \in {"venture", "milestone"} /\ clerk' = [clerk EXCEPT ![c] = job]
      /\ ground' = ground \cup {<<clerk[c].seat, clerk[c].at>>}
      /\ UNCHANGED <<desks, profiles, runs, shelf, told, items, interleaved, granted, dropped>>
  BY DEF PutGround, Holds, Moves
<1>2. clerk[c] \in Provisioning
  BY <1>1, JobKinds, DeskFacts
<1>3. job \in Provisioning /\ job.at = next /\ job.seat = clerk[c].seat
  BY <1>2 DEF Provisioning
<1>4. job \in Jobs
  BY <1>3 DEF Jobs
<1> HIDE DEF job
<1>5. OnlyClerk(c) /\ clerk'[c] = job
  BY <1>1, <1>4, DeskFacts, ClerkStep
<1>6. ClerkInv(c)'
  <2>1. clerk'[c].seat = clerk[c].seat /\ clerk'[c].at \in {"milestone", "desk"}
        /\ (clerk'[c].at = "desk" => clerk[c].at = "milestone")
        /\ (clerk'[c].at = "milestone" => clerk[c].at = "venture")
    BY <1>1, <1>3, <1>5
  <2>2. clerk[c].at = "milestone" => <<clerk[c].seat, "venture">> \in ground
    BY DeskFacts DEF ClerkInv
  <2>3. <<clerk'[c].seat, "venture">> \in ground'
    BY <1>1, <2>1, <2>2
  <2>4. clerk'[c].at = "desk" => <<clerk'[c].seat, "milestone">> \in ground'
    BY <1>1, <2>1
  <2> QED
    BY <2>1, <2>3, <2>4 DEF ClerkInv, EditInv
<1>7. DesksHaveGround' /\ RunsFitTheRoster' /\ ground \subseteq ground'
  BY <1>1, DeskFacts DEF DesksHaveGround, RunsFitTheRoster
<1> QED
  BY <1>1, <1>5, <1>6, <1>7, DeskFacts, QuietDesk

\* A request ends; what it was about to tell is told to nobody.
LEMMA RestInv ==
  ASSUME DesksInv, NEW c \in Clerks, Ends(c)
  PROVE  OnlyClerk(c) /\ clerk'[c] = AtRest /\ ClerkInv(c)'
<1>1. AtRest \in Jobs /\ AtRest.at = "rest"
  BY DEF Jobs, AtRest
<1>2. OnlyClerk(c) /\ clerk'[c] = AtRest
  BY <1>1, DeskFacts, ClerkStep DEF Ends
<1> QED
  BY <1>1, <1>2 DEF ClerkInv, EditInv

\* The desk's row is put, above the other two.
LEMMA PutDeskInv ==
  ASSUME DesksInv, NEW c \in Clerks, PutDesk(c)
  PROVE  DesksInv'
<1>1. /\ clerk[c].at = "desk" /\ desks' = [desks EXCEPT ![clerk[c].seat] = clerk[c].role] /\ Ends(c)
      /\ UNCHANGED <<ground, profiles, runs, shelf, told, items, interleaved, granted, dropped>>
  BY DEF PutDesk, Holds
<1>2. clerk[c] \in Provisioning /\ clerk[c].seat \in Seats /\ clerk[c].role \in RoleWords \cup {"it_ops"}
  BY <1>1, JobKinds, DeskFacts DEF Provisioning
<1>3. {<<clerk[c].seat, "venture">>, <<clerk[c].seat, "milestone">>} \subseteq ground
  BY <1>1, DeskFacts DEF ClerkInv
<1>4. desks' \in [Seats -> RoleWords \cup {"it_ops", NoDesk}] /\ DesksHaveGround' /\ RunsFitTheRoster'
  BY <1>1, <1>2, <1>3, DeskFacts DEF DesksHaveGround, RunsFitTheRoster
<1> QED
  BY <1>1, <1>4, RestInv, DeskFacts, QuietDesk

\* A request is dropped, and what it would have told is remembered.
LEMMA DropInv ==
  ASSUME DesksInv, NEW c \in Clerks, Drop(c)
  PROVE  DesksInv'
<1>1. /\ Ends(c)
      /\ dropped' = (IF clerk[c].at = "receipt"
                     THEN dropped \cup {<<clerk[c].seat, clerk[c].event, clerk[c].what>>} ELSE dropped)
      /\ UNCHANGED <<ground, desks, profiles, runs, shelf, told, items, interleaved, granted>>
  BY DEF Drop, Holds
<1>2. DesksHaveGround' /\ RunsFitTheRoster'
  BY <1>1, DeskFacts DEF DesksHaveGround, RunsFitTheRoster
<1>3. dropped \subseteq dropped'
      /\ (clerk[c].at = "receipt" => <<clerk[c].seat, clerk[c].event, clerk[c].what>> \in dropped')
  BY <1>1
<1> QED
  BY <1>1, <1>2, <1>3, RestInv, DeskFacts, QuietDesk

\* A receipt is written.
LEMMA WriteReceiptInv ==
  ASSUME DesksInv, NEW c \in Clerks, WriteReceipt(c)
  PROVE  DesksInv'
<1> DEFINE r == <<clerk[c].seat, clerk[c].event, clerk[c].what>>
<1>1. /\ clerk[c].at = "receipt" /\ told' = told \cup {r} /\ Ends(c)
      /\ UNCHANGED <<ground, desks, profiles, runs, shelf, items, interleaved, granted, dropped>>
  BY DEF WriteReceipt, Holds
<1>2. OnlyClerk(c) /\ ClerkInv(c)' /\ clerk'[c].at = "rest"
  BY <1>1, RestInv DEF AtRest
<1>3. DeskTypeOK'
  BY <1>1, <1>2 DEF DesksInv, DeskTypeOK, OnlyClerk
<1>4. KeptIsReceipted'
  BY <1>1, <1>2, KeptPending
<1>5. DesksHaveGround' /\ RunsFitTheRoster'
  BY <1>1, DeskFacts DEF DesksHaveGround, RunsFitTheRoster
<1>6. GrantInv'
  <2>1. \A s \in Seats : \A p : <<s, "agent_added", p>> \in told' => <<s, p>> \in granted
    BY <1>1, DeskFacts DEF DesksInv, GrantInv, ClerkInv
  <2> QED
    BY <1>1, <2>1 DEF DesksInv, GrantInv, Has, Known
<1>7. ASSUME NEW e \in Clerks, e # c
      PROVE  ClerkInv(e)'
  <2>1. ClerkInv(e) /\ clerk'[e] = clerk[e]
    BY <1>2, <1>7 DEF DesksInv, OnlyClerk
  <2>2. EditInv(e)'
    BY <1>1, <2>1 DEF ClerkInv, EditInv, Has, Known
  <2> QED
    BY <1>1, <2>1, <2>2 DEF ClerkInv
<1> QED
  BY <1>2, <1>3, <1>4, <1>5, <1>6, <1>7 DEF DesksInv

\* A run is logged.
LEMMA LogRunInv ==
  ASSUME DesksInv, NEW c \in Clerks, LogRun(c)
  PROVE  DesksInv'
<1> DEFINE job == [clerk[c] EXCEPT !.at = "receipt"]
           run == <<clerk[c].seat, clerk[c].what>>
<1>1. /\ clerk[c].at = "log" /\ clerk' = [clerk EXCEPT ![c] = job] /\ runs' = runs \cup {run}
      /\ UNCHANGED <<ground, desks, profiles, shelf, told, items, interleaved, granted, dropped>>
  BY DEF LogRun, Holds, Moves
<1>2. clerk[c] \in Reporting /\ run[2] = clerk[c].what
  BY <1>1, JobKinds, DeskFacts
<1>3. job \in Reporting /\ job.at = "receipt" /\ job.seat = clerk[c].seat
      /\ job.event = clerk[c].event /\ job.what = clerk[c].what
  BY <1>2 DEF Reporting
<1>4. job \in Jobs
  BY <1>3 DEF Jobs
<1> HIDE DEF job, run
<1>5. OnlyClerk(c) /\ clerk'[c] = job
  BY <1>1, <1>4, DeskFacts, ClerkStep
<1>6. run[2].agent \in BaseKit(run[2].discipline).agents \/ run \in granted
  BY <1>1, <1>2, DeskFacts DEF ClerkInv, run
<1>7. DesksHaveGround' /\ RunsFitTheRoster'
  BY <1>1, <1>6, DeskFacts DEF DesksHaveGround, RunsFitTheRoster
<1>8. ClerkInv(c)'
  BY <1>1, <1>3, <1>5, DeskFacts DEF ClerkInv, EditInv
<1> QED
  BY <1>1, <1>5, <1>7, <1>8, DeskFacts, QuietDesk

\* A pick of a discipline's agent.
LEMMA PickFacts ==
  ASSUME NEW s \in Seats, NEW a \in Agents
  PROVE  LET p == Pick(Discipline(s), a) IN
         p \in Picks /\ p \in Things /\ p.agent = a /\ p.discipline = Discipline(s)
<1>1. Discipline(s) \in Disciplines
  <2>1. "product" \in Disciplines
    BY DEF Disciplines, Aliases
  <2> QED
    BY <2>1 DEF Discipline, DisciplineOf
<1> QED
  BY <1>1 DEF Pick, Picks, Things

\* An agent of the catalog is asked for; the request holds the profile and the new pick.
LEMMA AskAgentInv ==
  ASSUME DesksInv, NEW c \in Clerks, NEW s \in Seats, NEW a \in Agents, AskAgent(c, s, a)
  PROVE  DesksInv'
<1> DEFINE pick == Pick(Discipline(s), a)
           all == profiles[s] \cup {pick}
           job == [at |-> "grant", seat |-> s, what |-> pick, row |-> all]
<1>1. /\ profiles[s] # NoProfile /\ a \in AgentCatalog[Discipline(s)] /\ Starts(c, job)
      /\ UNCHANGED <<ground, desks, profiles, runs, shelf, told, items, interleaved, granted, dropped>>
  BY DEF AskAgent
<1>2. pick \in Picks /\ pick \in Things /\ Known(pick)
  BY <1>1, PickFacts DEF Known
<1>3. all \in SUBSET Picks /\ pick \in all /\ \A p \in all : p = pick \/ Has(s, p)
  BY <1>1, <1>2, DeskFacts DEF Has
<1>4. \A p \in Picks : p \in profiles[s] => p \in all
  OBVIOUS
<1> HIDE DEF pick, all
<1>5. job \in Editing /\ job.at = "grant" /\ job.seat = s /\ job.what = pick /\ job.row = all
  BY <1>2, <1>3 DEF Editing
<1>6. job \in Jobs
  BY <1>5 DEF Jobs
<1> HIDE DEF job
<1>7. clerk'[c] = job
  BY <1>1, <1>6, DeskFacts, ClerkStep DEF Starts
<1>8. \A p : (Has(s, p)' <=> Has(s, p)) /\ (Known(p)' <=> Known(p))
  BY <1>1 DEF Has, Known
<1>9. \A p \in all : p = pick \/ <<s, p>> \in granted
  BY <1>3 DEF DesksInv, GrantInv
<1>10. EditInv(c)'
  BY <1>1, <1>2, <1>3, <1>4, <1>5, <1>7, <1>8, <1>9 DEF EditInv
<1>11. ClerkInv(c)'
  BY <1>5, <1>7, <1>10 DEF ClerkInv
<1> QED
  BY <1>1, <1>6, <1>11, BeginInv

\* A profile is edited; the request holds all of it.
LEMMA EditProfileInv ==
  ASSUME DesksInv, NEW c \in Clerks, NEW s \in Seats, NEW event \in {"profile_updated", "promoted"},
         EditProfile(c, s, event)
  PROVE  DesksInv'
<1> DEFINE what == [edit |-> event]
           job == [at |-> "profile", seat |-> s, what |-> what, row |-> profiles[s]]
<1>1. /\ profiles[s] # NoProfile /\ Starts(c, job)
      /\ UNCHANGED <<ground, desks, profiles, runs, shelf, told, items, interleaved, granted, dropped>>
  BY DEF EditProfile
<1>2. profiles[s] \in SUBSET Picks /\ what \in [edit : {"profile_updated", "promoted"}] /\ what \in Things
  BY <1>1, DeskFacts DEF Things
<1> HIDE DEF what
<1>5. job \in Editing /\ job.at = "profile" /\ job.seat = s /\ job.what = what /\ job.row = profiles[s]
  BY <1>2 DEF Editing
<1>6. job \in Jobs
  BY <1>5 DEF Jobs
<1> HIDE DEF job
<1>7. clerk'[c] = job
  BY <1>1, <1>6, DeskFacts, ClerkStep DEF Starts
<1>8. \A p : (Has(s, p)' <=> Has(s, p))
  BY <1>1 DEF Has
<1>9. \A p \in profiles[s] : <<s, p>> \in granted
  BY <1>1, <1>2 DEF DesksInv, GrantInv, Has
<1>10. EditInv(c)'
  BY <1>1, <1>2, <1>5, <1>7, <1>8, <1>9 DEF EditInv, Has
<1>11. ClerkInv(c)'
  BY <1>5, <1>7, <1>10 DEF ClerkInv
<1> QED
  BY <1>1, <1>6, <1>11, BeginInv

\* An agent of the roster is consulted, or a terminal read.
LEMMA ConsultInv ==
  ASSUME DesksInv, NEW c \in Clerks, NEW s \in Seats, NEW a \in Agents,
         NEW event \in {"run", "shift_report", "investigate", "analyze", "explain"},
         Consult(c, s, event, a)
  PROVE  DesksInv'
<1>0. UNCHANGED <<ground, desks, profiles, runs, shelf, told, items, interleaved, granted, dropped>>
  BY DEF Consult
<1>1. CASE event # "explain"
  <2> DEFINE pick == Pick(Discipline(s), a)
             stage == IF event = "run" THEN "log" ELSE "receipt"
             job == [at |-> stage, seat |-> s, what |-> pick, event |-> event]
  <2>1. a \in Roster(s, Discipline(s)) /\ Starts(c, job)
    BY <1>1 DEF Consult
  <2>2. pick \in Picks /\ pick \in Things /\ pick.agent = a /\ pick.discipline = Discipline(s)
    BY PickFacts
  <2>3. a \in BaseKit(Discipline(s)).agents \/ Has(s, pick)
    BY <2>1 DEF Roster, AddedTo, Has
  <2>4. pick.agent \in BaseKit(pick.discipline).agents \/ <<s, pick>> \in granted
    BY <2>2, <2>3 DEF DesksInv, GrantInv
  <2> HIDE DEF pick
  <2>5. /\ job \in Reporting /\ job.at = stage /\ job.seat = s /\ job.what = pick
        /\ job.event = event /\ stage \in {"log", "receipt"} /\ (stage = "log" => event = "run")
    BY <2>2 DEF Reporting, Happenings
  <2>6. job \in Jobs
    BY <2>5 DEF Jobs
  <2> HIDE DEF job, stage
  <2>7. clerk'[c] = job
    BY <2>1, <2>6, DeskFacts, ClerkStep DEF Starts
  <2>8. ClerkInv(c)'
    BY <1>0, <2>4, <2>5, <2>7 DEF ClerkInv, EditInv
  <2> QED
    BY <1>0, <2>1, <2>6, <2>8, BeginInv
<1>2. CASE event = "explain"
  <2> DEFINE job == [at |-> "receipt", seat |-> s, what |-> [host |-> "named"], event |-> event]
  <2>1. Starts(c, job)
    BY <1>2 DEF Consult
  <2>2. job \in Reporting /\ job.at = "receipt" /\ job.event = "explain"
    BY <1>2 DEF Reporting, Happenings, Things
  <2>3. job \in Jobs
    BY <2>2 DEF Jobs
  <2> HIDE DEF job
  <2>4. clerk'[c] = job
    BY <2>1, <2>3, DeskFacts, ClerkStep DEF Starts
  <2>5. ClerkInv(c)'
    BY <2>2, <2>4 DEF ClerkInv, EditInv
  <2> QED
    BY <1>0, <2>1, <2>3, <2>5, BeginInv
<1> QED
  BY <1>1, <1>2

\* A profile is saved whole: what the others were granted is on it unless the saves met.
LEMMA SaveProfileInv ==
  ASSUME DesksInv, NEW c \in Clerks, SaveProfile(c)
  PROVE  DesksInv'
<1>0. clerk[c].at \in {"grant", "profile"} /\ clerk[c].seat \in Seats
  BY JobKinds, DeskFacts DEF SaveProfile
<1> PICK s \in Seats : s = clerk[c].seat
  BY <1>0
<1> DEFINE what == clerk[c].what
           row == clerk[c].row
           event == IF clerk[c].at = "grant" THEN "agent_added" ELSE clerk[c].what.edit
           job == [at |-> "receipt", seat |-> s, what |-> what, event |-> event]
<1>1. /\ profiles' = [profiles EXCEPT ![s] = row]
      /\ granted' = (IF clerk[c].at = "grant" THEN granted \cup {<<s, what>>} ELSE granted)
      /\ interleaved' = (IF Profiling(s) # {c} THEN interleaved \cup {s} ELSE interleaved)
      /\ clerk' = [clerk EXCEPT ![c] = job]
      /\ UNCHANGED <<ground, desks, runs, shelf, told, items, dropped>>
  BY DEF SaveProfile, Holds
<1>2. clerk[c] \in Editing /\ row \in SUBSET Picks /\ what \in Things /\ EditInv(c)
  BY <1>0, JobKinds, DeskFacts DEF Editing, ClerkInv
<1>3. event \in Happenings /\ (event = "agent_added" => clerk[c].at = "grant")
  BY <1>0, <1>2 DEF EditInv, Happenings
<1> HIDE DEF what, row, event
<1>4. /\ job \in Reporting /\ job.at = "receipt" /\ job.seat = s /\ job.what = what
      /\ job.event = event
  BY <1>2, <1>3 DEF Reporting
<1>5. job \in Jobs
  BY <1>4 DEF Jobs
<1> HIDE DEF job
<1>6. OnlyClerk(c) /\ clerk'[c] = job
  BY <1>1, <1>5, DeskFacts, ClerkStep
<1>7. /\ profiles' \in [Seats -> {NoProfile} \cup SUBSET Picks]
      /\ profiles'[s] = row /\ \A z \in Seats \ {s} : profiles'[z] = profiles[z]
  BY <1>1, <1>2, DeskFacts
<1>8. /\ granted \subseteq granted' /\ interleaved \subseteq interleaved'
      /\ (clerk[c].at = "grant" => <<s, what>> \in granted')
      /\ \A z, p : <<z, p>> \in granted' =>
           <<z, p>> \in granted \/ (z = s /\ p = what /\ clerk[c].at = "grant")
  BY <1>1
<1>9. /\ (clerk[c].at = "grant" => Known(what) /\ what \in row)
      /\ (\A p \in row : <<s, p>> \in granted \/ (clerk[c].at = "grant" /\ p = what))
      /\ (s \notin interleaved => \A p \in Picks : p \in profiles[s] => p \in row)
  BY <1>0, <1>2 DEF EditInv, what, row
<1>10. DeskTypeOK'
  BY <1>1, <1>6, <1>7 DEF DesksInv, DeskTypeOK, OnlyClerk
<1>11. KeptIsReceipted'
  BY <1>0, <1>1, <1>6, KeptPending
<1>12. DesksHaveGround' /\ RunsFitTheRoster'
  BY <1>1, <1>8, DeskFacts DEF DesksHaveGround, RunsFitTheRoster
<1>13. \A z \in Seats, p \in Picks : Has(z, p)' => <<z, p>> \in granted'
  BY <1>7, <1>8, <1>9 DEF DesksInv, GrantInv, Has
<1>14. \A p : Known(p)' <=> Known(p)
  BY DEF Known
<1>15. ASSUME NEW z \in Seats, NEW p, <<z, p>> \in granted'
       PROVE  Known(p) /\ (z \in interleaved' \/ p \in profiles'[z])
  <2>1. CASE z # s
    BY <1>7, <1>8, <1>15, <2>1 DEF DesksInv, GrantInv, Has
  <2>2. CASE z = s
    <3>1. CASE <<s, p>> \in granted
      <4>1. Known(p) /\ (s \in interleaved \/ p \in profiles[s])
        BY <3>1 DEF DesksInv, GrantInv
      <4>2. s \notin interleaved => p \in row
        BY <1>9, <4>1 DEF Known
      <4> QED
        BY <1>7, <1>8, <2>2, <4>1, <4>2
    <3>2. CASE <<s, p>> \notin granted
      <4>1. p = what /\ clerk[c].at = "grant"
        BY <1>8, <1>15, <2>2, <3>2
      <4> QED
        BY <1>7, <1>9, <2>2, <4>1 DEF Has
    <3> QED
      BY <3>1, <3>2
  <2> QED
    BY <2>1, <2>2
<1>16. GrantInv'
  BY <1>1, <1>8, <1>13, <1>14, <1>15 DEF DesksInv, GrantInv
<1>17. ClerkInv(c)'
  BY <1>3, <1>4, <1>6, <1>8 DEF ClerkInv, EditInv
<1>18. ASSUME NEW e \in Clerks, e # c
       PROVE  ClerkInv(e)'
  <2>1. ClerkInv(e) /\ EditInv(e) /\ clerk'[e] = clerk[e]
    BY <1>6, <1>18 DEF DesksInv, OnlyClerk, ClerkInv
  <2>2. EditInv(e)'
    <3> SUFFICES ASSUME clerk[e].at \in {"grant", "profile"}
                 PROVE  EditInv(e)'
      BY <2>1 DEF EditInv
    <3>1. clerk[e].seat = s => s \in interleaved'
      <4>1. clerk[e].seat = s => e \in Profiling(s)
        BY DEF Profiling
      <4> QED
        BY <1>1, <1>18, <4>1
    <3>2. clerk[e].seat \in Seats
      BY JobKinds, DeskFacts
    <3>3. clerk[e].seat # s => profiles'[clerk[e].seat] = profiles[clerk[e].seat]
      BY <1>7, <3>2
    <3> QED
      BY <1>8, <1>14, <2>1, <3>1, <3>2, <3>3 DEF EditInv
  <2> QED
    BY <1>1, <1>8, <2>1, <2>2 DEF ClerkInv
<1> QED
  BY <1>10, <1>11, <1>12, <1>16, <1>17, <1>18 DEF DesksInv

\* Something is kept on the shelf, with its receipt to come if it has one.
LEMMA KeepInv ==
  ASSUME DesksInv, NEW c \in Clerks, NEW s \in Seats,
         NEW kind \in Receipted \cup {"query", "runbook"}, Keep(c, s, kind)
  PROVE  DesksInv'
<1> PICK n \in Nat : n = items + 1
  BY DeskFacts
<1> PICK thing \in [id : Nat, seat : Seats, kind : Receipted \cup {"query", "runbook"}] :
         thing = [id |-> n, seat |-> s, kind |-> kind]
  OBVIOUS
<1> PICK what \in Things : what = [item |-> n]
  BY DEF Things
<1> DEFINE job == [at |-> "receipt", seat |-> s, what |-> what, event |-> kind]
<1>1. /\ items' = n /\ shelf' = shelf \cup {thing}
      /\ (kind \in Receipted => Starts(c, job))
      /\ (kind \notin Receipted => UNCHANGED clerk)
      /\ UNCHANGED <<ground, desks, profiles, runs, told, interleaved, granted, dropped>>
  BY DEF Keep
<1>2. items' \in Nat
  BY <1>1
<1>3. thing.seat = s /\ thing.kind = kind /\ thing.id = n
  OBVIOUS
<1>4. shelf' \subseteq [id : Nat, seat : Seats, kind : Receipted \cup {"query", "runbook"}]
  BY <1>1, <1>3, DeskFacts
<1>5. DesksHaveGround' /\ RunsFitTheRoster'
  BY <1>1, DeskFacts DEF DesksHaveGround, RunsFitTheRoster
<1>6. CASE kind \in Receipted
  <2>1. kind \in Happenings /\ kind # "agent_added"
    BY <1>6 DEF Happenings, Receipted
  <2>2. <<thing.seat, thing.kind, [item |-> thing.id]>> = <<s, kind, what>>
    BY <1>3
  <2>3. job \in Reporting /\ job.at = "receipt" /\ job.seat = s /\ job.what = what /\ job.event = kind
    BY <1>2, <2>1 DEF Reporting
  <2>4. job \in Jobs
    BY <2>3 DEF Jobs
  <2> HIDE DEF job
  <2>5. clerk[c].at = "rest" /\ clerk' = [clerk EXCEPT ![c] = job]
    BY <1>1, <1>6 DEF Starts, AtRest
  <2>6. OnlyClerk(c) /\ clerk'[c] = job
    BY <2>4, <2>5, DeskFacts, ClerkStep
  <2>7. ClerkInv(c)'
    BY <2>1, <2>3, <2>6 DEF ClerkInv, EditInv
  <2>8. Pending(<<thing.seat, thing.kind, [item |-> thing.id]>>)'
    BY <2>2, <2>3, <2>6 DEF Pending
  <2>9. \A i \in shelf' : i \in shelf \/ (i.kind \in Receipted => Pending(<<i.seat, i.kind, [item |-> i.id]>>)')
    BY <1>1, <2>8
  <2> QED
    BY <1>1, <1>2, <1>4, <1>5, <2>5, <2>6, <2>7, <2>9, DeskFacts, QuietDesk
<1>7. CASE kind \notin Receipted
  <2>1. DeskTypeOK'
    BY <1>1, <1>2, <1>4, <1>7, DeskFacts DEF DeskTypeOK
  <2>2. KeptIsReceipted'
    <3> SUFFICES ASSUME NEW i \in shelf', i.kind \in Receipted
                 PROVE  Pending(<<i.seat, i.kind, [item |-> i.id]>>)'
      BY DEF KeptIsReceipted, Pending, Holds
    <3>1. i \in shelf
      BY <1>1, <1>3, <1>7
    <3>2. Pending(<<i.seat, i.kind, [item |-> i.id]>>)
      BY <3>1 DEF DesksInv, KeptIsReceipted, Pending, Holds
    <3> QED
      BY <1>1, <1>7, <3>2 DEF Pending
  <2>3. GrantInv'
    BY <1>1 DEF DesksInv, GrantInv, Has, Known
  <2>4. ASSUME NEW e \in Clerks
        PROVE  ClerkInv(e)'
    BY <1>1, <1>7, <2>4 DEF DesksInv, ClerkInv, EditInv, Has, Known
  <2> QED
    BY <1>5, <2>1, <2>2, <2>3, <2>4 DEF DesksInv
<1> QED
  BY <1>6, <1>7

\* Something is discarded.
LEMMA DiscardInv ==
  ASSUME DesksInv, NEW s \in Seats, NEW i \in shelf, Discard(s, i)
  PROVE  DesksInv'
<1>1. /\ shelf' \subseteq shelf
      /\ UNCHANGED <<ground, desks, profiles, runs, told, clerk, items, interleaved, granted, dropped>>
  BY DEF Discard
<1>2. DeskTypeOK'
  BY <1>1 DEF DesksInv, DeskTypeOK
<1>3. KeptIsReceipted'
  BY <1>1 DEF DesksInv, KeptIsReceipted, Holds
<1>4. DesksHaveGround' /\ RunsFitTheRoster' /\ GrantInv'
  BY <1>1 DEF DesksInv, DesksHaveGround, RunsFitTheRoster, GrantInv, Has, Known
<1>5. ASSUME NEW e \in Clerks
      PROVE  ClerkInv(e)'
  BY <1>1, <1>5 DEF DesksInv, ClerkInv, EditInv, Has, Known
<1> QED
  BY <1>2, <1>3, <1>4, <1>5 DEF DesksInv

\* Any request goes on.
LEMMA ProceedInv ==
  ASSUME DesksInv, NEW c \in Clerks, Proceed(c)
  PROVE  DesksInv'
BY PutGroundInv, PutDeskInv, SaveProfileInv, LogRunInv, WriteReceiptInv, DropInv DEF Proceed

\* The invariant of the desks holds when no request is under way.
LEMMA DesksStart == DeskInit => DesksInv
<1> SUFFICES ASSUME DeskInit PROVE DesksInv
  OBVIOUS
<1>1. AtRest \in Jobs /\ AtRest.at = "rest"
  BY DEF Jobs, AtRest
<1>2. DeskTypeOK
  BY <1>1 DEF DeskInit, DeskTypeOK
<1>3. DesksHaveGround
  BY DEF DeskInit, DesksHaveGround
<1>4. RunsFitTheRoster /\ KeptIsReceipted
  BY DEF DeskInit, RunsFitTheRoster, KeptIsReceipted
<1>5. GrantInv
  BY DEF DeskInit, GrantInv, Has
<1>6. \A c \in Clerks : clerk[c].at = "rest"
  BY <1>1 DEF DeskInit
<1>7. \A c \in Clerks : ClerkInv(c)
  BY <1>6 DEF ClerkInv, EditInv
<1> QED
  BY <1>2, <1>3, <1>4, <1>5, <1>7 DEF DesksInv

\* Every step keeps it.
LEMMA DesksStep == DesksInv /\ [RosterSteps \/ ShelfSteps]_deskVars => DesksInv'
<1> SUFFICES ASSUME DesksInv, [RosterSteps \/ ShelfSteps]_deskVars
             PROVE  DesksInv'
  OBVIOUS
<1>1. CASE RosterSteps
  <2>1. ASSUME NEW c \in Clerks, NEW s \in Seats, NEW w \in RoleWords, MyDesk(c, s, w)
        PROVE  DesksInv'
    BY <2>1, MyDeskInv
  <2>2. ASSUME NEW c \in Clerks, NEW s \in Seats, NEW a \in Agents,
               AskAgent(c, s, a) \/ Consult(c, s, "run", a)
        PROVE  DesksInv'
    BY <2>2, AskAgentInv, ConsultInv
  <2>3. ASSUME NEW c \in Clerks, NEW s \in Seats, NEW e \in {"profile_updated", "promoted"},
               EditProfile(c, s, e)
        PROVE  DesksInv'
    BY <2>3, EditProfileInv
  <2> QED
    BY <1>1, <2>1, <2>2, <2>3, ProceedInv DEF RosterSteps
<1>2. CASE ShelfSteps
  <2>1. ASSUME NEW c \in Clerks, NEW s \in Seats, NEW k \in Receipted \cup {"query", "runbook"},
               Keep(c, s, k)
        PROVE  DesksInv'
    BY <2>1, KeepInv
  <2>2. ASSUME NEW c \in Clerks, NEW s \in Seats, NEW a \in Agents,
               NEW e \in {"shift_report", "investigate", "analyze", "explain"},
               Consult(c, s, e, a)
        PROVE  DesksInv'
    BY <2>2, ConsultInv
  <2>3. ASSUME NEW s \in Seats, NEW i \in shelf, Discard(s, i)
        PROVE  DesksInv'
    BY <2>3, DiscardInv
  <2> QED
    BY <1>2, <2>1, <2>2, <2>3, ProceedInv DEF ShelfSteps
<1>3. CASE UNCHANGED deskVars
  <2>1. DeskTypeOK' /\ DesksHaveGround' /\ RunsFitTheRoster' /\ GrantInv'
    BY <1>3 DEF DesksInv, deskVars, DeskTypeOK, DesksHaveGround, RunsFitTheRoster, GrantInv, Has, Known
  <2>2. KeptIsReceipted'
    BY <1>3 DEF DesksInv, deskVars, KeptIsReceipted, Holds
  <2>3. ASSUME NEW e \in Clerks
        PROVE  ClerkInv(e)'
    BY <1>3, <2>3 DEF DesksInv, deskVars, ClerkInv, EditInv, Has, Known
  <2> QED
    BY <2>1, <2>2, <2>3 DEF DesksInv
<1> QED
  BY <1>1, <1>2, <1>3

\* A granted pick is of the catalog, so that the room finds the agent.
LEMMA RosterIsShown ==
  ASSUME DesksInv, NEW s \in Seats
  PROVE  Allocated(s, Discipline(s)) = Roster(s, Discipline(s))
<1> DEFINE d == Discipline(s)
<1>1. \A a \in AddedTo(s, d) : FindAgent(d, a)
  <2> SUFFICES ASSUME NEW a \in AddedTo(s, d)
               PROVE  FindAgent(d, a)
    OBVIOUS
  <2>1. a \in Agents /\ Has(s, Pick(d, a))
    BY DEF AddedTo, Has
  <2>2. Pick(d, a) \in Picks /\ Pick(d, a).agent = a /\ Pick(d, a).discipline = d
    BY <2>1, PickFacts
  <2>3. Known(Pick(d, a))
    BY <2>1, <2>2 DEF DesksInv, GrantInv
  <2> QED
    BY <2>2, <2>3 DEF Known, FindAgent
<1> QED
  BY <1>1 DEF Allocated, Roster

\* It says what the desks promise.
LEMMA DesksInvSays ==
  ASSUME DesksInv
  PROVE  DesksHaveGround /\ GrantsStick /\ RunsFitTheRoster /\ RoomMatchesRuntime /\ KeptIsReceipted
<1>1. GrantsStick
  BY DEF DesksInv, GrantInv, GrantsStick
<1>2. RoomMatchesRuntime
  BY RosterIsShown DEF RoomMatchesRuntime, Offered
<1> QED
  BY <1>1, <1>2 DEF DesksInv

-----------------------------------------------------------------------------
(* The blueprints.                                                           *)

AllBuiltin ==
  {"monitoring", "content_engine", "analytics", "crm", "proposal", "call_notes", "issues", "api_console"}
  \cup {"design_system", "assets", "roadmap", "interviews", "spec", "processes", "vendors", "scheduler"}
  \cup {"scraper", "library", "synthesis", "query", "dashboard", "pipeline", "ledger", "model"}
  \cup {"templates", "ip_registry", "compliance", "tickets", "kb", "macros", "editorial", "supply"}
  \cup {"seasonal", "price_watch", "abm", "whitepaper", "reg_review", "bss_health", "alarm_feed", "plg"}
  \cup {"compliance_copy", "cro"}
AllEnv ==
  {<<"incident_queue", "REMEDY_BASE_URL">>, <<"sql_console", "OPS_SQL_DSN">>,
   <<"knowledge_base", "OPS_KB_URL">>, <<"social", "LINKEDIN_ACCESS_TOKEN">>,
   <<"email", "RESEND_API_KEY">>, <<"outreach", "LINKEDIN_ACCESS_TOKEN">>,
   <<"invoicing", "STRIPE_API_KEY">>}
AllExternal == {"repo", "ci", "figma", "merchant_feed", "catalog"}

KitWithin(kit) ==
  /\ kit.builtin \subseteq AllBuiltin
  /\ kit.env \subseteq AllEnv
  /\ kit.external \subseteq AllExternal

\* The fields of a kit.
LEMMA KitFields ==
  ASSUME NEW b, NEW e, NEW x, NEW a, NEW r
  PROVE  LET k == Kit(b, e, x, a, r)
         IN  k.builtin = b /\ k.env = e /\ k.external = x /\ k.agents = a /\ k.resources = r
BY DEF Kit

\* The disciplines by name.
LEMMA DisciplineNames ==
  Disciplines = {"product", "engineering", "design", "marketing", "sales", "operations", "research",
                 "data", "finance", "legal", "support", "content", "it_ops"}
BY DEF Disciplines, Aliases

\* A discipline answers to its own name only.
LEMMA DisciplineIsItself ==
  ASSUME NEW d \in Disciplines
  PROVE  DisciplineOf(d) = d
<1>1. d \in Aliases[d]
  BY DisciplineNames DEF Aliases
<1>2. \A e \in Disciplines : d \in Aliases[e] => e = d
  BY DisciplineNames DEF Aliases
<1> QED
  BY <1>1, <1>2 DEF DisciplineOf

\* Every discipline has tools in the connect flow.
LEMMA DisciplinesAreConnected ==
  ASSUME NEW d \in Disciplines
  PROVE  d \in DOMAIN RoleTools
BY DisciplineNames DEF RoleTools

\* A discipline's kit is made of the named tools, and offers no agent it has.
LEMMA KitsAreWithin ==
  ASSUME NEW d \in Disciplines
  PROVE  KitWithin(BaseKit(d)) /\ BaseKit(d).agents \cap AgentCatalog[d] = {}
<1>1. CASE d \in {"it_ops", "marketing", "sales"}
  <2>1. BaseKit(d) = OpsAndGrowthKits[d]
    BY <1>1 DEF BaseKit, OpsAndGrowthKits, MakerKits, RunningKits, BackOfficeKits
  <2> QED
    BY <1>1, <2>1, KitFields DEF OpsAndGrowthKits, KitWithin, AllBuiltin, AllEnv, AllExternal, AgentCatalog
<1>2. CASE d \in {"engineering", "design", "product"}
  <2>1. BaseKit(d) = MakerKits[d]
    BY <1>2 DEF BaseKit, OpsAndGrowthKits, MakerKits, RunningKits, BackOfficeKits
  <2> QED
    BY <1>2, <2>1, KitFields DEF MakerKits, KitWithin, AllBuiltin, AllEnv, AllExternal, AgentCatalog
<1>3. CASE d \in {"operations", "research", "data"}
  <2>1. BaseKit(d) = RunningKits[d]
    BY <1>3 DEF BaseKit, OpsAndGrowthKits, MakerKits, RunningKits, BackOfficeKits
  <2> QED
    BY <1>3, <2>1, KitFields DEF RunningKits, KitWithin, AllBuiltin, AllEnv, AllExternal, AgentCatalog
<1>4. CASE d \in {"finance", "legal", "support", "content"}
  <2>1. BaseKit(d) = BackOfficeKits[d]
    BY <1>4 DEF BaseKit, OpsAndGrowthKits, MakerKits, RunningKits, BackOfficeKits
  <2> QED
    BY <1>4, <2>1, KitFields DEF BackOfficeKits, KitWithin, AllBuiltin, AllEnv, AllExternal, AgentCatalog
<1> QED
  BY <1>1, <1>2, <1>3, <1>4, DisciplineNames

\* So is what a vertical lays over it.
LEMMA OverlaysAreWithin ==
  ASSUME NEW d \in Disciplines, NEW v \in Verticals
  PROVE  KitWithin(OverlayOf(d, v))
<1>1. KitWithin(Kit({}, {}, {}, {}, {}))
  BY KitFields DEF KitWithin
<1>2. CASE v = "retail" /\ d \in DOMAIN Overlays[v]
  BY SMTT(60), <1>2, KitFields DEF OverlayOf, Overlays, KitWithin, AllBuiltin, AllExternal
<1>3. CASE v = "telecom" /\ d \in DOMAIN Overlays[v]
  BY SMTT(60), <1>3, KitFields DEF OverlayOf, Overlays, KitWithin, AllBuiltin, AllExternal
<1>4. CASE v = "fintech" /\ d \in DOMAIN Overlays[v]
  BY SMTT(60), <1>4, KitFields DEF OverlayOf, Overlays, KitWithin, AllBuiltin, AllExternal
<1>5. CASE v = "healthcare" /\ d \in DOMAIN Overlays[v]
  BY SMTT(60), <1>5, KitFields DEF OverlayOf, Overlays, KitWithin, AllBuiltin, AllExternal
<1>6. CASE v = "saas" /\ d \in DOMAIN Overlays[v]
  BY SMTT(60), <1>6, KitFields DEF OverlayOf, Overlays, KitWithin, AllBuiltin, AllExternal
<1>7. CASE v = "ecommerce" /\ d \in DOMAIN Overlays[v]
  BY SMTT(60), <1>7, KitFields DEF OverlayOf, Overlays, KitWithin, AllBuiltin, AllExternal
<1>8. CASE v = "media" /\ d \in DOMAIN Overlays[v]
  BY SMTT(60), <1>8, KitFields DEF OverlayOf, Overlays, KitWithin, AllBuiltin, AllExternal
<1>9. CASE v = "education" /\ d \in DOMAIN Overlays[v]
  BY SMTT(60), <1>9, KitFields DEF OverlayOf, Overlays, KitWithin, AllBuiltin, AllExternal
<1>10. CASE v = "manufacturing" /\ d \in DOMAIN Overlays[v]
  BY SMTT(60), <1>10, KitFields DEF OverlayOf, Overlays, KitWithin, AllBuiltin, AllExternal
<1>11. CASE ~(v \in DOMAIN Overlays /\ d \in DOMAIN Overlays[v])
  BY <1>1, <1>11 DEF OverlayOf
<1>12. DOMAIN Overlays = {"retail", "telecom", "fintech", "healthcare", "saas", "ecommerce", "media",
                         "education", "manufacturing"}
  BY DEF Overlays
<1> QED
  BY <1>2, <1>3, <1>4, <1>5, <1>6, <1>7, <1>8, <1>9, <1>10, <1>11, <1>12

\* So is the blueprint.
LEMMA BlueprintsAreWithin ==
  ASSUME NEW d \in Disciplines, NEW v \in Verticals
  PROVE  KitWithin(Blueprint(d, v))
<1>1. KitWithin(BaseKit(d)) /\ KitWithin(OverlayOf(d, v))
  BY KitsAreWithin, OverlaysAreWithin
<1> QED
  BY <1>1, KitFields DEF Blueprint, KitWithin

\* Names of eight things.
LEMMA EightAreFinite ==
  ASSUME NEW a, NEW b, NEW c, NEW d, NEW e, NEW f, NEW g, NEW h
  PROVE  IsFiniteSet({a, b, c, d, e, f, g, h})
<1>1. IsFiniteSet({a})
  BY FS_Singleton
<1>2. IsFiniteSet({a, b})
  <2>1. {a, b} = {a} \cup {b}
    OBVIOUS
  <2> QED
    BY <1>1, <2>1, FS_AddElement
<1>3. IsFiniteSet({a, b, c})
  <2>1. {a, b, c} = {a, b} \cup {c}
    OBVIOUS
  <2> QED
    BY <1>2, <2>1, FS_AddElement
<1>4. IsFiniteSet({a, b, c, d})
  <2>1. {a, b, c, d} = {a, b, c} \cup {d}
    OBVIOUS
  <2> QED
    BY <1>3, <2>1, FS_AddElement
<1>5. IsFiniteSet({e, f, g, h})
  <2>1. \A w, x, y, z : IsFiniteSet({w, x, y, z})
    <3> SUFFICES ASSUME NEW w, NEW x, NEW y, NEW z PROVE IsFiniteSet({w, x, y, z})
      OBVIOUS
    <3>1. IsFiniteSet({w})
      BY FS_Singleton
    <3>2. {w, x} = {w} \cup {x}
      OBVIOUS
    <3>3. IsFiniteSet({w, x})
      BY <3>1, <3>2, FS_AddElement
    <3>4. {w, x, y} = {w, x} \cup {y}
      OBVIOUS
    <3>5. IsFiniteSet({w, x, y})
      BY <3>3, <3>4, FS_AddElement
    <3>6. {w, x, y, z} = {w, x, y} \cup {z}
      OBVIOUS
    <3> QED
      BY <3>5, <3>6, FS_AddElement
  <2> QED
    BY <2>1
<1>6. IsFiniteSet({a, b, c, d} \cup {e, f, g, h})
  BY ONLY <1>4, <1>5, FS_Union
<1>7. {a, b, c, d, e, f, g, h} = {a, b, c, d} \cup {e, f, g, h}
  OBVIOUS
<1> QED
  BY ONLY <1>6, <1>7

AllNames == AllBuiltin \cup {e[1] : e \in AllEnv} \cup AllExternal

\* The tools are finitely many.
LEMMA AllNamesAreFinite == IsFiniteSet(AllNames)
<1>1. IsFiniteSet(AllBuiltin)
  <2>1. {"compliance_copy", "cro"} = {"compliance_copy", "cro", "cro", "cro", "cro", "cro", "cro", "cro"}
    OBVIOUS
  <2> QED
    BY ONLY <2>1, EightAreFinite, FS_Union DEF AllBuiltin
<1>2. IsFiniteSet(AllExternal)
  <2>1. AllExternal = {"repo", "ci", "figma", "merchant_feed", "catalog", "repo", "repo", "repo"}
    BY DEF AllExternal
  <2>2. IsFiniteSet({"repo", "ci", "figma", "merchant_feed", "catalog", "repo", "repo", "repo"})
    BY EightAreFinite
  <2> QED
    BY <2>1, <2>2, Zenon
<1>3. IsFiniteSet({e[1] : e \in AllEnv})
  <2>1. {e[1] : e \in AllEnv}
        = {"incident_queue", "sql_console", "knowledge_base", "social", "email", "outreach",
           "invoicing", "invoicing"}
    BY DEF AllEnv
  <2>2. IsFiniteSet({"incident_queue", "sql_console", "knowledge_base", "social", "email", "outreach",
           "invoicing", "invoicing"})
    BY EightAreFinite
  <2> QED
    BY <2>1, <2>2, Zenon
<1> QED
  BY <1>1, <1>2, <1>3, FS_Union DEF AllNames

\* Nothing is built in and to be set up, or set up by two variables.
LEMMA NamesAreApart ==
  /\ \A e \in AllEnv : e[1] \notin AllBuiltin /\ e[1] \notin AllExternal
  /\ \A t \in AllBuiltin : t \notin AllExternal
  /\ \A e, f \in AllEnv : e[1] = f[1] => e = f
<1>1. \A e \in AllEnv : e[1] \in {"incident_queue", "sql_console", "knowledge_base", "social", "email",
                                  "outreach", "invoicing"}
  BY DEF AllEnv
<1>2. \A t \in AllBuiltin : t \notin AllExternal
  BY DEF AllBuiltin, AllExternal
<1>3. \A t \in {"incident_queue", "sql_console", "knowledge_base", "social", "email",
                "outreach", "invoicing"} : t \notin AllBuiltin /\ t \notin AllExternal
  BY DEF AllBuiltin, AllExternal
<1>4. \A e, f \in AllEnv : e[1] = f[1] => e = f
  BY DEF AllEnv
<1> QED
  BY <1>1, <1>2, <1>3, <1>4

\* A tool is shown once, whatever variables are set.
LEMMA ShownOnce ==
  ASSUME NEW bp, KitWithin(bp), NEW set
  PROVE  Cardinality(Statuses(bp, set)) = Cardinality({x[1] : x \in Statuses(bp, set)})
<1> DEFINE S == Statuses(bp, set)
           N == {x[1] : x \in S}
           f == [x \in S |-> x[1]]
<1>1. \A x \in S : \/ x = <<x[1], "connected">> /\ x[1] \in AllBuiltin
                   \/ \E e \in AllEnv : x = <<e[1], IF e[2] \in set THEN "connected" ELSE "needs_setup">>
                   \/ x = <<x[1], "available">> /\ x[1] \in AllExternal
  BY DEF Statuses, KitWithin
<1>2. \A x, y \in S : x[1] = y[1] => x = y
  BY <1>1, NamesAreApart
<1>3. \A x \in S : x[1] \in AllNames
  BY <1>1 DEF AllNames
<1> HIDE DEF S
<1>f. /\ \A x \in S : f[x] = x[1]
      /\ f \in [S -> AllNames] /\ f \in [S -> N]
  BY <1>3
<1>n. \A t \in N : \E x \in S : f[x] = t
  BY <1>f
<1>i. \A x, y \in S : f[x] = f[y] => x = y
  BY <1>2, <1>f
<1> HIDE DEF f, N
<1>4. f \in Injection(S, AllNames)
  BY <1>f, <1>i DEF Injection, IsInjective
<1>5. IsFiniteSet(S)
  BY <1>4, AllNamesAreFinite, FS_Injection
<1>6. f \in Bijection(S, N)
  BY <1>f, <1>i, <1>n DEF Bijection, Injection, IsInjective, Surjection
<1>7. ExistsBijection(S, N)
  BY <1>6 DEF ExistsBijection
<1> QED
  BY <1>5, <1>7, FS_Bijection DEF S, N

\* A venture's vertical is its own or the one its idea speaks of.
LEMMA VentureVerticalIsSound ==
  ASSUME NEW v \in Verticals, NEW w \in Verticals
  PROVE  VentureVertical(v, {w}) \in {v, w}
<1> DEFINE hits == {i \in DOMAIN VerticalOrder : VerticalOrder[i] \in {w}}
<1>1. v \notin Verticals \ {"generic"} => v = "generic"
  OBVIOUS
<1>2. DOMAIN VerticalOrder = {1, 2, 3, 4, 5, 6, 7, 8, 9}
  BY DEF VerticalOrder
<1>3. \A i, j \in hits : i = j
  BY <1>2 DEF VerticalOrder
<1>4. \A i \in hits : i \in Nat
  BY <1>2
<1>5. hits # {} => VerticalOrder[CHOOSE i \in hits : \A j \in hits : i <= j] = w
  <2>1. ASSUME NEW i \in hits PROVE \A j \in hits : i <= j
    BY <1>3, <1>4, <2>1
  <2>2. hits # {} => \E i \in hits : \A j \in hits : i <= j
    BY <2>1
  <2>3. hits # {} => (CHOOSE i \in hits : \A j \in hits : i <= j) \in hits
    BY <2>2
  <2> QED
    BY <2>3
<1>6. DeriveVertical({w}) \in {"generic", w}
  BY <1>5 DEF DeriveVertical
<1> QED
  BY <1>1, <1>6 DEF VentureVertical

\* The tables are sound whatever the desks do.
LEMMA TablesAreSound == BlueprintsAreSound
<1>1. ASSUME NEW d \in Disciplines, NEW v \in Verticals, NEW set
      PROVE  Cardinality(Statuses(Blueprint(d, v), set))
             = Cardinality({x[1] : x \in Statuses(Blueprint(d, v), set)})
  BY <1>1, BlueprintsAreWithin, ShownOnce
<1> QED
  BY <1>1, DisciplineIsItself, DisciplinesAreConnected, KitsAreWithin, VentureVerticalIsSound
     DEF BlueprintsAreSound

-----------------------------------------------------------------------------
\* Desks, rosters and shelves hold together.
THEOREM DesksHoldAlways == DeskSpec => []DesksHold
<1>1. DeskSpec => []DesksInv
  BY DesksStart, DesksStep, PTL DEF DeskSpec
<1>2. DesksInv => DesksHold
  BY DesksInvSays, TablesAreSound DEF DesksHold
<1> QED
  BY <1>1, <1>2, PTL

-----------------------------------------------------------------------------
(* Scrubbing: the matches that are kept.                                      *)

\* A set of numbers that is not empty has a least one.
LEMMA LeastOf ==
  ASSUME NEW S, S \subseteq Nat, S # {}
  PROVE  \E n \in S : \A m \in S : n <= m
<1> DEFINE R == OpToRel(<, Nat)
<1>1. IsWellFoundedOn(R, Nat)
  BY NatLessThanWellFounded DEF OpToRel
<1>2. \A m, n \in Nat : m < n => <<m, n>> \in R
  BY DEF OpToRel
<1> HIDE DEF R
<1>3. PICK n \in S : \A m \in S : ~ (<<m, n>> \in R)
  BY <1>1, WFMin
<1>4. \A m \in S : ~(m < n)
  BY <1>2, <1>3
<1> QED
  BY <1>4

\* What a match at a cell is.
LEMMA MatchIs ==
  ASSUME ScrubbingAssumption, NEW S, NEW text \in Seq(S), NEW p \in DOMAIN text, NEW a \in MatchesAt(text, p)
  PROVE  /\ a.from = p /\ a.to \in Nat /\ p < a.to /\ a.to <= Len(text) + 1
         /\ a.rank \in DOMAIN Patterns /\ a.type = Patterns[a.rank].type
         /\ a.to = p + Len(Patterns[a.rank].cells)
         /\ SubSeq(text, p, a.to - 1) = Patterns[a.rank].cells
         /\ a = [from |-> p, to |-> a.to, rank |-> a.rank, type |-> a.type]
<1>1. PICK r \in DOMAIN Patterns :
        /\ p + Len(Patterns[r].cells) <= Len(text) + 1
        /\ SubSeq(text, p, p + Len(Patterns[r].cells) - 1) = Patterns[r].cells
        /\ a = [from |-> p, to |-> p + Len(Patterns[r].cells), rank |-> r, type |-> Patterns[r].type]
  BY DEF MatchesAt
<1>2. PICK k : k = Len(Patterns[r].cells)
  OBVIOUS
<1>3. k \in Nat /\ k > 0
  BY <1>2 DEF ScrubbingAssumption
<1>4. p \in Nat /\ Len(text) \in Nat
  OBVIOUS
<1>5. a.from = p /\ a.to = p + k /\ a.rank = r /\ a.type = Patterns[r].type
  BY <1>1, <1>2
<1>6. a.to \in Nat /\ p < a.to /\ a.to <= Len(text) + 1
  BY <1>1, <1>2, <1>3, <1>4, <1>5
<1>7. a = [from |-> p, to |-> a.to, rank |-> a.rank, type |-> a.type]
  BY <1>1, <1>5
<1>8. a.rank \in DOMAIN Patterns /\ a.type = Patterns[a.rank].type
  BY <1>5
<1>9. a.to = p + Len(Patterns[a.rank].cells)
  BY <1>2, <1>5
<1>10. SubSeq(text, p, a.to - 1) = Patterns[a.rank].cells
  <2>1. p + Len(Patterns[r].cells) = a.to
    BY <1>2, <1>5
  <2> QED
    BY <1>1, <1>5, <2>1
<1> QED
  BY <1>5, <1>6, <1>7, <1>8, <1>9, <1>10

\* Where a pattern's cells are found there is its match.
LEMMA MatchFound ==
  ASSUME NEW text, NEW p, NEW r \in DOMAIN Patterns,
         p + Len(Patterns[r].cells) <= Len(text) + 1,
         SubSeq(text, p, p + Len(Patterns[r].cells) - 1) = Patterns[r].cells
  PROVE  [from |-> p, to |-> p + Len(Patterns[r].cells), rank |-> r, type |-> Patterns[r].type] \in MatchesAt(text, p)
  BY DEF MatchesAt

\* Of the matches at a cell there is a first one.
LEMMA FirstIs ==
  ASSUME ScrubbingAssumption, NEW S, NEW text \in Seq(S), NEW p \in DOMAIN text, MatchesAt(text, p) # {}
  PROVE  First(text, p) \in MatchesAt(text, p)
<1> DEFINE M == MatchesAt(text, p)
           n == Len(text) + 1
<1>1. n \in Nat /\ \A a \in M : a.to \in Nat /\ a.to <= n /\ a.rank \in Nat
  BY MatchIs DEF ScrubbingAssumption
<1>2. PICK a \in M : \A b \in M : b.to <= a.to
  <2> DEFINE L == {n - b.to : b \in M}
  <2>1. L \subseteq Nat /\ L # {}
    BY <1>1
  <2>2. PICK l \in L : \A m \in L : l <= m
    BY <2>1, LeastOf
  <2>3. PICK a \in M : l = n - a.to
    BY <2>2
  <2>4. ASSUME NEW b \in M PROVE b.to <= a.to
    <3>1. n - a.to <= n - b.to
      BY <2>2, <2>3
    <3> HIDE DEF M, n
    <3> QED
      BY <3>1, <1>1
  <2> QED
    BY <2>4
<1>3. PICK c \in M : c.to = a.to /\ \A b \in M : b.to = a.to => c.rank <= b.rank
  <2> DEFINE L == {b.rank : b \in {x \in M : x.to = a.to}}
  <2>1. L \subseteq Nat /\ L # {}
    BY <1>1
  <2>2. PICK l \in L : \A m \in L : l <= m
    BY <2>1, LeastOf
  <2> QED
    BY <2>2
<1>4. ASSUME NEW b \in M, b.to = c.to, b.rank = c.rank PROVE b = c
  <2>1. /\ b = [from |-> p, to |-> b.to, rank |-> b.rank, type |-> b.type]
        /\ c = [from |-> p, to |-> c.to, rank |-> c.rank, type |-> c.type]
        /\ b.type = Patterns[b.rank].type /\ c.type = Patterns[c.rank].type
    <3> HIDE DEF M
    <3>1. b \in MatchesAt(text, p) /\ c \in MatchesAt(text, p)
      BY DEF M
    <3> QED
      BY <3>1, MatchIs
  <2> QED
    BY <2>1, <1>4
<1>5. \A b \in M \ {c} : c.to > b.to \/ (c.to = b.to /\ c.rank < b.rank)
  BY <1>1, <1>2, <1>3, <1>4
<1> QED
  BY <1>5 DEF First

\* last_end goes through the cells one by one.
Step(text, p, end) == IF MatchesAt(text, p) # {} /\ p >= end THEN First(text, p).to ELSE end
LEMMA LastEndsIs ==
  ASSUME ScrubbingAssumption, NEW S, NEW text \in Seq(S)
  PROVE  /\ LastEnds(text) \in [0..Len(text) -> Nat] /\ LastEnds(text)[0] = 0
         /\ \A p \in DOMAIN text : LastEnds(text)[p] = Step(text, p, LastEnds(text)[p - 1])
<1> DEFINE n == Len(text)
           F(m) == {f \in [0..m -> Nat] : f[0] = 0 /\ \A p \in 1..m : f[p] = Step(text, p, f[p - 1])}
           Bad == {m \in 0..n : F(m) = {}}
<1>0. n \in Nat /\ DOMAIN text = 1..n
  OBVIOUS
<1>1. \A p \in 1..n, e \in Nat : Step(text, p, e) \in Nat
  BY <1>0, FirstIs, MatchIs DEF Step
<1>2. Bad = {}
  <2> SUFFICES ASSUME Bad # {} PROVE FALSE
    OBVIOUS
  <2>1. PICK m \in Bad : \A k \in Bad : m <= k
    <3>1. Bad \subseteq Nat
      BY <1>0
    <3> HIDE DEF Bad
    <3> QED
      BY <3>1, LeastOf
  <2>2. m \in 0..n /\ F(m) = {}
    OBVIOUS
  <2>3. CASE m = 0
    <3>1. [p \in 0..0 |-> 0] \in F(0)
      OBVIOUS
    <3> QED
      BY <2>2, <2>3, <3>1
  <2>4. CASE m # 0
    <3>1. m - 1 \in 0..n /\ m - 1 \notin Bad
      <4> HIDE DEF Bad, F
      <4> QED
        BY <2>1, <2>2, <2>4, <1>0
    <3>2. PICK f : f \in F(m - 1)
      BY <3>1
    <3>3. f[m - 1] \in Nat /\ Step(text, m, f[m - 1]) \in Nat
      <4>1. m - 1 \in 0..(m - 1) /\ m \in 1..n
        BY <2>2, <2>4, <1>0
      <4>2. f[m - 1] \in Nat
        BY <3>2, <4>1
      <4> QED
        BY <4>1, <4>2, <1>1
    <3> DEFINE g == [p \in 0..m |-> IF p = m THEN Step(text, m, f[m - 1]) ELSE f[p]]
    <3>4. g \in [0..m -> Nat] /\ g[0] = 0
      BY <3>2, <3>3, <2>2, <2>4, <1>0
    <3>5. ASSUME NEW p \in 1..m PROVE g[p] = Step(text, p, g[p - 1])
      <4>1. CASE p = m
        BY <4>1, <2>2, <2>4, <1>0
      <4>2. CASE p # m
        <5>1. p \in 1..(m - 1) /\ p - 1 \in 0..m /\ p - 1 # m
          BY <4>2, <2>2, <1>0
        <5>2. g[p] = f[p] /\ g[p - 1] = f[p - 1]
          BY <5>1, <4>2
        <5> QED
          BY <5>1, <5>2, <3>2
      <4> QED
        BY <4>1, <4>2
    <3>6. g \in F(m)
      BY <3>4, <3>5
    <3> QED
      BY <3>6, <2>2
  <2> QED
    BY <2>3, <2>4
<1>3. PICK f : f \in F(n)
  <2>1. n \in 0..n /\ n \notin Bad
    BY <1>2, <1>0
  <2> QED
    BY <2>1
<1> DEFINE Eq(e) == e = [p \in 0..n |-> IF p = 0 THEN 0
                          ELSE IF MatchesAt(text, p) # {} /\ p >= e[p - 1] THEN First(text, p).to
                          ELSE e[p - 1]]
<1>4. Eq(f)
  <2>1. DOMAIN f = 0..n
    BY <1>3
  <2>2. ASSUME NEW p \in 0..n
        PROVE f[p] = IF p = 0 THEN 0
                          ELSE IF MatchesAt(text, p) # {} /\ p >= f[p - 1] THEN First(text, p).to
                          ELSE f[p - 1]
    <3>1. CASE p = 0
      BY <3>1, <1>3
    <3>2. CASE p # 0
      <4>1. p \in 1..n
        BY <3>2, <1>0
      <4> QED
        BY <3>2, <4>1, <1>3 DEF Step
    <3> QED
      BY <3>1, <3>2
  <2> QED
    BY <2>1, <2>2, <1>3
<1>5. Eq(LastEnds(text))
  BY <1>4 DEF LastEnds
<1>6. DOMAIN LastEnds(text) = 0..n
  BY <1>5
<1>7. LastEnds(text)[0] = 0 /\ \A p \in 1..n : LastEnds(text)[p] = Step(text, p, LastEnds(text)[p - 1])
  <2> DEFINE e == LastEnds(text)
  <2> HIDE DEF e
  <2>1. Eq(e)
    BY <1>5 DEF e
  <2>2. e[0] = 0 /\ \A p \in 1..n : e[p] = Step(text, p, e[p - 1])
    BY <2>1, <1>0 DEF Step
  <2> QED
    BY <2>2 DEF e
<1>8. \A p \in 0..n : LastEnds(text)[p] \in Nat
  <2> DEFINE e == LastEnds(text)
             B == {p \in 0..n : e[p] \notin Nat}
  <2> SUFFICES ASSUME B # {} PROVE FALSE
    OBVIOUS
  <2>1. PICK p \in B : \A k \in B : p <= k
    <3>1. B \subseteq Nat
      BY <1>0
    <3> HIDE DEF B
    <3> QED
      BY <3>1, LeastOf
  <2>2. p \in 1..n /\ e[p] \notin Nat
    BY <1>7, <1>0
  <2>3. p - 1 \in 0..n /\ p - 1 \notin B
    BY <2>1, <2>2, <1>0
  <2>4. e[p - 1] \in Nat
    BY <2>3
  <2> QED
    BY <2>2, <2>4, <1>7, <1>1
<1> QED
  BY <1>0, <1>6, <1>7, <1>8, <1>5

\* The kept matches are found in the text and one has ended when the next begins.
Apart(text, kept) ==
    /\ DOMAIN kept \subseteq DOMAIN text
    /\ \A p \in DOMAIN kept : kept[p].to \in Nat /\ p < kept[p].to /\ kept[p].to <= Len(text) + 1
    /\ \A p, q \in DOMAIN kept : p < q => kept[p].to <= q

LEMMA ScanIs ==
  ASSUME ScrubbingAssumption, NEW S, NEW text \in Seq(S)
  PROVE  /\ DOMAIN Scan(text) = {p \in DOMAIN text : MatchesAt(text, p) # {} /\ p >= LastEnds(text)[p - 1]}
         /\ \A p \in DOMAIN Scan(text) : Scan(text)[p] = First(text, p) /\ Scan(text)[p] \in MatchesAt(text, p)
<1>1. Scan(text) = [p \in {q \in DOMAIN text : MatchesAt(text, q) # {} /\ q >= LastEnds(text)[q - 1]} |-> First(text, p)]
  BY DEF Scan
<1> QED
  BY <1>1, FirstIs

\* last_end is where the last kept match ends, or zero.
LEMMA LastEndIsLast ==
  ASSUME ScrubbingAssumption, NEW S, NEW text \in Seq(S), NEW p \in 0..Len(text)
  PROVE  /\ \A q \in DOMAIN Scan(text) : q <= p => Scan(text)[q].to <= LastEnds(text)[p]
         /\ LastEnds(text)[p] = 0 \/ \E q \in DOMAIN Scan(text) : q <= p /\ LastEnds(text)[p] = Scan(text)[q].to
<1> DEFINE n == Len(text)
           k == Scan(text)
           e == LastEnds(text)
           Upper(i) == \A q \in DOMAIN k : q <= i => k[q].to <= e[i]
           Some(i) == e[i] = 0 \/ \E q \in DOMAIN k : q <= i /\ e[i] = k[q].to
           Bad == {i \in 0..n : ~(Upper(i) /\ Some(i))}
<1>0. n \in Nat /\ DOMAIN text = 1..n
  OBVIOUS
<1>1. e \in [0..n -> Nat] /\ e[0] = 0 /\ \A i \in 1..n : e[i] = Step(text, i, e[i - 1])
  <2>1. /\ LastEnds(text) \in [0..Len(text) -> Nat] /\ LastEnds(text)[0] = 0
        /\ \A i \in DOMAIN text : LastEnds(text)[i] = Step(text, i, LastEnds(text)[i - 1])
    BY LastEndsIs
  <2> QED
    BY <2>1, <1>0
<1>2. /\ DOMAIN k = {i \in 1..n : MatchesAt(text, i) # {} /\ i >= e[i - 1]}
      /\ \A i \in DOMAIN k : k[i] = First(text, i) /\ k[i].to \in Nat /\ i < k[i].to
  <2>1. \A i \in DOMAIN k : k[i] = First(text, i) /\ k[i] \in MatchesAt(text, i) /\ i \in DOMAIN text
    BY ScanIs
  <2>2. \A i \in DOMAIN k : k[i].to \in Nat /\ i < k[i].to
    <3> HIDE DEF k
    <3> QED
      BY <2>1, MatchIs
  <2>3. DOMAIN k = {i \in DOMAIN text : MatchesAt(text, i) # {} /\ i >= e[i - 1]}
    BY ScanIs
  <2> QED
    BY <2>1, <2>2, <2>3, <1>0
<1> HIDE DEF k, e
<1> SUFFICES ASSUME Bad # {} PROVE FALSE
  BY DEF k, e
<1>3. PICK i \in Bad : \A j \in Bad : i <= j
  <2>1. Bad \subseteq Nat
    BY <1>0
  <2> HIDE DEF Bad
  <2> QED
    BY <2>1, LeastOf
<1>4. i \in 0..n /\ ~(Upper(i) /\ Some(i))
  OBVIOUS
<1>5. i # 0
  <2>1. \A q \in DOMAIN k : q >= 1
    BY <1>2
  <2> QED
    BY <1>1, <1>4, <2>1, <1>2
<1>6. i \in 1..n /\ i - 1 \in 0..n /\ i - 1 \notin Bad
  <2> HIDE DEF Bad, Upper, Some
  <2> QED
    BY <1>3, <1>4, <1>5, <1>0
<1>7. Upper(i - 1) /\ Some(i - 1)
  BY <1>6
<1>8. e[i] \in Nat /\ e[i - 1] \in Nat
  BY <1>1, <1>6
<1>9. CASE MatchesAt(text, i) # {} /\ i >= e[i - 1]
  <2>1. i \in DOMAIN k /\ e[i] = k[i].to /\ i < k[i].to
    BY <1>9, <1>1, <1>2, <1>6 DEF Step
  <2>2. Some(i)
    BY <2>1, <1>6
  <2>3. ASSUME NEW q \in DOMAIN k, q <= i PROVE k[q].to <= e[i]
    <3>1. CASE q = i
      BY <3>1, <2>1, <1>8
    <3>2. CASE q # i
      <4>1. q \in 1..n /\ q <= i - 1
        BY <3>2, <2>3, <1>2, <1>6
      <4>2. k[q].to <= e[i - 1] /\ k[q].to \in Nat
        BY <4>1, <1>7, <1>2
      <4> QED
        BY <4>2, <2>1, <1>9, <1>8, <1>6
    <3> QED
      BY <3>1, <3>2
  <2> QED
    BY <2>2, <2>3, <1>4
<1>10. CASE ~(MatchesAt(text, i) # {} /\ i >= e[i - 1])
  <2>1. i \notin DOMAIN k /\ e[i] = e[i - 1]
    BY <1>10, <1>1, <1>2, <1>6 DEF Step
  <2>2. \A q \in DOMAIN k : q <= i <=> q <= i - 1
    BY <2>1, <1>2, <1>6
  <2> QED
    BY <2>1, <2>2, <1>7, <1>4
<1> QED
  BY <1>9, <1>10

LEMMA ScanApart ==
  ASSUME ScrubbingAssumption, NEW S, NEW text \in Seq(S)
  PROVE  Apart(text, Scan(text))
<1>1. \A p \in DOMAIN Scan(text) : p \in DOMAIN text /\ Scan(text)[p] \in MatchesAt(text, p)
  BY ScanIs
<1>2. \A p \in DOMAIN Scan(text) : Scan(text)[p].to \in Nat /\ p < Scan(text)[p].to /\ Scan(text)[p].to <= Len(text) + 1
  BY <1>1, MatchIs
<1>3. ASSUME NEW p \in DOMAIN Scan(text), NEW q \in DOMAIN Scan(text), p < q
      PROVE  Scan(text)[p].to <= q
  <2>1. p \in 1..Len(text) /\ q \in 1..Len(text) /\ q - 1 \in 0..Len(text) /\ p <= q - 1 /\ Len(text) \in Nat
    BY <1>1, <1>3
  <2>2. Scan(text)[p].to <= LastEnds(text)[q - 1] /\ q >= LastEnds(text)[q - 1]
    BY <2>1, LastEndIsLast, ScanIs
  <2>3. LastEnds(text)[q - 1] \in Nat
    BY <2>1, LastEndsIs
  <2> QED
    BY <2>1, <2>2, <2>3, <1>2
<1> QED
  BY <1>1, <1>2, <1>3 DEF Apart

\* A match that is not kept loses to one that begins no later.
LEMMA ScanMissesNone ==
  ASSUME ScrubbingAssumption, NEW S, NEW text \in Seq(S), NEW p \in DOMAIN text, MatchesAt(text, p) # {}
  PROVE  \E q \in DOMAIN Scan(text) : q <= p /\ p < Scan(text)[q].to
<1>1. p \in 1..Len(text) /\ p - 1 \in 0..Len(text)
  OBVIOUS
<1>2. LastEnds(text)[p - 1] \in Nat
  BY <1>1, LastEndsIs
<1>3. CASE p >= LastEnds(text)[p - 1]
  <2>1. p \in DOMAIN Scan(text)
    BY <1>3, ScanIs
  <2> QED
    BY <2>1, ScanApart, <1>1 DEF Apart
<1>4. CASE ~(p >= LastEnds(text)[p - 1])
  <2>1. PICK q \in DOMAIN Scan(text) : q <= p - 1 /\ LastEnds(text)[p - 1] = Scan(text)[q].to
    BY <1>1, <1>2, <1>4, LastEndIsLast
  <2>2. q \in DOMAIN text
    BY <2>1, ScanIs
  <2>3. q \in Nat
    BY <2>2
  <2> QED
    BY <2>1, <2>3, <1>1, <1>2, <1>4
<1> QED
  BY <1>3, <1>4

-----------------------------------------------------------------------------
(* Scrubbing: concatenations.                                                 *)

\* FlattenSeq concatenates from the left.
LEMMA FlattenIs ==
  ASSUME NEW T, NEW s \in Seq(Seq(T)), s # <<>>
  PROVE  \E f \in [1..Len(s) -> Seq(T)] :
            /\ f[1] = s[1] /\ \A i \in 2..Len(s) : f[i] = f[i - 1] \o s[i]
            /\ FlattenSeq(s) = f[Len(s)]
<1> DEFINE n == Len(s)
           Next1(f, i) == IF i = 1 THEN s[i] ELSE f[i - 1] \o s[i]
           F(m) == {f \in [1..m -> Seq(T)] : \A i \in 1..m : f[i] = Next1(f, i)}
           Bad == {m \in 1..n : F(m) = {}}
           Eq(f) == f = [i \in 1..n |-> IF i = 1 THEN s[i] ELSE f[i - 1] \o s[i]]
<1>0. n \in Nat \ {0} /\ \A i \in 1..n : s[i] \in Seq(T)
  OBVIOUS
<1>1. Bad = {}
  <2> SUFFICES ASSUME Bad # {} PROVE FALSE
    OBVIOUS
  <2>1. PICK m \in Bad : \A k \in Bad : m <= k
    <3>1. Bad \subseteq Nat
      OBVIOUS
    <3> HIDE DEF Bad
    <3> QED
      BY <3>1, LeastOf
  <2>2. m \in 1..n /\ F(m) = {}
    OBVIOUS
  <2>3. CASE m = 1
    <3> DEFINE f == [i \in 1..1 |-> s[1]]
    <3>1. f \in [1..1 -> Seq(T)] /\ \A i \in 1..1 : f[i] = s[i] /\ i = 1
      BY <1>0
    <3>2. f \in F(1)
      BY <3>1
    <3> QED
      BY <2>2, <2>3, <3>2
  <2>4. CASE m # 1
    <3>1. m - 1 \in 1..n /\ m - 1 \notin Bad
      <4> HIDE DEF Bad, F
      <4> QED
        BY <2>1, <2>2, <2>4, <1>0
    <3>2. PICK f : f \in F(m - 1)
      BY <3>1
    <3>3. f[m - 1] \o s[m] \in Seq(T)
      <4>1. m - 1 \in 1..(m - 1) /\ m \in 1..n
        BY <2>2, <2>4, <1>0
      <4>2. f[m - 1] \in Seq(T)
        BY <3>2, <4>1
      <4> QED
        BY <4>1, <4>2, <1>0
    <3> DEFINE g == [i \in 1..m |-> IF i = m THEN f[m - 1] \o s[m] ELSE f[i]]
    <3>4. g \in [1..m -> Seq(T)]
      <4>1. ASSUME NEW i \in 1..m, i # m PROVE f[i] \in Seq(T)
        <5>1. i \in 1..(m - 1)
          BY <4>1, <2>2, <1>0
        <5> QED
          BY <5>1, <3>2
      <4> QED
        BY <4>1, <3>3
    <3>5. ASSUME NEW i \in 1..m PROVE g[i] = Next1(g, i)
      <4>1. CASE i = m
        <5>1. i - 1 \in 1..m /\ i - 1 # m /\ i # 1
          BY <4>1, <2>2, <2>4, <1>0
        <5>2. g[i] = f[m - 1] \o s[m] /\ g[i - 1] = f[i - 1]
          BY <5>1, <4>1
        <5> QED
          BY <5>1, <5>2, <4>1
      <4>2. CASE i # m
        <5>1. i \in 1..(m - 1) /\ (i # 1 => i - 1 \in 1..m /\ i - 1 # m)
          BY <4>2, <2>2, <1>0
        <5>2. g[i] = f[i] /\ (i # 1 => g[i - 1] = f[i - 1])
          BY <5>1, <4>2
        <5>3. f[i] = Next1(f, i)
          BY <5>1, <3>2
        <5> QED
          BY <5>1, <5>2, <5>3
      <4> QED
        BY <4>1, <4>2
    <3>6. g \in F(m)
      <4> HIDE DEF g, Next1
      <4> QED
        BY <3>4, <3>5
    <3> QED
      BY <3>6, <2>2
  <2> QED
    BY <2>3, <2>4
<1>2. PICK f : f \in F(n)
  <2>1. n \in 1..n /\ n \notin Bad
    <3>1. n \in 1..n
      BY <1>0
    <3> HIDE DEF F, Bad
    <3> QED
      BY <3>1, <1>1
  <2> QED
    BY <2>1
<1>3. Eq(f)
  BY <1>2
<1>4. ASSUME NEW g, Eq(g) PROVE g = f
  <2> DEFINE B == {i \in 1..n : g[i] # f[i]}
  <2>1. DOMAIN g = 1..n /\ \A i \in 1..n : g[i] = Next1(g, i)
    <3>1. g = [i \in 1..n |-> Next1(g, i)]
      BY <1>4
    <3> HIDE DEF Next1
    <3>2. DOMAIN g = DOMAIN [i \in 1..n |-> Next1(g, i)]
      BY <3>1
    <3>3. ASSUME NEW i \in 1..n PROVE g[i] = [j \in 1..n |-> Next1(g, j)][i]
      BY <3>1
    <3> QED
      BY <3>2, <3>3
  <2>2. DOMAIN f = 1..n /\ \A i \in 1..n : f[i] = Next1(f, i)
    BY <1>2
  <2>3. ASSUME B # {} PROVE FALSE
    <3>1. PICK i \in B : \A k \in B : i <= k
      <4>1. B \subseteq Nat
        OBVIOUS
      <4> HIDE DEF B
      <4> QED
        BY <4>1, <2>3, LeastOf
    <3>2. i \in 1..n /\ g[i] # f[i]
      OBVIOUS
    <3>3. CASE i = 1
      BY <3>2, <3>3, <2>1, <2>2
    <3>4. CASE i # 1
      <4>1. i - 1 \in 1..n /\ i - 1 \notin B
        <5> HIDE DEF B
        <5> QED
          BY <3>1, <3>2, <3>4, <1>0
      <4>2. g[i - 1] = f[i - 1]
        BY <4>1
      <4> QED
        BY <4>2, <3>2, <3>4, <2>1, <2>2
    <3> QED
      BY <3>3, <3>4
  <2>4. \A i \in 1..n : g[i] = f[i]
    BY <2>3
  <2>5. g = [i \in 1..n |-> Next1(g, i)] /\ f = [i \in 1..n |-> f[i]]
    BY <1>2, <1>4
  <2>6. g = [i \in 1..n |-> g[i]]
    BY <2>5
  <2> QED
    BY <2>4, <2>5, <2>6
<1>5. FlattenSeq(s) = f[n]
  <2> DEFINE G == CHOOSE g : Eq(g)
  <2>1. Eq(G)
    BY <1>3
  <2>2. G = f
    <3> HIDE DEF G
    <3> QED
      BY <2>1, <1>4
  <2>3. FlattenSeq(s) = G[n]
    BY <1>0 DEF FlattenSeq
  <2> QED
    BY <2>2, <2>3
<1>6. f \in [1..n -> Seq(T)] /\ f[1] = s[1] /\ \A i \in 2..n : f[i] = f[i - 1] \o s[i]
  <2>1. f \in [1..n -> Seq(T)] /\ \A i \in 1..n : f[i] = Next1(f, i)
    BY <1>2
  <2>2. 1 \in 1..n /\ \A i \in 2..n : i \in 1..n /\ i # 1
    BY <1>0
  <2> QED
    BY <2>1, <2>2
<1> QED
  BY <1>5, <1>6

\* A function that goes through the sequence in the same way ends at the same.
LEMMA FlattenBy ==
  ASSUME NEW T, NEW s \in Seq(Seq(T)), s # <<>>, NEW w,
         w[1] = s[1], \A i \in 2..Len(s) : w[i] = w[i - 1] \o s[i]
  PROVE  FlattenSeq(s) = w[Len(s)]
<1> DEFINE n == Len(s)
<1>0. n \in Nat \ {0}
  OBVIOUS
<1>1. PICK f \in [1..n -> Seq(T)] :
        /\ f[1] = s[1] /\ \A i \in 2..n : f[i] = f[i - 1] \o s[i]
        /\ FlattenSeq(s) = f[n]
  BY FlattenIs
<1> HIDE DEF n
<1> DEFINE B == {i \in 1..n : w[i] # f[i]}
<1>2. ASSUME B # {} PROVE FALSE
  <2>1. PICK i \in B : \A k \in B : i <= k
    <3>1. B \subseteq Nat
      OBVIOUS
    <3> HIDE DEF B
    <3> QED
      BY <3>1, <1>2, LeastOf
  <2>2. i \in 1..n /\ w[i] # f[i]
    OBVIOUS
  <2>3. CASE i = 1
    BY <2>2, <2>3, <1>1
  <2>4. CASE i # 1
    <3>1. i - 1 \in 1..n /\ i - 1 \notin B /\ i \in 2..n
      <4> HIDE DEF B
      <4> QED
        BY <2>1, <2>2, <2>4, <1>0
    <3>2. w[i - 1] = f[i - 1]
      BY <3>1
    <3>3. w[i] = w[i - 1] \o s[i]
      BY <3>1 DEF n
    <3> QED
      BY <3>1, <3>2, <3>3, <2>2, <1>1
  <2> QED
    BY <2>3, <2>4
<1>3. w[n] = f[n]
  <2>1. n \in 1..n
    BY <1>0
  <2> QED
    BY <2>1, <1>2
<1> QED
  BY <1>1, <1>3 DEF n

-----------------------------------------------------------------------------
(* Scrubbing: the masked text, cell by cell.                                  *)

\* The cells of the text that have one in the masked text, and which.
Visible(text, kept) == {p \in DOMAIN text : p \in DOMAIN kept \/ ~Within(kept, p)}
Shown(text, kept, p) == IF p \in DOMAIN kept THEN Placeholder(kept, p) ELSE text[p]

\* g goes through P in order.
Enumerates(g, P) ==
    /\ g \in Seq(Nat) /\ \A i \in DOMAIN g : g[i] \in P
    /\ \A p \in P : \E i \in DOMAIN g : g[i] = p
    /\ \A i, j \in DOMAIN g : i < j => g[i] < g[j]

LEMMA PieceIs ==
  ASSUME NEW S, NEW text \in Seq(S), NEW kept, Apart(text, kept), NEW p \in DOMAIN text
  PROVE  Piece(text, kept, p) = IF p \in Visible(text, kept) THEN <<Shown(text, kept, p)>> ELSE <<>>
  BY DEF Piece, Visible, Shown

LEMMA EnumerateOneMore ==
  ASSUME NEW g, NEW P, Enumerates(g, P), NEW m \in Nat, \A p \in P : p < m
  PROVE  Enumerates(Append(g, m), P \cup {m})
<1> DEFINE h == Append(g, m)
           n == Len(g)
<1>1. g \in Seq(Nat) /\ n \in Nat /\ DOMAIN g = 1..n
  BY DEF Enumerates
<1>2. h \in Seq(Nat) /\ DOMAIN h = 1..(n + 1) /\ h[n + 1] = m /\ \A i \in 1..n : h[i] = g[i]
  BY <1>1
<1> HIDE DEF h, n
<1>3. \A i \in 1..n : g[i] \in P
  BY <1>1 DEF Enumerates
<1>4. \A i \in 1..(n + 1) : i \in 1..n \/ i = n + 1
  BY <1>1
<1>5. \A i \in DOMAIN h : h[i] \in P \cup {m}
  BY <1>2, <1>3, <1>4
<1>6. \A p \in P \cup {m} : \E i \in DOMAIN h : h[i] = p
  <2>1. ASSUME NEW p \in P PROVE \E i \in DOMAIN h : h[i] = p
    <3>1. PICK i \in 1..n : g[i] = p
      BY <1>1 DEF Enumerates
    <3>2. i \in 1..(n + 1)
      BY <3>1, <1>1
    <3> QED
      BY <3>1, <3>2, <1>2
  <2>2. n + 1 \in 1..(n + 1)
    BY <1>1
  <2> QED
    BY <2>1, <2>2, <1>2
<1>7. ASSUME NEW i \in DOMAIN h, NEW j \in DOMAIN h, i < j PROVE h[i] < h[j]
  <2>1. i \in 1..n
    BY <1>2, <1>1, <1>7
  <2>2. CASE j = n + 1
    BY <2>1, <2>2, <1>2, <1>3
  <2>3. CASE j # n + 1
    <3>1. j \in 1..n
      BY <2>3, <1>2, <1>4
    <3>2. g[i] < g[j]
      BY <2>1, <3>1, <1>1, <1>7 DEF Enumerates
    <3> QED
      BY <2>1, <3>1, <3>2, <1>2
  <2> QED
    BY <2>2, <2>3
<1> QED
  BY <1>2, <1>5, <1>6, <1>7 DEF Enumerates, h

\* The masked text shows the visible cells in their order.
LEMMA MaskShows ==
  ASSUME NEW S, NEW text \in Seq(S), NEW kept, Apart(text, kept)
  PROVE  \E g : /\ Enumerates(g, Visible(text, kept))
                /\ MaskMatches(text, kept).text = [i \in DOMAIN g |-> Shown(text, kept, g[i])]
<1> DEFINE n == Len(text)
           V == Visible(text, kept)
           Show(p) == Shown(text, kept, p)
           T == S \cup {Placeholder(kept, p) : p \in DOMAIN kept}
           s == [p \in DOMAIN text |-> Piece(text, kept, p)]
<1>0. n \in Nat /\ DOMAIN text = 1..n /\ \A p \in 1..n : text[p] \in S
  OBVIOUS
<1>1. \A p \in 1..n : Show(p) \in T /\ s[p] = IF p \in V THEN <<Show(p)>> ELSE <<>>
  <2>1. \A p \in 1..n : s[p] = IF p \in V THEN <<Show(p)>> ELSE <<>>
    BY <1>0, PieceIs
  <2>2. \A p \in 1..n : Show(p) \in T
    BY <1>0 DEF Shown
  <2> QED
    BY <2>1, <2>2
<1>2. MaskMatches(text, kept).text = FlattenSeq(s)
  BY DEF MaskMatches
<1>3. V \subseteq 1..n
  BY <1>0 DEF Visible
<1>4. s \in Seq(Seq(T)) /\ Len(s) = n
  <2>1. DOMAIN s = 1..n
    BY <1>0
  <2> HIDE DEF s, T, Show
  <2>2. \A p \in 1..n : s[p] \in Seq(T)
    <3>1. \A x \in T : <<x>> \in Seq(T)
      OBVIOUS
    <3>2. <<>> \in Seq(T)
      OBVIOUS
    <3> QED
      BY <1>1, <3>1, <3>2
  <2>3. s = [p \in 1..n |-> s[p]]
    BY <2>1 DEF s
  <2>4. s \in [1..n -> Seq(T)]
    BY <2>2, <2>3
  <2> QED
    BY <2>4, <1>0
<1> HIDE DEF s, T, Show, V, n
<1>5. CASE n = 0
  <2>1. s = <<>>
    BY <1>4, <1>5
  <2>2. FlattenSeq(s) = <<>>
    BY <2>1 DEF FlattenSeq
  <2>3. V = {}
    BY <1>3, <1>5
  <2>4. Enumerates(<<>>, V)
    BY <2>3 DEF Enumerates
  <2>5. <<>> = [i \in DOMAIN <<>> |-> Show(<<>>[i])]
    OBVIOUS
  <2> QED
    BY <2>2, <2>4, <2>5, <1>2 DEF V, Show
<1>6. CASE n # 0
  <2>0. s # <<>>
    BY <1>0, <1>6, <1>4
  <2>1. PICK f \in [1..n -> Seq(T)] :
          /\ f[1] = s[1] /\ \A i \in 2..n : f[i] = f[i - 1] \o s[i]
          /\ FlattenSeq(s) = f[n]
    <3>1. \E f \in [1..Len(s) -> Seq(T)] :
            /\ f[1] = s[1] /\ \A i \in 2..Len(s) : f[i] = f[i - 1] \o s[i]
            /\ FlattenSeq(s) = f[Len(s)]
      BY <2>0, <1>4, FlattenIs
    <3> QED
      BY <3>1, <1>4
  <2> DEFINE Upto(m) == {p \in V : p <= m}
             Listed(m, shown) == \E g : Enumerates(g, Upto(m)) /\ shown = [i \in DOMAIN g |-> Show(g[i])]
             Bad == {m \in 1..n : ~Listed(m, f[m])}
  <2>5. /\ Upto(0) = {} /\ Upto(n) = V
        /\ \A m \in 1..n : /\ \A p \in Upto(m - 1) : p < m
                           /\ Upto(m) = IF m \in V THEN Upto(m - 1) \cup {m} ELSE Upto(m - 1)
    <3>1. \A p \in V : p \in Nat /\ p >= 1 /\ p <= n
      BY <1>0, <1>3
    <3>2. ASSUME NEW m \in 1..n PROVE \A p \in V : (p < m <=> p <= m - 1) /\ (p <= m <=> p <= m - 1 \/ p = m)
      BY <3>1, <1>0
    <3> QED
      BY <3>1, <3>2, <1>0
  <2>2. ASSUME Bad # {} PROVE FALSE
    <3>1. PICK m \in Bad : \A k \in Bad : m <= k
      <4>1. Bad \subseteq Nat
        OBVIOUS
      <4> HIDE DEF Bad
      <4> QED
        BY <4>1, <2>2, LeastOf
    <3>2. m \in 1..n /\ ~Listed(m, f[m])
      OBVIOUS
    <3> HIDE DEF Upto
    <3>3. \E g : Enumerates(g, Upto(m - 1)) /\ f[m] = [i \in DOMAIN g |-> Show(g[i])] \o s[m]
      <4>1. CASE m = 1
        <5>1. Upto(m - 1) = {}
          BY <4>1, <2>5
        <5>2. Enumerates(<<>>, {})
          BY DEF Enumerates
        <5>3. [i \in DOMAIN <<>> |-> Show(<<>>[i])] = <<>>
          OBVIOUS
        <5>4. s[m] \in Seq(T)
          BY <3>2, <1>4
        <5>5. <<>> \o s[m] = s[m]
          BY <5>4
        <5>6. f[m] = <<>> \o s[m]
          BY <5>5, <2>1, <4>1
        <5> QED
          BY <5>1, <5>2, <5>3, <5>6
      <4>2. CASE m # 1
        <5>1. m - 1 \in 1..n /\ m - 1 \notin Bad /\ m \in 2..n
          <6> HIDE DEF Bad
          <6> QED
            BY <3>1, <3>2, <4>2, <1>0
        <5>2. PICK g : Enumerates(g, Upto(m - 1)) /\ f[m - 1] = [i \in DOMAIN g |-> Show(g[i])]
          BY <5>1
        <5>3. f[m] = f[m - 1] \o s[m]
          BY <5>1, <2>1
        <5> QED
          BY <5>2, <5>3
      <4> QED
        BY <4>1, <4>2
    <3>4. PICK g : Enumerates(g, Upto(m - 1)) /\ f[m] = [i \in DOMAIN g |-> Show(g[i])] \o s[m]
      BY <3>3
    <3> DEFINE a == [i \in DOMAIN g |-> Show(g[i])]
               k == Len(g)
    <3>5. g \in Seq(Nat) /\ k \in Nat /\ DOMAIN g = 1..k /\ \A i \in 1..k : g[i] \in 1..n
      <4>1. Upto(m - 1) \subseteq 1..n
        BY <1>3 DEF Upto
      <4> QED
        BY <4>1, <3>4 DEF Enumerates
    <3>6. a \in Seq(T) /\ Len(a) = k /\ \A i \in 1..k : a[i] = Show(g[i])
      <4> HIDE DEF k
      <4>1. \A i \in 1..k : Show(g[i]) \in T
        BY <3>5, <1>1
      <4>2. a = [i \in 1..k |-> Show(g[i])]
        BY <3>5
      <4> QED
        BY <4>1, <4>2, <3>5
    <3> HIDE DEF k
    <3>7. CASE m \in V
      <4> DEFINE h == Append(g, m)
      <4>1. Enumerates(h, Upto(m))
        <5>1. Upto(m) = Upto(m - 1) \cup {m} /\ \A p \in Upto(m - 1) : p < m
          BY <3>2, <3>7, <2>5
        <5>2. m \in Nat
          BY <3>2
        <5>3. Enumerates(h, Upto(m - 1) \cup {m})
          BY <5>1, <5>2, <3>4, EnumerateOneMore
        <5> QED
          BY <5>1, <5>3
      <4>3. s[m] = <<Show(m)>> /\ Show(m) \in T
        BY <3>7, <1>1, <3>2
      <4>4. DOMAIN h = 1..(k + 1) /\ h[k + 1] = m /\ \A i \in 1..k : h[i] = g[i]
        BY <3>5, <3>2 DEF k
      <4>5. f[m] = [i \in DOMAIN h |-> Show(h[i])]
        <5> DEFINE b == a \o <<Show(m)>>
                   c == [i \in DOMAIN h |-> Show(h[i])]
        <5> HIDE DEF a
        <5>1. b \in Seq(T) /\ DOMAIN b = 1..(k + 1) /\ b[k + 1] = Show(m) /\ \A i \in 1..k : b[i] = a[i]
          <6>1. PICK x \in T : x = Show(m)
            BY <4>3
          <6>2. \A i \in 1..k : (a \o <<x>>)[i] = a[i]
            BY <3>5, <3>6
          <6>3. a \o <<x>> \in Seq(T) /\ DOMAIN (a \o <<x>>) = 1..(k + 1) /\ (a \o <<x>>)[k + 1] = x
            BY <3>5, <3>6
          <6> QED
            BY <6>1, <6>2, <6>3
        <5> HIDE DEF b
        <5>2. DOMAIN c = 1..(k + 1) /\ c[k + 1] = Show(m) /\ \A i \in 1..k : c[i] = Show(g[i])
          <6> HIDE DEF h
          <6>1. k + 1 \in 1..(k + 1) /\ \A i \in 1..k : i \in 1..(k + 1)
            BY <3>5
          <6> QED
            BY <4>4, <6>1
        <5>4. b = [i \in 1..(k + 1) |-> b[i]] /\ c = [i \in 1..(k + 1) |-> c[i]]
          <6>1. c = [i \in 1..(k + 1) |-> c[i]]
            <7> HIDE DEF h
            <7> QED
              BY <4>4
          <6> QED
            BY <5>1, <6>1
        <5> HIDE DEF c
        <5>3. \A i \in 1..(k + 1) : b[i] = c[i]
          <6>1. \A i \in 1..(k + 1) : i \in 1..k \/ i = k + 1
            BY <3>5
          <6> QED
            BY <6>1, <5>1, <5>2, <3>6
        <5>5. b = c
          BY <5>3, <5>4
        <5> QED
          BY <5>5, <3>4, <4>3 DEF a, b, c
      <4> QED
        <5> HIDE DEF h
        <5> QED
          BY <4>1, <4>5, <3>2
    <3>8. CASE m \notin V
      <4>1. s[m] = <<>> /\ f[m] = a \o s[m]
        BY <3>8, <1>1, <3>2, <3>4
      <4>2. a \o <<>> = a
        BY <3>6
      <4>3. Upto(m) = Upto(m - 1)
        BY <3>8, <3>2, <2>5
      <4> QED
        BY <4>1, <4>2, <4>3, <3>4, <3>2
    <3> QED
      BY <3>7, <3>8
  <2>3. Listed(n, f[n])
    <3>1. n \in 1..n
      BY <1>6, <1>0
    <3>2. n \notin Bad
      <4> HIDE DEF Bad
      <4> QED
        BY <2>2
    <3> QED
      BY <3>1, <3>2
  <2>4. PICK g : Enumerates(g, V) /\ f[n] = [i \in DOMAIN g |-> Show(g[i])]
    <3> HIDE DEF Upto
    <3> QED
      BY <2>3, <2>5
  <2> QED
    BY <2>1, <2>4, <1>2 DEF V, Show
<1> QED
  BY <1>5, <1>6

-----------------------------------------------------------------------------
(* Scrubbing: where the shown cells stand.                                    *)

\* Where what stands at a shown cell ends.
End(kept, p) == IF p \in DOMAIN kept THEN kept[p].to ELSE p + 1

LEMMA NextShown ==
  ASSUME NEW S, NEW text \in Seq(S), NEW kept, Apart(text, kept), NEW p \in Visible(text, kept)
  PROVE  /\ p \in 1..Len(text) /\ End(kept, p) \in Nat /\ p < End(kept, p) /\ End(kept, p) <= Len(text) + 1
         /\ End(kept, p) \in Visible(text, kept) \/ End(kept, p) = Len(text) + 1
         /\ \A q \in Visible(text, kept) : q <= p \/ q >= End(kept, p)
<1> DEFINE n == Len(text)
           e == End(kept, p)
<1>1. n \in Nat /\ p \in 1..n /\ DOMAIN text = 1..n /\ DOMAIN kept \subseteq 1..n
  BY DEF Visible, Apart
<1>2. e \in Nat /\ p < e /\ e <= n + 1
  BY <1>1 DEF Apart, End
<1>5. Visible(text, kept) \subseteq Nat
  BY <1>1 DEF Visible
<1> HIDE DEF n
<1>3. ASSUME NEW q \in Visible(text, kept), q > p, q < e PROVE FALSE
  <2>1. p \in DOMAIN kept /\ e = kept[p].to
    BY <1>1, <1>3 DEF End, Visible, n
  <2>2. Within(kept, q)
    BY <2>1, <1>1, <1>3, <1>5 DEF Within
  <2>3. q \in DOMAIN kept
    BY <2>2, <1>3 DEF Visible
  <2> QED
    BY <2>1, <2>3, <1>1, <1>3 DEF Apart
<1>4. ASSUME e <= n, e \notin Visible(text, kept) PROVE FALSE
  <2>1. e \in DOMAIN text /\ e \notin DOMAIN kept /\ Within(kept, e)
    BY <1>1, <1>2, <1>4 DEF Visible
  <2>2. PICK i \in DOMAIN kept : i <= e /\ e < kept[i].to
    BY <2>1 DEF Within
  <2>3. i \in 1..n /\ kept[i].to \in Nat /\ i < e
    BY <2>1, <2>2, <1>1, <1>2 DEF Apart
  <2>4. CASE i > p
    <3>1. i \in Visible(text, kept)
      BY <2>2, <1>1 DEF Visible
    <3> QED
      BY <3>1, <2>3, <2>4, <1>3
  <2>5. CASE i = p
    BY <2>2, <2>3, <2>5, <1>2 DEF End
  <2>6. CASE i < p
    <3>1. kept[i].to <= p
      <4>1. CASE p \in DOMAIN kept
        BY <4>1, <2>2, <2>6 DEF Apart
      <4>2. CASE p \notin DOMAIN kept
        BY <4>2, <2>2, <2>3, <2>6, <1>1 DEF Visible, Within
      <4> QED
        BY <4>1, <4>2
    <3> QED
      BY <3>1, <2>2, <2>3, <1>1, <1>2
  <2> QED
    BY <2>3, <2>4, <2>5, <2>6, <1>1
<1>6. \A q \in Visible(text, kept) : q <= p \/ q >= e
  BY <1>3, <1>5, <1>1, <1>2
<1>7. e \in Visible(text, kept) \/ e = n + 1
  BY <1>1, <1>2, <1>4
<1> QED
  BY <1>1, <1>2, <1>6, <1>7 DEF n

\* What is shown begins with the text, goes on where what is before ends, and ends with it.
LEMMA ShownInTurn ==
  ASSUME NEW S, NEW text \in Seq(S), NEW kept, Apart(text, kept), NEW g, Enumerates(g, Visible(text, kept))
  PROVE  /\ Len(g) \in Nat /\ DOMAIN g = 1..Len(g) /\ (Len(g) = 0 <=> Len(text) = 0)
         /\ \A i \in 1..Len(g) : g[i] \in Visible(text, kept) /\ g[i] \in 1..Len(text)
         /\ Len(g) # 0 => g[1] = 1 /\ End(kept, g[Len(g)]) = Len(text) + 1
         /\ \A i \in 1..Len(g) : i + 1 <= Len(g) => g[i + 1] = End(kept, g[i])
<1> DEFINE n == Len(text)
           k == Len(g)
           V == Visible(text, kept)
<1>1. /\ n \in Nat /\ k \in Nat /\ DOMAIN g = 1..k /\ DOMAIN text = 1..n /\ DOMAIN kept \subseteq 1..n
      /\ V \subseteq 1..n
  BY DEF Visible, Apart, Enumerates
<1>2. /\ \A i \in 1..k : g[i] \in V
      /\ \A p \in V : \E i \in 1..k : g[i] = p
      /\ \A i, j \in 1..k : i < j => g[i] < g[j]
  BY <1>1 DEF Enumerates
<1>3. \A p \in V : /\ End(kept, p) \in Nat /\ p < End(kept, p) /\ End(kept, p) <= n + 1
                   /\ End(kept, p) \in V \/ End(kept, p) = n + 1
                   /\ \A q \in V : q <= p \/ q >= End(kept, p)
  BY NextShown
<1>4. n # 0 => 1 \in V
  <2>1. ASSUME n # 0, 1 \notin DOMAIN kept PROVE ~Within(kept, 1)
    BY <1>1, <2>1 DEF Within
  <2> QED
    BY <2>1, <1>1 DEF Visible
<1>11. V \subseteq Nat
  BY <1>1
<1> HIDE DEF n, k, V
<1>5. k = 0 <=> n = 0
  <2>1. ASSUME k # 0 PROVE n # 0
    <3>1. 1 \in 1..k
      BY <1>1, <2>1
    <3>2. g[1] \in 1..n
      BY <3>1, <1>1, <1>2
    <3> QED
      BY <3>2, <1>1
  <2>2. ASSUME k = 0 PROVE n = 0
    <3>1. 1..k = {}
      BY <2>2
    <3> QED
      BY <3>1, <1>2, <1>4
  <2> QED
    BY <2>1, <2>2
<1>6. ASSUME k # 0 PROVE g[1] = 1
  <2>1. PICK j \in 1..k : g[j] = 1
    <3>1. 1 \in V
      BY <1>4, <1>5, <1>6
    <3> QED
      BY <3>1, <1>2
  <2>2. 1 \in 1..k /\ g[1] \in 1..n
    <3>1. 1 \in 1..k
      BY <1>1, <1>6
    <3>2. g[1] \in V
      BY <3>1, <1>2
    <3> QED
      BY <3>1, <3>2, <1>1
  <2>3. CASE j = 1
    BY <2>1, <2>3
  <2>4. CASE j # 1
    <3>1. g[1] < g[j]
      BY <2>2, <2>4, <1>2
    <3> QED
      BY <3>1, <2>1, <2>2
  <2> QED
    BY <2>3, <2>4
<1>7. ASSUME NEW i \in 1..k, End(kept, g[i]) # n + 1
      PROVE  i + 1 <= k /\ g[i + 1] = End(kept, g[i])
  <2> DEFINE e == End(kept, g[i])
  <2>1. g[i] \in V /\ e \in V /\ g[i] < e
    BY <1>2, <1>3, <1>7
  <2> HIDE DEF e
  <2>2. g[i] \in Nat /\ e \in Nat
    BY <2>1, <1>11
  <2>3. PICK j \in 1..k : g[j] = e
    BY <2>1, <1>2
  <2>4. j > i
    <3>1. CASE j = i
      BY <3>1, <2>1, <2>2, <2>3
    <3>2. CASE j < i
      <4>1. g[j] < g[i]
        BY <3>2, <1>2
      <4> QED
        BY <4>1, <2>1, <2>2, <2>3
    <3> QED
      BY <3>1, <3>2, <1>1
  <2>5. i + 1 \in 1..k
    BY <2>4, <1>1
  <2>6. CASE j = i + 1
    BY <2>3, <2>5, <2>6 DEF e
  <2>7. CASE j # i + 1
    <3>1. g[i + 1] < g[j] /\ g[i] < g[i + 1] /\ g[i + 1] \in V
      BY <2>4, <2>5, <2>7, <1>1, <1>2
    <3>2. g[i + 1] <= g[i] \/ g[i + 1] >= e
      BY <3>1, <2>1, <1>3 DEF e
    <3>3. g[i + 1] \in Nat
      BY <3>1, <1>11
    <3> QED
      BY <3>1, <3>2, <3>3, <2>2, <2>3
  <2> QED
    BY <2>6, <2>7
<1>8. ASSUME NEW i \in 1..k, i + 1 <= k PROVE End(kept, g[i]) # n + 1
  <2>1. i + 1 \in 1..k
    BY <1>1, <1>8
  <2>2. g[i] < g[i + 1] /\ g[i] \in V /\ g[i + 1] \in V
    BY <2>1, <1>1, <1>2
  <2>3. g[i + 1] <= g[i] \/ g[i + 1] >= End(kept, g[i])
    BY <2>2, <1>3
  <2>4. g[i] \in 1..n /\ g[i + 1] \in 1..n
    BY <2>2, <1>1
  <2> QED
    BY <2>2, <2>3, <2>4, <1>1
<1>9. ASSUME k # 0 PROVE End(kept, g[k]) = n + 1
  <2>1. k \in 1..k
    BY <1>1, <1>9
  <2> QED
    BY <2>1, <1>1, <1>7
<1>10. \A i \in 1..k : g[i] \in V /\ g[i] \in 1..n
  BY <1>1, <1>2
<1> QED
  BY <1>1, <1>5, <1>6, <1>7, <1>8, <1>9, <1>10 DEF n, k, V

\* Placeholders of different matches differ.
LEMMA PlaceholdersDiffer ==
  ASSUME NEW S, NEW text \in Seq(S), NEW kept, Apart(text, kept),
         NEW p \in DOMAIN kept, NEW q \in DOMAIN kept, Placeholder(kept, p) = Placeholder(kept, q)
  PROVE  p = q
<1> DEFINE Up(x) == {r \in DOMAIN kept : r <= x /\ kept[r].type = kept[x].type}
<1>1. DOMAIN kept \subseteq 1..Len(text) /\ Len(text) \in Nat
  BY DEF Apart
<1>2. kept[p].type = kept[q].type /\ Cardinality(Up(p)) = Cardinality(Up(q))
  <2> HIDE DEF Up
  <2>1. /\ Placeholder(kept, p).type = kept[p].type /\ Placeholder(kept, q).type = kept[q].type
        /\ Placeholder(kept, p).n = Cardinality(Up(p)) /\ Placeholder(kept, q).n = Cardinality(Up(q))
    BY DEF Placeholder, Up
  <2> QED
    BY <2>1
<1>3. ASSUME NEW x \in DOMAIN kept, NEW y \in DOMAIN kept, x < y, kept[x].type = kept[y].type,
             Cardinality(Up(x)) = Cardinality(Up(y))
      PROVE  FALSE
  <2>1. Up(y) \subseteq 1..Len(text)
    BY <1>1
  <2>2. IsFiniteSet(Up(y))
    <3>1. IsFiniteSet(1..Len(text))
      BY <1>1, FS_Interval
    <3> HIDE DEF Up
    <3> QED
      BY <2>1, <3>1, FS_Subset
  <2>3. Up(x) \subseteq Up(y) /\ y \in Up(y) /\ y \notin Up(x)
    <3>1. x \in Nat /\ y \in Nat /\ \A r \in DOMAIN kept : r \in Nat
      BY <1>1
    <3> QED
      BY <3>1, <1>3
  <2> HIDE DEF Up
  <2>4. Up(x) = Up(y)
    BY <2>2, <2>3, <1>3, FS_Subset
  <2> QED
    BY <2>3, <2>4
<1>4. p \in Nat /\ q \in Nat
  BY <1>1
<1> HIDE DEF Up
<1>5. ~(p < q) /\ ~(q < p)
  BY <1>2, <1>3
<1> QED
  BY <1>4, <1>5

\* What a placeholder stands for.
LEMMA MappingIs ==
  ASSUME NEW S, NEW text \in Seq(S), NEW kept, Apart(text, kept)
  PROVE  /\ DOMAIN MaskMatches(text, kept).mapping = {Placeholder(kept, p) : p \in DOMAIN kept}
         /\ \A p \in DOMAIN kept :
              MaskMatches(text, kept).mapping[Placeholder(kept, p)] = SubSeq(text, p, kept[p].to - 1)
<1> DEFINE H == {Placeholder(kept, p) : p \in DOMAIN kept}
           Of(h) == CHOOSE p \in DOMAIN kept : Placeholder(kept, p) = h
<1>1. MaskMatches(text, kept).mapping = [h \in H |-> SubSeq(text, Of(h), kept[Of(h)].to - 1)]
  BY DEF MaskMatches
<1>2. ASSUME NEW p \in DOMAIN kept PROVE Of(Placeholder(kept, p)) = p
  <2>1. Of(Placeholder(kept, p)) \in DOMAIN kept /\ Placeholder(kept, Of(Placeholder(kept, p))) = Placeholder(kept, p)
    OBVIOUS
  <2> HIDE DEF Of
  <2> QED
    BY <2>1, PlaceholdersDiffer
<1>3. \A p \in DOMAIN kept : Placeholder(kept, p) \in H
  OBVIOUS
<1> HIDE DEF H, Of
<1>4. \A p \in DOMAIN kept :
        MaskMatches(text, kept).mapping[Placeholder(kept, p)] = SubSeq(text, p, kept[p].to - 1)
  BY <1>1, <1>2, <1>3
<1> QED
  BY <1>1, <1>4 DEF H

\* Unmasking gives the text back when each placeholder stands for what it hides.
LEMMA UnmaskGives ==
  ASSUME NEW S, NEW text \in Seq(S), NEW kept, Apart(text, kept), NEW g, Enumerates(g, Visible(text, kept)),
         NEW out, NEW mapping, DOMAIN out = DOMAIN g,
         \A i \in DOMAIN g :
            IF g[i] \in DOMAIN kept
            THEN out[i] \in DOMAIN mapping /\ mapping[out[i]] = SubSeq(text, g[i], kept[g[i]].to - 1)
            ELSE out[i] \notin DOMAIN mapping /\ out[i] = text[g[i]]
  PROVE  Unmask(out, mapping) = text
<1> DEFINE n == Len(text)
           k == Len(g)
           e(i) == End(kept, g[i])
           s == [i \in DOMAIN out |-> IF out[i] \in DOMAIN mapping THEN mapping[out[i]] ELSE <<out[i]>>]
           w == [i \in 1..k |-> SubSeq(text, 1, e(i) - 1)]
<1>1. /\ n \in Nat /\ k \in Nat /\ DOMAIN g = 1..k /\ (k = 0 <=> n = 0)
      /\ k # 0 => g[1] = 1 /\ e(k) = n + 1
      /\ \A i \in 1..k : i + 1 <= k => g[i + 1] = e(i)
  BY ShownInTurn
<1>2. \A i \in 1..k : g[i] \in 1..n /\ g[i] \in Visible(text, kept) /\ e(i) \in Nat /\ g[i] < e(i) /\ e(i) <= n + 1
  <2>1. \A i \in 1..k : g[i] \in Visible(text, kept)
    BY ShownInTurn
  <2> QED
    BY <2>1, NextShown
<1>3. Unmask(out, mapping) = FlattenSeq(s)
  BY DEF Unmask
<1>4. \A i \in 1..k : s[i] = SubSeq(text, g[i], e(i) - 1)
  <2> SUFFICES ASSUME NEW i \in 1..k PROVE s[i] = SubSeq(text, g[i], e(i) - 1)
    OBVIOUS
  <2>1. CASE g[i] \in DOMAIN kept
    BY <1>1, <2>1 DEF End
  <2>2. CASE g[i] \notin DOMAIN kept
    <3>1. s[i] = <<text[g[i]]>> /\ e(i) = g[i] + 1
      BY <1>1, <2>2 DEF End
    <3>2. g[i] \in 1..n /\ g[i] + 1 - 1 = g[i]
      BY <1>2
    <3>3. PICK p \in 1..n : p = g[i]
      BY <3>2
    <3>4. SubSeq(text, p, p) = <<text[p]>>
      <4>1. text[p] \in S /\ p \in Int
        BY <1>1
      <4>2. PICK q : q = SubSeq(text, p, p)
        OBVIOUS
      <4>3. q \in Seq(S) /\ Len(q) = 1 /\ q[1] = text[p]
        <5>1. p..p = {p} /\ p - p + 1 = 1 /\ p + 1 - 1 = p /\ p <= p
          BY <4>1
        <5> QED
          BY <4>1, <4>2, <5>1, SubSeqProperties
      <4>4. q = <<text[p]>>
        BY <4>3
      <4> QED
        BY <4>2, <4>4
    <3>5. e(i) - 1 = p
      BY <3>1, <3>2, <3>3
    <3> HIDE DEF s, e, n
    <3> QED
      BY <3>1, <3>3, <3>4, <3>5
  <2> QED
    BY <2>1, <2>2
<1>5. DOMAIN s = 1..k
  BY <1>1
<1> HIDE DEF s, n, k, e
<1>6. \A a \in 1..(n + 1), b \in 0..n : SubSeq(text, a, b) \in Seq(S)
  BY DEF n
<1>7. s \in Seq(Seq(S)) /\ Len(s) = k
  <2>1. \A i \in 1..k : s[i] \in Seq(S)
    <3> SUFFICES ASSUME NEW i \in 1..k PROVE s[i] \in Seq(S)
      OBVIOUS
    <3>1. g[i] \in 1..(n + 1) /\ e(i) - 1 \in 0..n
      BY <1>1, <1>2
    <3> QED
      BY <3>1, <1>4, <1>6
  <2>2. s = [i \in 1..k |-> s[i]]
    BY <1>5 DEF s
  <2>3. s \in [1..k -> Seq(S)] /\ k \in Nat
    BY <1>1, <2>1, <2>2
  <2> QED
    BY <2>3
<1>8. CASE k = 0
  <2>1. s = <<>>
    BY <1>7, <1>8
  <2>2. text = <<>>
    BY <1>1, <1>8 DEF n
  <2> QED
    BY <2>1, <2>2, <1>3 DEF FlattenSeq
<1>9. CASE k # 0
  <2>1. s # <<>> /\ k \in 1..k /\ 1 \in 1..k
    BY <1>1, <1>7, <1>9
  <2>2. w[1] = s[1]
    BY <2>1, <1>1, <1>4, <1>9
  <2>3. ASSUME NEW i \in 2..k PROVE w[i] = w[i - 1] \o s[i]
    <3>1. i - 1 \in 1..k /\ i \in 1..k /\ i - 1 + 1 = i
      BY <1>1
    <3>2. g[i] = e(i - 1)
      BY <3>1, <1>1
    <3>3. w[i - 1] = SubSeq(text, 1, g[i] - 1) /\ w[i] = SubSeq(text, 1, e(i) - 1)
          /\ s[i] = SubSeq(text, g[i], e(i) - 1)
      BY <3>1, <3>2, <1>4
    <3>4. PICK a \in 0..n, b \in 0..n : a = g[i] - 1 /\ b = e(i) - 1 /\ a <= b /\ a + 1 = g[i]
      <4>1. g[i] \in 1..n /\ e(i) \in Nat /\ g[i] < e(i) /\ e(i) <= n + 1
        BY <3>1, <1>2
      <4>2. g[i] - 1 \in 0..n /\ e(i) - 1 \in 0..n /\ g[i] - 1 <= e(i) - 1 /\ g[i] - 1 + 1 = g[i]
        BY <4>1, <1>1
      <4> QED
        BY <4>2
    <3>5. SubSeq(text, 1, a) \o SubSeq(text, a + 1, b) = SubSeq(text, 1, b)
      <4>1. 1 \in 1..(n + 1) /\ a \in 0..n /\ b \in a..n /\ a \in (1 - 1)..n
        BY <3>4, <1>1
      <4> QED
        BY <4>1, ConcatAdjacentSubSeq DEF n
    <3> HIDE DEF w
    <3> QED
      BY <3>3, <3>4, <3>5
  <2>4. w[k] = text
    <3>1. w[k] = SubSeq(text, 1, n)
      BY <2>1, <1>1, <1>9
    <3> QED
      BY <3>1, SubSeqFull DEF n
  <2>5. FlattenSeq(s) = w[Len(s)]
    <3> HIDE DEF w
    <3> QED
      BY <2>1, <2>2, <2>3, <1>7, FlattenBy
  <2> QED
    BY <2>4, <2>5, <1>3, <1>7
<1> QED
  BY <1>8, <1>9

-----------------------------------------------------------------------------
(* Scrubbing: what detectors find in what is masked, minimized or joined.     *)

\* A pattern is there, cell by cell.
Fits(text, p, r) ==
    LET cells == Patterns[r].cells
    IN  p + Len(cells) <= Len(text) + 1 /\ \A j \in 1..Len(cells) : text[p + j - 1] = cells[j]
Clean(text) == \A p \in DOMAIN text, r \in DOMAIN Patterns : ~Fits(text, p, r)

LEMMA PatternIs ==
  ASSUME ScrubbingAssumption, NEW r \in DOMAIN Patterns
  PROVE  /\ Len(Patterns[r].cells) \in Nat /\ Len(Patterns[r].cells) > 0
         /\ \A j \in 1..Len(Patterns[r].cells) :
              "type" \notin DOMAIN Patterns[r].cells[j] /\ Patterns[r].cells[j] # Marker
<1> DEFINE cells == Patterns[r].cells
<1>1. /\ cells \in Seq(ToSet(cells)) /\ cells # <<>>
      /\ \A c \in ToSet(cells) : "type" \notin DOMAIN c /\ c # Marker
  BY DEF ScrubbingAssumption
<1> HIDE DEF cells
<1>2. Len(cells) \in Nat /\ Len(cells) > 0 /\ \A j \in 1..Len(cells) : cells[j] \in ToSet(cells)
  BY <1>1
<1> QED
  BY <1>1, <1>2 DEF cells

LEMMA MatchFits ==
  ASSUME ScrubbingAssumption, NEW S, NEW text \in Seq(S), NEW p \in DOMAIN text, NEW a \in MatchesAt(text, p)
  PROVE  a.rank \in DOMAIN Patterns /\ Fits(text, p, a.rank)
<1> DEFINE cells == Patterns[a.rank].cells
           k == Len(cells)
<1>1. /\ a.rank \in DOMAIN Patterns /\ a.to <= Len(text) + 1 /\ a.to = p + Len(cells)
      /\ SubSeq(text, p, a.to - 1) = cells
  BY MatchIs
<1>2. p \in Nat /\ p >= 1 /\ Len(text) \in Nat /\ \A i \in 1..Len(text) : text[i] \in S
  OBVIOUS
<1>3. k \in Nat /\ k > 0
  BY <1>1, PatternIs
<1> HIDE DEF k
<1>4. a.to - 1 \in Int /\ a.to - 1 - p + 1 = k /\ a.to - 1 <= Len(text)
  <2>1. a.to = p + k
    BY <1>1 DEF k
  <2>2. p + k - 1 \in Int /\ p + k - 1 - p + 1 = k
    BY <1>2, <1>3
  <2>3. p + k <= Len(text) + 1
    BY <1>1, <2>1
  <2>4. p + k - 1 <= Len(text)
    BY <1>2, <1>3, <2>3
  <2> QED
    BY <1>2, <1>3, <2>1, <2>2, <2>4
<1>5. \A i \in p..(a.to - 1) : text[i] \in S
  BY <1>2, <1>4
<1>6. \A j \in 1..k : cells[j] = text[p + j - 1]
  <2>1. \A j \in 1..(a.to - 1 - p + 1) : SubSeq(text, p, a.to - 1)[j] = text[p + j - 1]
    BY <1>2, <1>4, <1>5, SubSeqProperties
  <2> QED
    BY <2>1, <1>1, <1>4
<1> QED
  BY <1>1, <1>6 DEF Fits, k

LEMMA FitMatches ==
  ASSUME ScrubbingAssumption, NEW S, NEW text \in Seq(S), NEW p \in DOMAIN text,
         NEW r \in DOMAIN Patterns, Fits(text, p, r)
  PROVE  MatchesAt(text, p) # {}
<1> DEFINE cells == Patterns[r].cells
           k == Len(cells)
           q == SubSeq(text, p, p + k - 1)
<1>1. p + k <= Len(text) + 1 /\ \A j \in 1..k : text[p + j - 1] = cells[j]
  BY DEF Fits
<1>2. p \in Nat /\ p >= 1 /\ Len(text) \in Nat /\ \A i \in 1..Len(text) : text[i] \in S
  OBVIOUS
<1>3. k \in Nat /\ k > 0
  BY PatternIs
<1>4. cells \in Seq(ToSet(cells))
  BY DEF ScrubbingAssumption
<1> HIDE DEF k
<1>5. /\ p + k - 1 \in Int /\ p + k - 1 - p + 1 = k /\ p <= p + k - 1
      /\ \A i \in p..(p + k - 1) : text[i] \in S
  BY <1>1, <1>2, <1>3
<1>6. q \in Seq(S) /\ Len(q) = k /\ \A j \in 1..k : q[j] = text[p + j - 1]
  <2>1. PICK e \in Int : e = p + k - 1
    BY <1>2, <1>3
  <2>2. e - p + 1 = k /\ p <= e /\ \A i \in p..e : text[i] \in S
    BY <1>2, <1>3, <1>5, <2>1
  <2>3. /\ SubSeq(text, p, e) \in Seq(S) /\ Len(SubSeq(text, p, e)) = e - p + 1
        /\ \A j \in 1..(e - p + 1) : SubSeq(text, p, e)[j] = text[p + j - 1]
    BY <1>2, <2>2, SubSeqProperties
  <2> QED
    BY <2>1, <2>2, <2>3
<1>7. q = cells
  <2>1. DOMAIN q = 1..k /\ DOMAIN cells = 1..k /\ \A j \in 1..k : q[j] = cells[j]
    <3> HIDE DEF q, cells
    <3> QED
      BY <1>1, <1>3, <1>4, <1>6 DEF k
  <2>2. q = [j \in 1..k |-> q[j]] /\ cells = [j \in 1..k |-> cells[j]]
    <3> HIDE DEF q, cells
    <3> QED
      BY <1>4, <1>6, <2>1
  <2> HIDE DEF q, cells
  <2> QED
    BY <2>1, <2>2
<1> HIDE DEF q
<1> QED
  BY <1>1, <1>7, MatchFound DEF k, q

LEMMA SpansFit ==
  ASSUME ScrubbingAssumption, NEW S, NEW text \in Seq(S)
  PROVE  Spans(text) = {} <=> Clean(text)
<1>1. Spans(text) = {} <=> \A p \in DOMAIN text : MatchesAt(text, p) = {}
  BY DEF Spans
<1> QED
  BY <1>1, MatchFits, FitMatches DEF Clean

\* No detector finds anything in a masked text.
LEMMA MaskIsClean ==
  ASSUME ScrubbingAssumption, NEW S, NEW text \in Seq(S)
  PROVE  Spans(Mask(text).text) = {}
<1> DEFINE kept == Scan(text)
           m == Mask(text).text
           U == {Shown(text, kept, p) : p \in Visible(text, kept)}
<1>1. Apart(text, kept)
  BY ScanApart
<1>2. PICK g : Enumerates(g, Visible(text, kept)) /\ m = [i \in DOMAIN g |-> Shown(text, kept, g[i])]
  <2>1. m = MaskMatches(text, kept).text
    BY DEF Mask
  <2> HIDE DEF m, kept
  <2> QED
    BY <2>1, <1>1, MaskShows
<1>3. /\ Len(g) \in Nat /\ DOMAIN g = 1..Len(g)
      /\ \A i \in 1..Len(g) : g[i] \in Visible(text, kept) /\ g[i] \in 1..Len(text)
      /\ Len(g) # 0 => g[1] = 1 /\ End(kept, g[Len(g)]) = Len(text) + 1
      /\ \A i \in 1..Len(g) : i + 1 <= Len(g) => g[i + 1] = End(kept, g[i])
  BY <1>1, <1>2, ShownInTurn
<1>4. m \in Seq(U) /\ Len(m) = Len(g) /\ \A i \in 1..Len(g) : m[i] = Shown(text, kept, g[i])
  <2>1. m = [i \in 1..Len(g) |-> Shown(text, kept, g[i])]
    BY <1>2, <1>3
  <2> HIDE DEF m, kept
  <2>2. m \in [1..Len(g) -> U]
    BY <2>1, <1>3
  <2> QED
    BY <2>1, <2>2, <1>3
<1> HIDE DEF m, U
<1>5. SUFFICES ASSUME NEW i \in DOMAIN m, NEW r \in DOMAIN Patterns, Fits(m, i, r) PROVE FALSE
  BY <1>4, SpansFit DEF Clean, m
<1> DEFINE cells == Patterns[r].cells
           k == Len(cells)
<1>6. k \in Nat /\ k > 0 /\ \A j \in 1..k : "type" \notin DOMAIN cells[j]
  BY PatternIs
<1>7. i \in Nat /\ i >= 1 /\ i + k <= Len(g) + 1 /\ \A j \in 1..k : m[i + j - 1] = cells[j]
  BY <1>4, <1>3, <1>5 DEF Fits
<1> HIDE DEF cells, k
<1>8. ASSUME NEW j \in 1..k
      PROVE  i + j - 1 \in 1..Len(g) /\ g[i + j - 1] \notin DOMAIN kept /\ text[g[i + j - 1]] = cells[j]
  <2>1. i + j - 1 \in 1..Len(g)
    BY <1>3, <1>6, <1>7
  <2>2. PICK p : p = g[i + j - 1]
    OBVIOUS
  <2>3. Shown(text, kept, p) = cells[j]
    BY <2>1, <2>2, <1>4, <1>7
  <2>4. p \notin DOMAIN kept
    <3>1. "type" \in DOMAIN Placeholder(kept, p)
      BY DEF Placeholder
    <3> QED
      BY <3>1, <2>3, <1>6 DEF Shown
  <2> QED
    BY <2>1, <2>2, <2>3, <2>4 DEF Shown
<1> DEFINE Bad == {j \in 1..k : g[i + j - 1] # g[i] + j - 1}
<1>9. g[i] \in 1..Len(text) /\ g[i] \in Visible(text, kept)
  BY <1>3, <1>6, <1>7
<1>10. ASSUME Bad # {} PROVE FALSE
  <2>1. PICK j \in Bad : \A x \in Bad : j <= x
    <3>1. Bad \subseteq Nat
      OBVIOUS
    <3> HIDE DEF Bad
    <3> QED
      BY <3>1, <1>10, LeastOf
  <2>2. j \in 1..k /\ g[i + j - 1] # g[i] + j - 1
    OBVIOUS
  <2>3. j # 1
    <3>1. i + 1 - 1 = i /\ g[i] + 1 - 1 = g[i]
      BY <1>7, <1>9
    <3> QED
      BY <3>1, <2>2
  <2>4. j - 1 \in 1..k /\ j - 1 \notin Bad
    <3>1. j - 1 \in 1..k /\ j - 1 < j
      BY <2>2, <2>3, <1>6
    <3> HIDE DEF Bad
    <3> QED
      BY <3>1, <2>1, <2>2
  <2> DEFINE q == i + (j - 1) - 1
  <2>5. g[q] = g[i] + (j - 1) - 1
    BY <2>4
  <2>6. q \in 1..Len(g) /\ g[q] \notin DOMAIN kept
    BY <2>4, <1>8
  <2>7. q + 1 = i + j - 1 /\ q + 1 <= Len(g)
    <3>1. i + j - 1 \in 1..Len(g) /\ j \in Nat
      BY <2>2, <1>8
    <3> QED
      BY <3>1, <1>7
  <2>8. g[q + 1] = g[q] + 1
    BY <2>6, <2>7, <1>3 DEF End
  <2>9. g[i] \in Nat /\ j \in Nat
    BY <1>9, <2>2
  <2> HIDE DEF q
  <2>10. g[i] + (j - 1) - 1 + 1 = g[i] + j - 1
    BY <2>9
  <2> QED
    BY <2>2, <2>5, <2>7, <2>8, <2>10
<1>11. \A j \in 1..k : g[i] + j - 1 = g[i + j - 1]
  BY <1>10
<1>12. Fits(text, g[i], r)
  <2>1. \A j \in 1..k : text[g[i] + j - 1] = cells[j]
    BY <1>8, <1>11
  <2>2. g[i] + k <= Len(text) + 1
    <3>1. k \in 1..k
      BY <1>6
    <3>2. g[i + k - 1] = g[i] + k - 1 /\ i + k - 1 \in 1..Len(g)
      BY <3>1, <1>8, <1>11
    <3>3. g[i + k - 1] \in 1..Len(text)
      BY <3>2, <1>3
    <3> QED
      BY <3>2, <3>3, <1>6, <1>9
  <2> QED
    BY <2>1, <2>2 DEF Fits, k, cells
<1>13. MatchesAt(text, g[i]) # {} /\ g[i] \in DOMAIN text
  BY <1>9, <1>12, FitMatches
<1>14. Within(kept, g[i])
  BY <1>13, ScanMissesNone DEF Within
<1>15. g[i] \notin DOMAIN kept
  <2>1. 1 \in 1..k /\ i + 1 - 1 = i
    BY <1>6, <1>7
  <2> QED
    BY <2>1, <1>8
<1> QED
  BY <1>9, <1>14, <1>15 DEF Visible

-----------------------------------------------------------------------------
(* Scrubbing: minimized texts, and the prompt beside the system text.         *)

LEMMA MinimizeIs ==
  ASSUME ScrubbingAssumption, NEW S, NEW text \in Seq(S)
  PROVE  /\ Minimize(text) \in Seq(S \cup {Marker})
         /\ Len(Minimize(text)) = IF Len(text) > MaxText THEN MaxText + 1 ELSE Len(text)
         /\ \A i \in 1..Len(Minimize(text)) :
              Minimize(text)[i] = IF Len(text) > MaxText /\ i = MaxText + 1 THEN Marker ELSE text[i]
<1> DEFINE n == Len(text)
<1>1. n \in Nat /\ MaxText \in Nat /\ \A i \in 1..n : text[i] \in S
  BY DEF ScrubbingAssumption
<1>2. CASE n > MaxText
  <2> DEFINE q == SubSeq(text, 1, MaxText)
  <2>1. q \in Seq(S) /\ Len(q) = MaxText /\ \A i \in 1..MaxText : q[i] = text[i]
    <3>1. \A i \in 1..MaxText : text[i] \in S
      BY <1>1, <1>2
    <3>2. 1 \in Int /\ MaxText \in Int /\ MaxText - 1 + 1 = MaxText /\ \A i \in 1..MaxText : 1 + i - 1 = i
      BY <1>1
    <3>3. /\ q \in Seq(S) /\ Len(q) = (IF 1 <= MaxText THEN MaxText - 1 + 1 ELSE 0)
          /\ \A i \in 1..(MaxText - 1 + 1) : q[i] = text[1 + i - 1]
      BY <3>1, <3>2, SubSeqProperties
    <3> HIDE DEF q
    <3> QED
      BY <3>2, <3>3, <1>1
  <2>2. Minimize(text) = Append(q, Marker)
    BY <1>2 DEF Minimize
  <2> HIDE DEF q
  <2>3. q \in Seq(S \cup {Marker}) /\ Marker \in S \cup {Marker}
    BY <2>1
  <2>4. /\ Append(q, Marker) \in Seq(S \cup {Marker}) /\ Len(Append(q, Marker)) = MaxText + 1
        /\ \A i \in 1..(MaxText + 1) : Append(q, Marker)[i] = IF i = MaxText + 1 THEN Marker ELSE q[i]
    BY <2>1, <2>3, <1>1, AppendProperties
  <2>5. \A i \in 1..(MaxText + 1) : i # MaxText + 1 => i \in 1..MaxText
    BY <1>1
  <2> HIDE DEF n
  <2> QED
    BY <2>1, <2>2, <2>4, <2>5, <1>2 DEF n
<1>3. CASE ~(n > MaxText)
  <2>1. Minimize(text) = text
    BY <1>3 DEF Minimize
  <2> QED
    BY <2>1, <1>1, <1>3
<1> QED
  BY <1>2, <1>3

\* The minimizer makes no match: its mark is in no pattern.
LEMMA MinimizedFits ==
  ASSUME ScrubbingAssumption, NEW S, NEW text \in Seq(S), NEW p \in DOMAIN Minimize(text),
         NEW r \in DOMAIN Patterns, Fits(Minimize(text), p, r)
  PROVE  p \in DOMAIN text /\ Fits(text, p, r)
<1> DEFINE m == Minimize(text)
           n == Len(text)
           cells == Patterns[r].cells
           k == Len(cells)
<1>1. n \in Nat /\ MaxText \in Nat /\ DOMAIN text = 1..n
  BY DEF ScrubbingAssumption
<1>2. k \in Nat /\ k > 0 /\ \A j \in 1..k : cells[j] # Marker
  BY PatternIs
<1>3. /\ Len(m) = (IF n > MaxText THEN MaxText + 1 ELSE n) /\ DOMAIN m = 1..Len(m)
      /\ \A i \in 1..Len(m) : m[i] = IF n > MaxText /\ i = MaxText + 1 THEN Marker ELSE text[i]
  <2>1. m \in Seq(S \cup {Marker})
    BY MinimizeIs
  <2> HIDE DEF m
  <2>2. DOMAIN m = 1..Len(m)
    BY <2>1
  <2> QED
    BY <2>2, MinimizeIs DEF m
<1>4. p \in 1..Len(m) /\ p + k <= Len(m) + 1 /\ \A j \in 1..k : m[p + j - 1] = cells[j]
  BY <1>3 DEF Fits
<1> HIDE DEF m, n, cells, k
<1>5. Len(m) \in Nat
  BY <1>1, <1>3
<1>6. \A j \in 1..k : p + j - 1 \in 1..Len(m)
  BY <1>2, <1>4, <1>5
<1>7. \A j \in 1..k : ~(n > MaxText /\ p + j - 1 = MaxText + 1) /\ text[p + j - 1] = cells[j]
  <2> SUFFICES ASSUME NEW j \in 1..k
               PROVE  ~(n > MaxText /\ p + j - 1 = MaxText + 1) /\ text[p + j - 1] = cells[j]
    OBVIOUS
  <2>1. PICK i \in 1..Len(m) : i = p + j - 1
    BY <1>6
  <2>2. m[i] = cells[j] /\ cells[j] # Marker
    BY <2>1, <1>2, <1>4
  <2>3. m[i] = IF n > MaxText /\ i = MaxText + 1 THEN Marker ELSE text[i]
    BY <1>3
  <2> QED
    BY <2>1, <2>2, <2>3
<1>8. p + k <= n + 1
  <2>1. k \in 1..k
    BY <1>2
  <2>2. ~(n > MaxText /\ p + k - 1 = MaxText + 1)
    BY <2>1, <1>7
  <2>3. p \in Nat
    BY <1>4, <1>5
  <2> QED
    BY <2>2, <2>3, <1>1, <1>2, <1>3, <1>4
<1>9. p \in DOMAIN text
  BY <1>1, <1>2, <1>4, <1>5, <1>8
<1> QED
  BY <1>7, <1>8, <1>9 DEF Fits, n, cells, k

\* A prompt stands in a text from a place on.
StandsIn(prompt, text, d) ==
    Len(text) = d + Len(prompt) /\ \A i \in 1..Len(prompt) : text[d + i] = prompt[i]

LEMMA CombinedIs ==
  ASSUME NEW U, NEW prompt \in Seq(U), NEW system \in Seq(U), [raw |-> "newline"] \in U
  PROVE  Combined(prompt, system) \in Seq(U) /\ \E d \in Nat : StandsIn(prompt, Combined(prompt, system), d)
<1> DEFINE x == [raw |-> "newline"]
<1>1. x \in U
  OBVIOUS
<1> HIDE DEF x
<1>2. CASE system = <<>>
  <2>1. Combined(prompt, system) = prompt
    BY <1>2 DEF Combined
  <2>2. 0 \in Nat /\ StandsIn(prompt, prompt, 0)
    BY DEF StandsIn
  <2> QED
    BY <2>1, <2>2
<1>3. CASE system # <<>>
  <2> DEFINE a == system \o <<x>>
             d == Len(system) + 1
             n == Len(prompt)
  <2>1. Combined(prompt, system) = a \o prompt
    BY <1>3 DEF Combined, x
  <2>2. a \in Seq(U) /\ Len(a) = d /\ d \in Nat
    BY <1>1
  <2> HIDE DEF a, d
  <2>3. a \o prompt \in Seq(U) /\ Len(a \o prompt) = d + n /\ n \in Nat
    BY <2>2
  <2>4. ASSUME NEW i \in 1..n PROVE (a \o prompt)[d + i] = prompt[i]
    <3>1. d + i \in 1..(d + n) /\ d + i > d /\ d + i - d = i
      BY <2>2, <2>3
    <3> HIDE DEF n
    <3>2. PICK j \in 1..(d + n) : j = d + i /\ j > d /\ j - d = i
      BY <3>1, <2>2, <2>3
    <3>3. (a \o prompt)[j] = prompt[j - d]
      BY <2>2, <2>3, <3>2, ConcatProperties DEF n
    <3> QED
      BY <3>2, <3>3
  <2> QED
    BY <2>1, <2>2, <2>3, <2>4 DEF StandsIn
<1> QED
  BY <1>2, <1>3

\* What is found nowhere in the two texts is not found in the minimized prompt.
LEMMA CombinedClean ==
  ASSUME ScrubbingAssumption, NEW S, NEW prompt \in Seq(S), NEW system \in Seq(S),
         Spans(Combined(prompt, system)) = {}
  PROVE  Spans(Minimize(prompt)) = {} /\ Spans(prompt) = {}
<1> DEFINE c == Combined(prompt, system)
           U == S \cup {[raw |-> "newline"]}
<1>0. c \in Seq(U) /\ \E d \in Nat : StandsIn(prompt, c, d)
  <2>1. prompt \in Seq(U) /\ system \in Seq(U) /\ [raw |-> "newline"] \in U
    OBVIOUS
  <2> HIDE DEF U
  <2> QED
    BY <2>1, CombinedIs
<1> HIDE DEF U
<1>1. c \in Seq(U) /\ Clean(c)
  <2>1. c \in Seq(U)
    BY <1>0
  <2> QED
    BY <2>1, SpansFit
<1>2. PICK d \in Nat : Len(c) = d + Len(prompt) /\ \A i \in 1..Len(prompt) : c[d + i] = prompt[i]
  BY <1>0 DEF StandsIn
<1> HIDE DEF c, U
<1>3. Clean(prompt)
  <2> SUFFICES ASSUME NEW p \in DOMAIN prompt, NEW r \in DOMAIN Patterns, Fits(prompt, p, r) PROVE FALSE
    BY DEF Clean
  <2> DEFINE cells == Patterns[r].cells
             k == Len(cells)
  <2>1. k \in Nat /\ k > 0
    BY PatternIs
  <2>2. p + k <= Len(prompt) + 1 /\ \A j \in 1..k : prompt[p + j - 1] = cells[j]
    BY DEF Fits
  <2>3. p \in 1..Len(prompt) /\ Len(prompt) \in Nat /\ DOMAIN c = 1..Len(c)
    BY <1>1
  <2> HIDE DEF cells, k
  <2>4. d + p \in 1..Len(c) /\ d + p + k <= Len(c) + 1
    <3>1. PICK n \in Nat : n = Len(prompt)
      BY <2>3
    <3>2. p \in 1..n /\ p + k <= n + 1 /\ Len(c) = d + n
      BY <1>2, <2>2, <2>3, <3>1
    <3> QED
      BY <2>1, <3>1, <3>2
  <2>5. \A j \in 1..k : p + j - 1 \in 1..Len(prompt) /\ d + (p + j - 1) = d + p + j - 1
    <3>1. PICK n \in Nat : n = Len(prompt)
      BY <2>3
    <3>2. p \in 1..n /\ p + k <= n + 1
      BY <2>2, <2>3, <3>1
    <3> QED
      BY <2>1, <3>1, <3>2
  <2>6. \A j \in 1..k : c[d + p + j - 1] = cells[j]
    BY <1>2, <2>2, <2>5
  <2>7. Fits(c, d + p, r)
    BY <2>4, <2>6 DEF Fits, cells, k
  <2> QED
    BY <1>1, <2>3, <2>4, <2>7 DEF Clean
<1>4. Clean(Minimize(prompt))
  BY <1>3, MinimizedFits DEF Clean
<1>5. Minimize(prompt) \in Seq(S \cup {Marker})
  BY MinimizeIs
<1> QED
  BY <1>3, <1>4, <1>5, SpansFit

-----------------------------------------------------------------------------
(* Scrubbing: counting cells.                                                 *)

\* As many places of g hold one of Q as there are elements of Q among what g goes through.
LEMMA SameSize ==
  ASSUME NEW g, NEW P, Enumerates(g, P), NEW Q \in SUBSET P
  PROVE  Cardinality({i \in DOMAIN g : g[i] \in Q}) = Cardinality(Q)
<1> DEFINE I == {i \in DOMAIN g : g[i] \in Q}
           h == [i \in I |-> g[i]]
<1>1. g \in Seq(Nat) /\ Len(g) \in Nat /\ DOMAIN g = 1..Len(g)
  BY DEF Enumerates
<1>2. IsFiniteSet(I)
  <2>1. IsFiniteSet(1..Len(g)) /\ I \in SUBSET (1..Len(g))
    BY <1>1, FS_Interval
  <2> HIDE DEF I
  <2> QED
    BY <2>1, FS_Subset
<1>3. h \in [I -> Q]
  OBVIOUS
<1>4. \A q \in Q : \E i \in I : h[i] = q
  BY DEF Enumerates
<1>5. \A i, j \in I : h[i] = h[j] => i = j
  <2> SUFFICES ASSUME NEW i \in I, NEW j \in I, g[i] = g[j], i # j PROVE FALSE
    OBVIOUS
  <2>1. i \in 1..Len(g) /\ j \in 1..Len(g) /\ g[i] \in Nat /\ g[j] \in Nat
    BY <1>1
  <2>2. i < j \/ j < i
    BY <2>1
  <2>3. g[i] < g[j] \/ g[j] < g[i]
    BY <2>1, <2>2, <1>1 DEF Enumerates
  <2> QED
    BY <2>1, <2>3
<1> HIDE DEF I, h
<1>6. h \in Bijection(I, Q)
  BY <1>3, <1>4, <1>5 DEF Bijection, Injection, Surjection, IsInjective
<1> QED
  BY <1>2, <1>6, FS_Bijection DEF ExistsBijection, I

\* When no two matches overlap all are kept: the cells of none are those outside the kept.
LEMMA FreeIs ==
  ASSUME ScrubbingAssumption, NEW S, NEW text \in Seq(S), ~Crosses(text)
  PROVE  {p \in DOMAIN text : \A e \in Spans(text) : p < e.from \/ e.to <= p}
           = {p \in DOMAIN text : ~Within(Scan(text), p)}
<1> DEFINE kept == Scan(text)
<1>1. /\ DOMAIN text \subseteq Nat /\ DOMAIN kept \subseteq DOMAIN text
      /\ \A z \in DOMAIN kept : kept[z] \in MatchesAt(text, z) /\ kept[z].from = z /\ kept[z].to \in Nat /\ z < kept[z].to
      /\ \A z \in DOMAIN kept : kept[z] \in Spans(text)
  <2>1. DOMAIN text \subseteq Nat
    OBVIOUS
  <2>2. \A z \in DOMAIN kept : z \in DOMAIN text /\ kept[z] \in MatchesAt(text, z)
    BY ScanIs
  <2> HIDE DEF kept
  <2>3. \A z \in DOMAIN kept : kept[z].from = z /\ kept[z].to \in Nat /\ z < kept[z].to
    BY <2>2, MatchIs
  <2>4. \A z \in DOMAIN kept : kept[z] \in Spans(text)
    BY <2>2 DEF Spans
  <2> QED
    BY <2>1, <2>2, <2>3, <2>4
<1>2. ASSUME NEW e \in Spans(text)
      PROVE  e.from \in DOMAIN kept /\ kept[e.from] = e
  <2>1. PICK q \in DOMAIN text : e \in MatchesAt(text, q)
    BY DEF Spans
  <2>2. e.from = q /\ e.to \in Nat /\ q < e.to /\ q \in Nat
    BY <2>1, MatchIs, <1>1
  <2>3. PICK z \in DOMAIN kept : z <= q /\ q < kept[z].to
    BY <2>1, ScanMissesNone
  <2> HIDE DEF kept
  <2>4. Overlap(kept[z], e)
    BY <2>2, <2>3, <1>1 DEF Overlap
  <2>5. kept[z] = e
    BY <2>4, <1>1 DEF Crosses
  <2> QED
    BY <2>5, <1>1
<1> HIDE DEF kept
<1>3. ASSUME NEW p \in DOMAIN text
      PROVE  (\A e \in Spans(text) : p < e.from \/ e.to <= p) <=> ~Within(kept, p)
  <2>1. ASSUME \A e \in Spans(text) : p < e.from \/ e.to <= p, NEW z \in DOMAIN kept, z <= p, p < kept[z].to
        PROVE  FALSE
    <3>1. p < kept[z].from \/ kept[z].to <= p
      BY <2>1, <1>1
    <3>2. p \in Nat /\ z \in Nat
      BY <1>1
    <3> QED
      BY <3>1, <3>2, <2>1, <1>1
  <2>2. ASSUME ~Within(kept, p), NEW e \in Spans(text)
        PROVE  p < e.from \/ e.to <= p
    <3>1. e.from \in DOMAIN kept /\ ~(e.from <= p /\ p < e.to)
      BY <2>2, <1>2 DEF Within
    <3>2. e.to \in Nat /\ e.from \in Nat /\ p \in Nat
      BY <3>1, <1>1, <1>2
    <3> QED
      BY <3>1, <3>2
  <2> QED
    BY <2>1, <2>2 DEF Within
<1> QED
  BY <1>3 DEF kept

-----------------------------------------------------------------------------
(* Scrubbing: what a masked text gives back, and what is counted in it.       *)

NoneTyped(text) == \A p \in DOMAIN text : "type" \notin DOMAIN text[p]
AllRaw(text) == \A p \in DOMAIN text : "raw" \in DOMAIN text[p]

LEMMA MinimizedIsUntyped ==
  ASSUME ScrubbingAssumption, NEW S, NEW text \in Seq(S), NoneTyped(text)
  PROVE  NoneTyped(Minimize(text))
<1>1. "type" \notin DOMAIN Marker
  BY DEF Marker
<1>2. /\ DOMAIN Minimize(text) = 1..Len(Minimize(text))
      /\ \A i \in 1..Len(Minimize(text)) :
           Minimize(text)[i] = Marker \/ (i \in DOMAIN text /\ Minimize(text)[i] = text[i])
  <2>1. Minimize(text) \in Seq(S \cup {Marker}) /\ Len(text) \in Nat /\ MaxText \in Nat /\ DOMAIN text = 1..Len(text)
    BY MinimizeIs DEF ScrubbingAssumption
  <2> SUFFICES ASSUME NEW i \in 1..Len(Minimize(text))
               PROVE  Minimize(text)[i] = Marker \/ (i \in DOMAIN text /\ Minimize(text)[i] = text[i])
    BY <2>1
  <2>2. /\ Len(Minimize(text)) = IF Len(text) > MaxText THEN MaxText + 1 ELSE Len(text)
        /\ Minimize(text)[i] = IF Len(text) > MaxText /\ i = MaxText + 1 THEN Marker ELSE text[i]
    BY MinimizeIs
  <2>3. ~(Len(text) > MaxText /\ i = MaxText + 1) => i \in DOMAIN text
    BY <2>1, <2>2
  <2> QED
    BY <2>2, <2>3
<1> QED
  BY <1>1, <1>2 DEF NoneTyped

\* The masked text, cell by cell.
LEMMA MaskedIs ==
  ASSUME ScrubbingAssumption, NEW S, NEW text \in Seq(S)
  PROVE  \E g : /\ Enumerates(g, Visible(text, Scan(text))) /\ DOMAIN Mask(text).text = DOMAIN g
                /\ \A i \in DOMAIN g :
                     /\ g[i] \in Visible(text, Scan(text)) /\ g[i] \in DOMAIN text
                     /\ Mask(text).text[i] = Shown(text, Scan(text), g[i])
                /\ Len(g) \in Nat /\ DOMAIN g = 1..Len(g) /\ (Len(g) = 0 <=> Len(text) = 0)
<1> DEFINE kept == Scan(text)
           m == Mask(text).text
<1>1. Apart(text, kept)
  BY ScanApart
<1>2. m = MaskMatches(text, kept).text
  BY DEF Mask
<1> HIDE DEF m, kept
<1>3. PICK g : Enumerates(g, Visible(text, kept)) /\ m = [i \in DOMAIN g |-> Shown(text, kept, g[i])]
  BY <1>1, <1>2, MaskShows
<1>4. /\ Len(g) \in Nat /\ DOMAIN g = 1..Len(g) /\ (Len(g) = 0 <=> Len(text) = 0)
      /\ \A i \in 1..Len(g) : g[i] \in Visible(text, kept)
  BY <1>1, <1>3, ShownInTurn
<1>5. \A i \in DOMAIN g : g[i] \in DOMAIN text
  BY <1>4 DEF Visible
<1> QED
  BY <1>3, <1>4, <1>5 DEF m, kept

\* A text masked and perhaps renamed comes back if every name still stands for what it did.
LEMMA UnmaskMasked ==
  ASSUME ScrubbingAssumption, NEW S, NEW text \in Seq(S), NoneTyped(text), NEW out, NEW names,
         \A h \in DOMAIN names : "type" \in DOMAIN h,
         DOMAIN out = DOMAIN Mask(text).text,
         \A i \in DOMAIN out :
            IF Mask(text).text[i] \in DOMAIN Mask(text).mapping
            THEN out[i] \in DOMAIN names /\ names[out[i]] = Mask(text).mapping[Mask(text).text[i]]
            ELSE out[i] = Mask(text).text[i]
  PROVE  Unmask(out, names) = text
<1> DEFINE kept == Scan(text)
           m == Mask(text)
<1>1. Apart(text, kept)
  BY ScanApart
<1>2. /\ DOMAIN m.mapping = {Placeholder(kept, p) : p \in DOMAIN kept}
      /\ \A p \in DOMAIN kept : m.mapping[Placeholder(kept, p)] = SubSeq(text, p, kept[p].to - 1)
  <2>1. m = MaskMatches(text, kept)
    BY DEF Mask
  <2> HIDE DEF m, kept
  <2> QED
    BY <1>1, <2>1, MappingIs
<1>3. PICK g : /\ Enumerates(g, Visible(text, kept)) /\ DOMAIN m.text = DOMAIN g
               /\ \A i \in DOMAIN g : g[i] \in DOMAIN text /\ m.text[i] = Shown(text, kept, g[i])
  BY MaskedIs
<1>4. \A i \in DOMAIN g :
        IF m.text[i] \in DOMAIN m.mapping
        THEN out[i] \in DOMAIN names /\ names[out[i]] = m.mapping[m.text[i]]
        ELSE out[i] = m.text[i]
  BY <1>3
<1> HIDE DEF m, kept
<1>5. ASSUME NEW i \in DOMAIN g
      PROVE  IF g[i] \in DOMAIN kept
             THEN out[i] \in DOMAIN names /\ names[out[i]] = SubSeq(text, g[i], kept[g[i]].to - 1)
             ELSE out[i] \notin DOMAIN names /\ out[i] = text[g[i]]
  <2>1. CASE g[i] \in DOMAIN kept
    <3>1. m.text[i] = Placeholder(kept, g[i])
      BY <1>3, <2>1 DEF Shown
    <3> QED
      BY <3>1, <2>1, <1>2, <1>4
  <2>2. CASE g[i] \notin DOMAIN kept
    <3>1. m.text[i] = text[g[i]] /\ "type" \notin DOMAIN text[g[i]]
      BY <1>3, <2>2 DEF Shown, NoneTyped
    <3>2. \A h \in DOMAIN m.mapping : "type" \in DOMAIN h
      <4>1. \A p : "type" \in DOMAIN Placeholder(kept, p)
        BY DEF Placeholder
      <4> QED
        BY <4>1, <1>2
    <3>3. out[i] = text[g[i]]
      BY <3>1, <3>2, <1>4
    <3> QED
      BY <3>1, <3>3, <2>2
  <2> QED
    BY <2>1, <2>2
<1>6. DOMAIN out = DOMAIN g
  BY <1>3 DEF m
<1> QED
  BY <1>1, <1>3, <1>5, <1>6, UnmaskGives

\* A text without placeholders is what it is unmasked to.
LEMMA UnmaskNothing ==
  ASSUME NEW S, NEW text \in Seq(S)
  PROVE  Unmask(text, <<>>) = text
<1> DEFINE g == [i \in 1..Len(text) |-> i]
           none == [i \in {} |-> i]
<1>1. Apart(text, none)
  BY DEF Apart
<1>2. DOMAIN text = 1..Len(text) /\ Len(text) \in Nat /\ DOMAIN g = DOMAIN text
  OBVIOUS
<1>3. Visible(text, none) = 1..Len(text)
  BY <1>2 DEF Visible, Within
<1>4. Enumerates(g, Visible(text, none))
  <2>1. g \in Seq(Nat)
    BY <1>2
  <2> QED
    BY <1>2, <1>3, <2>1 DEF Enumerates
<1>5. \A i \in DOMAIN g : g[i] \notin DOMAIN none /\ text[i] \notin DOMAIN <<>> /\ text[i] = text[g[i]]
  BY <1>2
<1> HIDE DEF g, none
<1> QED
  BY <1>1, <1>2, <1>4, <1>5, UnmaskGives

\* The two masked texts come back with one mapping.
LEMMA JoinedGivesBack ==
  ASSUME ScrubbingAssumption, NEW S, NEW one \in Seq(S), NEW two \in Seq(S), NoneTyped(one), NoneTyped(two)
  PROVE  LET j == Joined(Mask(one), Mask(two))
         IN  Unmask(j.prompt, j.mapping) = one /\ Unmask(j.system, j.mapping) = two
<1> DEFINE p == Mask(one)
           s == Mask(two)
           j == Joined(p, s)
           taken == DOMAIN p.mapping
           names == {Renamed(h, taken) : h \in DOMAIN s.mapping}
<1>1. /\ \A h \in DOMAIN p.mapping : "type" \in DOMAIN h /\ h.sys = FALSE
      /\ \A h \in DOMAIN s.mapping : h = [type |-> h.type, sys |-> FALSE, n |-> h.n]
  <2>1. \A kept, q : /\ "type" \in DOMAIN Placeholder(kept, q) /\ Placeholder(kept, q).sys = FALSE
                     /\ Placeholder(kept, q) = [type |-> Placeholder(kept, q).type, sys |-> FALSE, n |-> Placeholder(kept, q).n]
    BY DEF Placeholder
  <2>2. /\ DOMAIN p.mapping = {Placeholder(Scan(one), q) : q \in DOMAIN Scan(one)}
        /\ DOMAIN s.mapping = {Placeholder(Scan(two), q) : q \in DOMAIN Scan(two)}
    <3>1. p = MaskMatches(one, Scan(one)) /\ s = MaskMatches(two, Scan(two))
      BY DEF Mask
    <3>2. Apart(one, Scan(one)) /\ Apart(two, Scan(two))
      BY ScanApart
    <3> HIDE DEF p, s
    <3> QED
      BY <3>1, <3>2, MappingIs
  <2> HIDE DEF p, s
  <2> QED
    BY <2>1, <2>2
<1>2. /\ j.prompt = p.text /\ DOMAIN j.system = DOMAIN s.text /\ DOMAIN j.mapping = taken \cup names
      /\ \A i \in DOMAIN s.text :
           j.system[i] = IF s.text[i] \in DOMAIN s.mapping THEN Renamed(s.text[i], taken) ELSE s.text[i]
      /\ \A h \in taken : j.mapping[h] = p.mapping[h]
      /\ \A h \in names : h \notin taken =>
           j.mapping[h] = s.mapping[IF h.sys THEN [h EXCEPT !.sys = FALSE] ELSE h]
  <2> HIDE DEF p, s
  <2> QED
    BY DEF Joined
<1> HIDE DEF p, s, j
<1>3. ASSUME NEW h \in DOMAIN s.mapping
      PROVE  /\ Renamed(h, taken) \in names /\ Renamed(h, taken) \notin taken
             /\ "type" \in DOMAIN Renamed(h, taken) /\ j.mapping[Renamed(h, taken)] = s.mapping[h]
  <2>0. h = [type |-> h.type, sys |-> FALSE, n |-> h.n]
    BY <1>1
  <2>1. CASE h \in taken
    <3> DEFINE r == [type |-> h.type, sys |-> TRUE, n |-> h.n]
    <3>1. Renamed(h, taken) = r
      BY <2>0, <2>1 DEF Renamed
    <3>2. r \notin taken
      <4>1. r.sys = TRUE
        OBVIOUS
      <4> QED
        BY <4>1, <1>1
    <3>3. [r EXCEPT !.sys = FALSE] = h /\ r.sys /\ "type" \in DOMAIN r
      BY <2>0
    <3>4. r \in names
      BY <3>1
    <3> HIDE DEF r, names, taken
    <3> QED
      BY <3>1, <3>2, <3>3, <3>4, <1>2
  <2>2. CASE h \notin taken
    <3>1. Renamed(h, taken) = h
      BY <2>2 DEF Renamed
    <3>2. h.sys = FALSE /\ "type" \in DOMAIN h /\ h \in names
      <4>1. h.sys = FALSE /\ "type" \in DOMAIN h
        BY <2>0
      <4> QED
        BY <4>1, <3>1
    <3> HIDE DEF names, taken
    <3> QED
      BY <3>1, <3>2, <2>2, <1>2
  <2> QED
    BY <2>1, <2>2
<1>4. \A h \in DOMAIN j.mapping : "type" \in DOMAIN h
  BY <1>1, <1>2, <1>3
<1>5. ASSUME NEW i \in DOMAIN p.text, p.text[i] \in DOMAIN p.mapping
      PROVE  p.text[i] \in DOMAIN j.mapping /\ j.mapping[p.text[i]] = p.mapping[p.text[i]]
  BY <1>2, <1>5
<1>6. ASSUME NEW i \in DOMAIN s.text
      PROVE  IF s.text[i] \in DOMAIN s.mapping
             THEN j.system[i] \in DOMAIN j.mapping /\ j.mapping[j.system[i]] = s.mapping[s.text[i]]
             ELSE j.system[i] = s.text[i]
  <2> HIDE DEF names, taken
  <2> QED
    BY <1>2, <1>3
<1>7. Unmask(j.prompt, j.mapping) = one
  BY <1>2, <1>4, <1>5, UnmaskMasked DEF p
<1>8. Unmask(j.system, j.mapping) = two
  <2>1. /\ DOMAIN j.system = DOMAIN s.text
        /\ \A i \in DOMAIN j.system :
             IF s.text[i] \in DOMAIN s.mapping
             THEN j.system[i] \in DOMAIN j.mapping /\ j.mapping[j.system[i]] = s.mapping[s.text[i]]
             ELSE j.system[i] = s.text[i]
    BY <1>2, <1>6
  <2>2. PICK out, map : out = j.system /\ map = j.mapping
    OBVIOUS
  <2> HIDE DEF names, taken
  <2>3. Unmask(out, map) = two
    BY <2>1, <2>2, <1>4, UnmaskMasked DEF s
  <2> QED
    BY <2>2, <2>3
<1> QED
  BY <1>7, <1>8 DEF j, p, s

\* A masked text has a placeholder for each kept match, and the cells of none in the clear.
LEMMA MaskCounts ==
  ASSUME ScrubbingAssumption, NEW S, NEW text \in Seq(S), NoneTyped(text)
  PROVE  /\ Cardinality({i \in DOMAIN Mask(text).text : "type" \in DOMAIN Mask(text).text[i]})
              = Cardinality(DOMAIN Scan(text))
         /\ AllRaw(text) =>
              Cardinality({i \in DOMAIN Mask(text).text : "raw" \in DOMAIN Mask(text).text[i]})
                = Cardinality({p \in DOMAIN text : ~Within(Scan(text), p)})
<1> DEFINE kept == Scan(text)
           m == Mask(text).text
           V == Visible(text, kept)
           F == {p \in DOMAIN text : ~Within(kept, p)}
<1>1. PICK g : /\ Enumerates(g, V) /\ DOMAIN m = DOMAIN g
               /\ \A i \in DOMAIN g : g[i] \in V /\ g[i] \in DOMAIN text /\ m[i] = Shown(text, kept, g[i])
  BY MaskedIs
<1>2. DOMAIN kept \in SUBSET V /\ F \in SUBSET V /\ \A p \in V : p \in F <=> p \notin DOMAIN kept
  <2>1. Apart(text, kept)
    BY ScanApart
  <2>2. DOMAIN kept \subseteq DOMAIN text /\ \A p \in DOMAIN kept : p \in Nat /\ p < kept[p].to
    BY <2>1 DEF Apart
  <2>3. \A p \in DOMAIN kept : Within(kept, p)
    BY <2>2 DEF Within
  <2> QED
    BY <2>2, <2>3 DEF Visible
<1>3. \A p : "type" \in DOMAIN Placeholder(kept, p) /\ "raw" \notin DOMAIN Placeholder(kept, p)
  BY DEF Placeholder
<1> HIDE DEF m, kept, V, F
<1>4. \A i \in DOMAIN g : "type" \in DOMAIN m[i] <=> g[i] \in DOMAIN kept
  BY <1>1, <1>3 DEF Shown, NoneTyped
<1>5. AllRaw(text) => \A i \in DOMAIN g : "raw" \in DOMAIN m[i] <=> g[i] \in F
  BY <1>1, <1>2, <1>3 DEF Shown, AllRaw
<1>6. {i \in DOMAIN m : "type" \in DOMAIN m[i]} = {i \in DOMAIN g : g[i] \in DOMAIN kept}
  BY <1>1, <1>4
<1>7. AllRaw(text) => {i \in DOMAIN m : "raw" \in DOMAIN m[i]} = {i \in DOMAIN g : g[i] \in F}
  BY <1>1, <1>5
<1>8. Cardinality({i \in DOMAIN g : g[i] \in DOMAIN kept}) = Cardinality(DOMAIN kept)
  BY <1>1, <1>2, SameSize
<1>9. Cardinality({i \in DOMAIN g : g[i] \in F}) = Cardinality(F)
  BY <1>1, <1>2, SameSize
<1> QED
  BY <1>6, <1>7, <1>8, <1>9 DEF m, kept, F

-----------------------------------------------------------------------------
(* Scrubbing: what the guard makes of a prompt.                               *)

LEMMA GuardMakes ==
  ASSUME NEW m \in {"MASK", "STRICT"}, NEW prompt, NEW system
  PROVE  /\ Blocked(m, prompt, system) => Process(m, prompt, system).prompt = <<>>
         /\ ~Blocked(m, prompt, system) =>
              \/ /\ Process(m, prompt, system) =
                      [prompt |-> Minimize(prompt), system |-> Minimize(system), mapping |-> <<>>]
                 /\ Spans(Combined(prompt, system)) = {}
              \/ Process(m, prompt, system) = Joined(Mask(Minimize(prompt)), Mask(Minimize(system)))
<1> DEFINE text == Combined(prompt, system)
           o == Evaluate(m, Classify(text))
<1>1. o \in {"block", "mask", "minimize"}
  BY DEF Evaluate
<1>2. o = "minimize" => Spans(text) = {}
  <2> DEFINE c == Classify(text)
  <2>1. o = "minimize" => c # "RESTRICTED" /\ c # "CONFIDENTIAL"
    <3> HIDE DEF c
    <3>1. Evaluate(m, c) = "minimize" => c # "RESTRICTED" /\ c # "CONFIDENTIAL"
      BY DEF Evaluate
    <3> QED
      BY <3>1 DEF c
  <2>2. ToSet(text) \cap Restricted # {} => c = "RESTRICTED"
    BY DEF Classify
  <2>3. ToSet(text) \cap Restricted = {} /\ Spans(text) # {} => c = "CONFIDENTIAL"
    BY DEF Classify
  <2> HIDE DEF c, o, text
  <2> QED
    BY <2>1, <2>2, <2>3
<1>3. Process(m, prompt, system) = Outcome(o, prompt, system) /\ (Blocked(m, prompt, system) <=> o = "block")
  BY DEF Process, Blocked
<1> HIDE DEF o, text
<1>4. o = "block" => Outcome(o, prompt, system).prompt = <<>>
  BY DEF Outcome
<1>5. o = "minimize" => Outcome(o, prompt, system) =
                          [prompt |-> Minimize(prompt), system |-> Minimize(system), mapping |-> <<>>]
  BY DEF Outcome
<1>6. o = "mask" => Outcome(o, prompt, system) = Joined(Mask(Minimize(prompt)), Mask(Minimize(system)))
  BY DEF Outcome
<1> QED
  BY <1>1, <1>2, <1>3, <1>4, <1>5, <1>6 DEF text

LEMMA NothingInNothing == Spans(<<>>) = {}
  BY DEF Spans

\* Nothing is found in what the guard hands on, and it hands something on of something.
LEMMA GuardedIsClean ==
  ASSUME ScrubbingAssumption, NEW S, NEW prompt \in Seq(S), NEW system \in Seq(S), NEW m \in {"MASK", "STRICT"}
  PROVE  /\ Spans(Process(m, prompt, system).prompt) = {}
         /\ ~Blocked(m, prompt, system) /\ prompt # <<>> => Process(m, prompt, system).prompt # <<>>
<1> DEFINE q == Process(m, prompt, system)
           U == S \cup {Marker}
           least == Minimize(prompt)
<1>1. least \in Seq(U) /\ (prompt # <<>> => Len(least) # 0)
  <2>1. /\ least \in Seq(U) /\ Len(least) = IF Len(prompt) > MaxText THEN MaxText + 1 ELSE Len(prompt)
    BY MinimizeIs
  <2>2. MaxText \in Nat /\ Len(prompt) \in Nat /\ (prompt # <<>> => Len(prompt) # 0)
    BY DEF ScrubbingAssumption
  <2> QED
    BY <2>1, <2>2
<1>2. CASE Blocked(m, prompt, system)
  BY <1>2, GuardMakes, NothingInNothing
<1>3. ASSUME Spans(Combined(prompt, system)) = {}, q.prompt = least, NEW z, z = 0
      PROVE  Spans(q.prompt) = {} /\ (prompt # <<>> => q.prompt # <<>>)
  <2>1. Spans(least) = {}
    BY <1>3, CombinedClean
  <2>2. least = <<>> => Len(least) = 0
    OBVIOUS
  <2> HIDE DEF least, q
  <2> QED
    BY <2>1, <2>2, <1>1, <1>3
<1>4. ASSUME q.prompt = Mask(least).text
      PROVE  Spans(q.prompt) = {} /\ (prompt # <<>> => q.prompt # <<>>)
  <2> HIDE DEF least, q, U
  <2>1. Spans(Mask(least).text) = {}
    BY <1>1, MaskIsClean
  <2>2. PICK g : DOMAIN Mask(least).text = 1..Len(g) /\ Len(g) \in Nat /\ (Len(g) = 0 <=> Len(least) = 0)
    BY <1>1, MaskedIs
  <2>3. Mask(least).text = <<>> => Len(g) = 0
    <3>1. ASSUME Mask(least).text = <<>>, Len(g) # 0 PROVE FALSE
      <4>1. 1 \in 1..Len(g)
        BY <2>2, <3>1
      <4>2. DOMAIN <<>> = {}
        OBVIOUS
      <4> QED
        BY <4>1, <4>2, <2>2, <3>1
    <3> QED
      BY <3>1
  <2> QED
    BY <2>1, <2>2, <2>3, <1>1, <1>4
<1>5. Joined(Mask(least), Mask(Minimize(system))).prompt = Mask(least).text
  BY DEF Joined
<1>6. \/ Blocked(m, prompt, system)
      \/ q.prompt = least /\ Spans(Combined(prompt, system)) = {}
      \/ q.prompt = Mask(least).text
  BY <1>5, GuardMakes
<1> HIDE DEF q, least
<1> QED
  BY <1>2, <1>3, <1>4, <1>6 DEF q

\* The answer to what the guard hands on gives the minimized texts back.
LEMMA GuardedComesBack ==
  ASSUME ScrubbingAssumption, NEW S, NEW prompt \in Seq(S), NEW system \in Seq(S), NEW m \in {"MASK", "STRICT"},
         ~Blocked(m, prompt, system), NoneTyped(prompt), NoneTyped(system)
  PROVE  LET q == Process(m, prompt, system)
         IN  Unmask(q.prompt, q.mapping) = Minimize(prompt) /\ Unmask(q.system, q.mapping) = Minimize(system)
<1> DEFINE one == Minimize(prompt)
           two == Minimize(system)
           U == S \cup {Marker}
<1>1. one \in Seq(U) /\ two \in Seq(U) /\ NoneTyped(one) /\ NoneTyped(two)
  BY MinimizeIs, MinimizedIsUntyped
<1>2. \/ Process(m, prompt, system) = [prompt |-> one, system |-> two, mapping |-> <<>>]
      \/ Process(m, prompt, system) = Joined(Mask(one), Mask(two))
  BY GuardMakes
<1> HIDE DEF one, two, U
<1>3. Unmask(one, <<>>) = one /\ Unmask(two, <<>>) = two
  BY <1>1, UnmaskNothing
<1>4. LET j == Joined(Mask(one), Mask(two))
      IN  Unmask(j.prompt, j.mapping) = one /\ Unmask(j.system, j.mapping) = two
  BY <1>1, JoinedGivesBack
<1> QED
  BY <1>2, <1>3, <1>4 DEF one, two

\* How many cells have a field, and how many lie in no kept match.
HowMany(field, text) == Cardinality({i \in DOMAIN text : field \in DOMAIN text[i]})
HowManyFree(text) == Cardinality({p \in DOMAIN text : ~Within(Scan(text), p)})

\* Where nothing matches, nothing is kept.
LEMMA NothingKept ==
  ASSUME ScrubbingAssumption, NEW S, NEW text \in Seq(S), Spans(text) = {}
  PROVE  DOMAIN Scan(text) = {}
<1>1. \A p \in DOMAIN Scan(text) : p \in DOMAIN text /\ Scan(text)[p] \in MatchesAt(text, p)
  BY ScanIs
<1>2. \A p \in DOMAIN text : \A e \in MatchesAt(text, p) : e \in Spans(text)
  BY DEF Spans
<1> QED
  BY <1>1, <1>2

\* What is counted in a short text without placeholders that the guard hands on.
LEMMA GuardedCounts ==
  ASSUME ScrubbingAssumption, NEW S, NEW prompt \in Seq(S), NEW system \in Seq(S), NEW m \in {"MASK", "STRICT"},
         ~Blocked(m, prompt, system), NoneTyped(prompt), Len(prompt) <= MaxText
  PROVE  /\ HowMany("type", Process(m, prompt, system).prompt) = Cardinality(DOMAIN Scan(prompt))
         /\ AllRaw(prompt) => HowMany("raw", Process(m, prompt, system).prompt) = HowManyFree(prompt)
<1> DEFINE out == Process(m, prompt, system).prompt
<1>1. Minimize(prompt) = prompt
  <2>1. Len(prompt) \in Nat /\ MaxText \in Nat
    BY DEF ScrubbingAssumption
  <2> QED
    BY <2>1 DEF Minimize
<1>2. \/ out = prompt /\ Spans(Combined(prompt, system)) = {}
      \/ out = Mask(prompt).text
  <2>1. Joined(Mask(prompt), Mask(Minimize(system))).prompt = Mask(prompt).text
    BY DEF Joined
  <2> QED
    BY <1>1, <2>1, GuardMakes
<1> HIDE DEF out
<1>3. CASE out = prompt /\ Spans(Combined(prompt, system)) = {}
  <2>1. Spans(prompt) = {}
    BY <1>3, CombinedClean
  <2>2. DOMAIN Scan(prompt) = {}
    BY <2>1, NothingKept
  <2>3. {i \in DOMAIN out : "type" \in DOMAIN out[i]} = DOMAIN Scan(prompt)
    BY <2>2, <1>3 DEF NoneTyped
  <2>4. AllRaw(prompt) => {i \in DOMAIN out : "raw" \in DOMAIN out[i]} = {p \in DOMAIN prompt : ~Within(Scan(prompt), p)}
    BY <2>2, <1>3 DEF AllRaw, Within
  <2> QED
    BY <2>3, <2>4 DEF out, HowMany, HowManyFree
<1>4. CASE out = Mask(prompt).text
  <2>1. HowMany("type", Mask(prompt).text) = Cardinality(DOMAIN Scan(prompt))
    BY MaskCounts DEF HowMany
  <2>2. AllRaw(prompt) => HowMany("raw", Mask(prompt).text) = HowManyFree(prompt)
    BY MaskCounts DEF HowMany, HowManyFree
  <2> QED
    BY <1>4, <2>1, <2>2 DEF out
<1> QED
  BY <1>2, <1>3, <1>4

-----------------------------------------------------------------------------
(* Scrubbing: what the four readers hand on.                                  *)

HandedIs(reader, prompt, system, out, outSystem, count, mapping) ==
    handed = [by |-> reader, prompt |-> prompt, system |-> system, out |-> out,
              outSystem |-> outSystem, count |-> count, mapping |-> mapping]

FromGateway(prompt, system) ==
    LET r == Process(mode, prompt, system)
    IN  /\ guardUp /\ ~Blocked(mode, prompt, system)
        /\ HandedIs("gateway", prompt, system, r.prompt, r.system, Found(prompt, system), r.mapping)
FromConnector(text) ==
    LET safe == IF guardUp THEN Process(mode, text, <<>>).prompt ELSE <<>>
    IN  HandedIs("connector", text, <<>>, IF safe # <<>> THEN safe ELSE text, <<>>,
                 IF safe # <<>> THEN Found(text, <<>>) ELSE 0, <<>>)
FromIngest(text) ==
    Scrubbed(text) /\ HandedIs("ingest", text, <<>>, Scrub(text), <<>>, Found(text, <<>>), <<>>)
FromPreview(text) ==
    HandedIs("preview", text, <<>>, Scrub(text), <<>>, Found(text, <<>>), <<>>)

\* The inductive invariant: whatever is handed on is what one reader made of one text in
\* the mode, and with the guard, that there still are.
ScrubInv ==
    handed = Waiting \/ \E text \in Prompts :
        \/ \E system \in Systems : FromGateway(text, system)
        \/ FromConnector(text) \/ FromIngest(text) \/ FromPreview(text)

LEMMA ScrubStep == ASSUME ScrubInv, [ScrubNext]_scrubVars PROVE ScrubInv'
<1>1. CASE ScrubNext
  <2>1. PICK text \in Prompts :
          \/ \E system \in Systems : AskGateway(text, system)
          \/ ReadConnector(text) \/ IngestFile(text) \/ PreviewRedaction(text)
    BY <1>1 DEF ScrubNext
  <2>2. ASSUME NEW system \in Systems, AskGateway(text, system) PROVE FromGateway(text, system)'
    BY <2>2 DEF AskGateway, Hand, FromGateway, HandedIs
  <2>3. ASSUME ReadConnector(text) PROVE FromConnector(text)'
    BY <2>3 DEF ReadConnector, Hand, FromConnector, HandedIs
  <2>4. ASSUME IngestFile(text) PROVE FromIngest(text)'
    BY <2>4 DEF IngestFile, Hand, FromIngest, HandedIs, Scrubbed, Scrub
  <2>5. ASSUME PreviewRedaction(text) PROVE FromPreview(text)'
    BY <2>5 DEF PreviewRedaction, Hand, FromPreview, HandedIs, Scrub
  <2> QED
    BY <2>1, <2>2, <2>3, <2>4, <2>5 DEF ScrubInv
<1>2. CASE UNCHANGED scrubVars
  BY <1>2 DEF scrubVars, ScrubInv, FromGateway, FromConnector, FromIngest, FromPreview, HandedIs,
              Scrubbed, Scrub
<1> QED
  BY <1>1, <1>2

LEMMA TextsAre ==
  ASSUME ScrubbingAssumption, NEW text \in Prompts \cup Systems
  PROVE  text \in Seq(Cells) /\ (Typed(text) = {} => NoneTyped(text) /\ AllRaw(text))
<1>1. text \in Seq(Cells) /\ \A c \in Cells : "raw" \in DOMAIN c \/ "type" \in DOMAIN c
  BY DEF ScrubbingAssumption
<1> HIDE DEF Cells
<1>2. \A i \in DOMAIN text : text[i] \in ToSet(text) /\ text[i] \in Cells
  <2>1. \A i \in DOMAIN text : text[i] \in Cells
    BY <1>1
  <2>2. ToSet(text) = {text[i] : i \in DOMAIN text}
    BY DEF ToSet
  <2> QED
    BY <2>1, <2>2
<1> QED
  BY <1>1, <1>2 DEF Typed, NoneTyped, AllRaw

\* The earlier match wins, in every text.
LEMMA ScanHolds ==
  ASSUME ScrubbingAssumption, NEW S, NEW text \in Seq(S)
  PROVE  LET kept == Scan(text)
         IN  /\ \A i, j \in DOMAIN kept : i # j => ~Overlap(kept[i], kept[j])
             /\ \A e \in Spans(text) :
                  \E i \in DOMAIN kept : kept[i] = e \/ (Overlap(kept[i], e) /\ kept[i].from <= e.from)
<1> DEFINE kept == Scan(text)
<1>1. Apart(text, kept)
  BY ScanApart
<1>2. \A z \in DOMAIN kept : z \in DOMAIN text /\ kept[z].from = z
  <2>1. \A z \in DOMAIN kept : z \in DOMAIN text /\ kept[z] \in MatchesAt(text, z)
    BY ScanIs
  <2> HIDE DEF kept
  <2> QED
    BY <2>1, MatchIs
<1>3. ASSUME NEW e \in Spans(text)
      PROVE  \E i \in DOMAIN kept : Overlap(kept[i], e) /\ kept[i].from <= e.from
  <2>1. PICK q \in DOMAIN text : e \in MatchesAt(text, q)
    BY DEF Spans
  <2>2. e.from = q /\ e.to \in Nat /\ q < e.to /\ q \in Nat
    <3>1. q \in Nat
      OBVIOUS
    <3> QED
      BY <2>1, <3>1, MatchIs
  <2>3. PICK z \in DOMAIN kept : z <= q /\ q < kept[z].to
    BY <2>1, ScanMissesNone
  <2> HIDE DEF kept
  <2>4. z \in Nat
    BY <1>2
  <2> QED
    BY <2>2, <2>3, <2>4, <1>2 DEF Overlap
<1>4. ASSUME NEW i \in DOMAIN kept, NEW j \in DOMAIN kept, i # j PROVE ~Overlap(kept[i], kept[j])
  <2> HIDE DEF kept
  <2>1. i \in Nat /\ j \in Nat /\ kept[i].to \in Nat /\ kept[j].to \in Nat
    BY <1>1, <1>2 DEF Apart
  <2>2. i < j \/ j < i
    BY <2>1, <1>4
  <2>3. kept[i].to <= j \/ kept[j].to <= i
    BY <2>2, <1>1 DEF Apart
  <2> QED
    BY <2>1, <2>3, <1>2 DEF Overlap
<1> QED
  BY <1>3, <1>4

LEMMA CountIsScan ==
  ASSUME NEW text
  PROVE  Found(text, <<>>) = Cardinality(DOMAIN Scan(text))
  BY DEF Found, Combined

LEMMA ScrubHoldsOf == ASSUME ScrubbingAssumption, ScrubInv PROVE ScrubHolds
<1> SUFFICES ASSUME handed # Waiting
             PROVE  EarlierWins /\ NothingLeftToFind /\ ClearCellsAreOutside /\ AnswersComeBack /\ ReceiptCountsMasks
  BY DEF ScrubHolds
<1>1. PICK text \in Prompts :
        \/ \E system \in Systems : FromGateway(text, system)
        \/ FromConnector(text) \/ FromIngest(text) \/ FromPreview(text)
  BY DEF ScrubInv
<1>2. text \in Seq(Cells) /\ <<>> \in Seq(Cells) /\ (Typed(text) = {} => NoneTyped(text) /\ AllRaw(text))
  BY TextsAre
<1> HIDE DEF Cells
<1>3. handed.prompt = text
  BY <1>1 DEF FromGateway, FromConnector, FromIngest, FromPreview, HandedIs
<1>4. EarlierWins
  BY <1>2, <1>3, ScanHolds DEF EarlierWins
<1>5. Masks => mode \in {"MASK", "STRICT"}
  BY DEF Masks
<1>6. ASSUME NEW system \in Systems, FromGateway(text, system)
      PROVE  NothingLeftToFind /\ ClearCellsAreOutside /\ AnswersComeBack /\ ReceiptCountsMasks
  <2> DEFINE r == Process(mode, text, system)
  <2>1. /\ ~Blocked(mode, text, system)
        /\ handed.by = "gateway" /\ handed.system = system /\ handed.out = r.prompt
        /\ handed.outSystem = r.system /\ handed.mapping = r.mapping
    BY <1>6 DEF FromGateway, HandedIs
  <2>2. system \in Seq(Cells) /\ (Typed(system) = {} => NoneTyped(system))
    BY TextsAre
  <2>3. NothingLeftToFind
    <3>1. Masks => Spans(r.prompt) = {}
      BY <1>2, <1>5, <2>2, GuardedIsClean
    <3> HIDE DEF r
    <3> QED
      BY <2>1, <3>1 DEF NothingLeftToFind
  <2>4. ClearCellsAreOutside
    <3> SUFFICES ASSUME Masks, ~Crosses(text), Len(text) <= MaxText, Typed(text) = {}
                 PROVE  Cardinality({i \in DOMAIN handed.out : "raw" \in DOMAIN handed.out[i]})
                          = Cardinality({p \in DOMAIN text : \A e \in Spans(text) : p < e.from \/ e.to <= p})
      BY <1>3 DEF ClearCellsAreOutside
    <3>1. {p \in DOMAIN text : \A e \in Spans(text) : p < e.from \/ e.to <= p}
            = {p \in DOMAIN text : ~Within(Scan(text), p)}
      BY <1>2, FreeIs
    <3>2. HowMany("raw", r.prompt) = HowManyFree(text)
      BY <1>2, <1>5, <2>1, <2>2, GuardedCounts
    <3> HIDE DEF r
    <3> QED
      BY <2>1, <3>1, <3>2 DEF HowMany, HowManyFree
  <2>5. AnswersComeBack
    <3> SUFFICES ASSUME Masks, Typed(text) = {}, Typed(system) = {}
                 PROVE  /\ Unmask(handed.out, handed.mapping) = Minimize(text)
                        /\ Unmask(handed.outSystem, handed.mapping) = Minimize(system)
      BY <1>3, <2>1 DEF AnswersComeBack
    <3>1. Unmask(r.prompt, r.mapping) = Minimize(text) /\ Unmask(r.system, r.mapping) = Minimize(system)
      BY <1>2, <1>5, <2>1, <2>2, GuardedComesBack
    <3> HIDE DEF r
    <3> QED
      BY <2>1, <3>1
  <2>6. ReceiptCountsMasks
    BY <2>1 DEF ReceiptCountsMasks
  <2> QED
    BY <2>3, <2>4, <2>5, <2>6
<1>7. ASSUME handed.by # "gateway" PROVE ClearCellsAreOutside /\ AnswersComeBack
  BY <1>7 DEF ClearCellsAreOutside, AnswersComeBack
<1>8. ASSUME handed.by # "ingest" PROVE ReceiptCountsMasks
  BY <1>8 DEF ReceiptCountsMasks
<1>9. Masks => /\ Spans(Process(mode, text, <<>>).prompt) = {}
               /\ ~Blocked(mode, text, <<>>) /\ text # <<>> => Process(mode, text, <<>>).prompt # <<>>
  BY <1>2, <1>5, GuardedIsClean
<1>10. text = <<>> => Spans(text) = {}
  BY NothingInNothing
<1>11. CASE FromConnector(text)
  <2> DEFINE safe == IF guardUp THEN Process(mode, text, <<>>).prompt ELSE <<>>
  <2>1. handed.by = "connector" /\ handed.out = IF safe # <<>> THEN safe ELSE text
    BY <1>11 DEF FromConnector, HandedIs
  <2>2. NothingLeftToFind
    <3> SUFFICES ASSUME Masks, Spans(handed.out) # {}, guardUp PROVE Blocked(mode, text, <<>>)
      BY <1>3, <2>1 DEF NothingLeftToFind
    <3> QED
      BY <2>1, <1>9, <1>10
  <2> QED
    BY <2>1, <2>2, <1>4, <1>7, <1>8
<1>12. ASSUME handed.out = Scrub(text), Masks, Spans(handed.out) # {} PROVE ~guardUp
  BY <1>9, <1>10, <1>12 DEF Scrub
<1>13. CASE FromPreview(text)
  <2>1. handed.by = "preview" /\ handed.out = Scrub(text)
    BY <1>13 DEF FromPreview, HandedIs
  <2>2. NothingLeftToFind
    BY <2>1, <1>12 DEF NothingLeftToFind
  <2> QED
    BY <2>1, <2>2, <1>4, <1>7, <1>8
<1>14. CASE FromIngest(text)
  <2>1. handed.by = "ingest" /\ handed.out = Scrub(text) /\ handed.count = Found(text, <<>>) /\ Scrubbed(text)
    BY <1>14 DEF FromIngest, HandedIs
  <2>2. NothingLeftToFind
    <3>1. text = <<>> => Scrub(text) = text
      BY DEF Scrub
    <3> QED
      BY <2>1, <3>1, <1>10, <1>12 DEF NothingLeftToFind, Scrubbed
  <2>3. ReceiptCountsMasks
    <3> SUFFICES ASSUME Masks, ~Blocked(mode, text, <<>>), Len(text) <= MaxText, Typed(text) = {}
                 PROVE  handed.count = Cardinality({i \in DOMAIN handed.out : "type" \in DOMAIN handed.out[i]})
      BY <1>3 DEF ReceiptCountsMasks
    <3>1. handed.count = Cardinality(DOMAIN Scan(text))
      BY <2>1, CountIsScan
    <3>2. CASE text = <<>>
      <4>1. handed.out = <<>>
        BY <2>1, <3>2 DEF Scrub
      <4>2. DOMAIN Scan(text) = {}
        BY <1>2, <3>2, NothingKept, NothingInNothing
      <4>3. {i \in DOMAIN handed.out : "type" \in DOMAIN handed.out[i]} = {}
        BY <4>1
      <4> QED
        BY <3>1, <4>2, <4>3
    <3>3. CASE text # <<>>
      <4>1. handed.out = Process(mode, text, <<>>).prompt
        BY <2>1, <3>3 DEF Scrub, Scrubbed
      <4> DEFINE out == Process(mode, text, <<>>).prompt
      <4>2. HowMany("type", out) = Cardinality(DOMAIN Scan(text))
        BY <1>2, <1>5, GuardedCounts
      <4> HIDE DEF out
      <4> QED
        BY <3>1, <4>1, <4>2 DEF out, HowMany
    <3> QED
      BY <3>2, <3>3
  <2> QED
    BY <2>1, <2>2, <2>3, <1>4, <1>7
<1> QED
  BY <1>1, <1>4, <1>6, <1>11, <1>13, <1>14

\* ScrubHolds holds of every pattern list, mode and text.
THEOREM ScrubInvariant == ScrubSpec => []ScrubInv
<1>1. ScrubInit => ScrubInv
  BY DEF ScrubInit, ScrubInv
<1>2. ScrubInv /\ [ScrubNext]_scrubVars => ScrubInv'
  BY ScrubStep
<1> QED
  BY <1>1, <1>2, PTL DEF ScrubSpec

THEOREM ScrubHoldsAlways == ScrubSpec => []ScrubHolds
<1>1. ScrubInv => ScrubHolds
  BY ScrubHoldsOf, ScrubbingAssumption
<1> QED
  BY <1>1, ScrubInvariant, PTL

=============================================================================
