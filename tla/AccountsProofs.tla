---------------------------- MODULE AccountsProofs ----------------------------
(***************************************************************************)
(* Theorems about Accounts, for any users, names, requests and bound: what *)
(* replacing keys revokes, and whom a presigned URL acts for.              *)
(***************************************************************************)
EXTENDS Accounts, TLAPS

-----------------------------------------------------------------------------
(* The inductive invariant *)

\* The owners of buckets have an account
OwnersExist == \A n \in DOMAIN buckets : buckets[n].owner \in DOMAIN users

\* Every key and id in use was drawn before
Drawn ==
  /\ \A e \in DOMAIN users : users[e].key < fresh
  /\ \A key \in replaced : key < fresh
  /\ \A url \in urls : url.key < fresh
  /\ \A n \in DOMAIN buckets : buckets[n].id < fresh

\* A key is one user's, and when it has been replaced nobody's any more
OneUser ==
  /\ \A e, f \in DOMAIN users : users[e].key = users[f].key => e = f
  /\ \A e \in DOMAIN users : users[e].key \notin replaced

KeyOf(key, user) == \A e \in DOMAIN users : users[e].key = key => e = user

\* As long as the key of a URL is someone's, it is its maker's
UrlsSigned == \A url \in urls : KeyOf(url.key, url.user)

OneRowPerId == \A m, n \in DOMAIN buckets : buckets[m].id = buckets[n].id => m = n

\* What a request has read may be stale, but this much of it still holds
Sound(local) ==
  /\ local.at = "save" => local.user \in DOMAIN users
  /\ local.at = "handler" =>
       /\ local.user \in DOMAIN users
       /\ local.key < fresh
       /\ KeyOf(local.key, local.user)
  /\ local.at \in {"owner", "act"} =>
       /\ local.bucket.owner \in DOMAIN users
       /\ local.bucket.id < fresh
       /\ \A n \in DOMAIN buckets :
            buckets[n].id = local.bucket.id => buckets[n] = local.bucket
       /\ local.url.name \in DOMAIN buckets =>
            buckets[local.url.name].id >= local.bucket.id
       /\ local.url.key < fresh
       /\ KeyOf(local.url.key, local.url.user)
  /\ local.at = "owner" /\ local.revoked => local.url.key \in replaced
  /\ local.at \in {"user", "handler", "act"} => ~local.revoked
  /\ local.at = "act" => local.bucket.owner = local.url.user

TablesInv == OwnersExist /\ Drawn /\ OneUser /\ UrlsSigned /\ OneRowPerId

AccountsInv == TablesInv /\ \A r \in Requests : Sound(req[r])

-----------------------------------------------------------------------------
(* Lemmas about the local state of a request *)

\* What a request keeps at each point
LEMMA LocalType ==
  ASSUME TypeOK, NEW r \in Requests
  PROVE  /\ req[r].at \in {"user", "handler"} =>
              req[r].key \in Nat /\ req[r].revoked \in BOOLEAN
         /\ req[r].at = "handler" => req[r].user \in Emails
         /\ req[r].at = "mail" => req[r].link \in Links
         /\ req[r].at \in {"verify", "unlink"} => req[r].link \in Links
         /\ req[r].at = "save" => req[r].user \in Emails /\ req[r].row \in Accounts
         /\ req[r].at \in {"owner", "act"} =>
              /\ req[r].url \in Urls /\ req[r].bucket \in Buckets
              /\ req[r].revoked \in BOOLEAN
  BY DEF TypeOK, Locals, Idle

\* Only the request itself goes on
LEMMA GotoType ==
  ASSUME TypeOK, NEW r \in Requests, NEW local \in Locals \cup {Idle},
         Goto(r, local)
  PROVE  /\ req' \in [Requests -> Locals \cup {Idle}]
         /\ req'[r] = local
         /\ \A q \in Requests \ {r} : req'[q] = req[q]
  BY DEF TypeOK, Goto

-----------------------------------------------------------------------------
(* Type correctness *)

\* The tables keep their types when keys are drawn or replaced
LEMMA AccountStepType ==
  ASSUME TypeOK, AccountsInv,
         \/ \E email \in Emails : SignUp(email)
         \/ \E r \in Requests : ReadAccount(r) \/ SaveKeys(r)
  PROVE  TypeOK'
<1>1. CASE \E email \in Emails : SignUp(email)
  BY <1>1 DEF TypeOK, SignUp, Draws, Accounts
<1>2. ASSUME NEW r \in Requests, ReadAccount(r) PROVE TypeOK'
  <2>1. PICK email \in DOMAIN users :
          Goto(r, [at |-> "save", user |-> email, row |-> users[email]])
    BY <1>2 DEF ReadAccount
  <2>2. [at |-> "save", user |-> email, row |-> users[email]] \in Locals
    BY DEF TypeOK, Locals
  <2>3. QED
    BY <1>2, <2>1, <2>2, GotoType DEF TypeOK, ReadAccount
<1>3. ASSUME NEW r \in Requests, SaveKeys(r) PROVE TypeOK'
  <2>1. req[r].user \in DOMAIN users /\ req[r].row \in Accounts
    BY <1>3, LocalType DEF SaveKeys, AccountsInv, Sound
  <2>2. /\ DOMAIN users' \subseteq Emails
        /\ users' \in [DOMAIN users' -> Accounts]
        /\ fresh' \in Nat
    BY <1>3, <2>1 DEF TypeOK, SaveKeys, Draws, Accounts
  <2>3. replaced' \subseteq Nat
    BY <1>3, <2>1 DEF TypeOK, SaveKeys, Accounts
  <2>4. QED
    BY <1>3, <2>2, <2>3, GotoType DEF TypeOK, SaveKeys
<1>4. QED
  BY <1>1, <1>2, <1>3

\* ... and by the verification of an address
LEMMA LinkStepType ==
  ASSUME TypeOK, NEW r \in Requests,
         \/ Click(r) \/ MarkVerified(r) \/ DeleteLink(r)
         \/ InsertLink(r) \/ SendMail(r)
  PROVE  TypeOK'
<1>1. CASE Click(r)
  <2>1. PICK link \in links : Goto(r, [at |-> "verify", link |-> link])
    BY <1>1 DEF Click
  <2>2. [at |-> "verify", link |-> link] \in Locals
    BY DEF TypeOK, Locals
  <2>3. QED
    BY <1>1, <2>1, <2>2, GotoType DEF TypeOK, Click
<1>2. CASE MarkVerified(r)
  <2>1. [req[r] EXCEPT !.at = "unlink"] \in Locals
    BY <1>2 DEF TypeOK, MarkVerified, Locals, Idle
  <2>2. DOMAIN users' \subseteq Emails /\ users' \in [DOMAIN users' -> Accounts]
    BY <1>2 DEF TypeOK, MarkVerified, Accounts
  <2>3. QED
    BY <1>2, <2>1, <2>2, GotoType DEF TypeOK, MarkVerified
<1>3. CASE DeleteLink(r)
  BY <1>3, GotoType DEF TypeOK, DeleteLink
<1>4. CASE InsertLink(r)
  <2>1. [id |-> fresh, user |-> req[r].user] \in Links
    BY <1>4, LocalType DEF TypeOK, InsertLink, Links
  <2>2. [at |-> "mail", link |-> [id |-> fresh, user |-> req[r].user]] \in Locals
    BY <2>1 DEF Locals
  <2>3. QED
    BY <1>4, <2>1, <2>2, GotoType DEF TypeOK, InsertLink, Draws
<1>5. CASE SendMail(r)
  BY <1>5, LocalType, GotoType DEF TypeOK, SendMail
<1>6. QED
  BY <1>1, <1>2, <1>3, <1>4, <1>5

\* ... by signed requests
LEMMA SignedStepType ==
  ASSUME TypeOK, NEW r \in Requests,
         Validate(r) \/ FindUser(r) \/ GiveUrl(r) \/ MakeBucket(r) \/ DropBucket(r)
  PROVE  TypeOK'
<1>1. CASE Validate(r)
  <2>1. PICK key \in 1..(fresh - 1) :
          Goto(r, [at |-> "user", key |-> key, revoked |-> key \in replaced])
    BY <1>1 DEF Validate
  <2>2. [at |-> "user", key |-> key, revoked |-> key \in replaced] \in Locals
    BY DEF TypeOK, Locals
  <2>3. QED
    BY <1>1, <2>1, <2>2, GotoType DEF TypeOK, Validate
<1>2. CASE FindUser(r)
  <2>1. CASE Goto(r, Idle)
    BY <1>2, <2>1, GotoType DEF TypeOK, FindUser
  <2>2. ASSUME NEW email \in DOMAIN users,
               Goto(r, [at |-> "handler", key |-> req[r].key,
                        revoked |-> req[r].revoked, user |-> email])
        PROVE  TypeOK'
    <3>1. [at |-> "handler", key |-> req[r].key, revoked |-> req[r].revoked,
           user |-> email] \in Locals
      BY <1>2, LocalType DEF TypeOK, FindUser, Locals
    <3>2. QED
      BY <1>2, <2>2, <3>1, GotoType DEF TypeOK, FindUser
  <2>3. QED
    BY <1>2, <2>1, <2>2 DEF FindUser, UserOf
<1>3. CASE GiveUrl(r)
  <2>1. PICK name \in DOMAIN buckets :
          urls' = urls \cup {[user |-> req[r].user, name |-> name, key |-> req[r].key]}
    BY <1>3 DEF GiveUrl
  <2>2. [user |-> req[r].user, name |-> name, key |-> req[r].key] \in Urls
    BY <1>3, LocalType DEF TypeOK, GiveUrl, Urls
  <2>3. QED
    BY <1>3, <2>1, <2>2, GotoType DEF TypeOK, GiveUrl
<1>4. CASE MakeBucket(r)
  <2>1. DOMAIN buckets' \subseteq Names /\ buckets' \in [DOMAIN buckets' -> Buckets]
    BY <1>4, LocalType DEF TypeOK, MakeBucket, Buckets
  <2>2. QED
    BY <1>4, <2>1, GotoType DEF TypeOK, MakeBucket, Draws
<1>5. CASE DropBucket(r)
  <2>1. DOMAIN buckets' \subseteq Names /\ buckets' \in [DOMAIN buckets' -> Buckets]
    BY <1>5 DEF TypeOK, DropBucket
  <2>2. QED
    BY <1>5, <2>1, GotoType DEF TypeOK, DropBucket
<1>6. QED
  BY <1>1, <1>2, <1>3, <1>4, <1>5

\* ... and by presigned URLs
LEMMA UrlStepType ==
  ASSUME TypeOK, NEW r \in Requests,
         Present(r) \/ CheckSignature(r) \/ Act(r) \/ Aborts(r)
  PROVE  TypeOK'
<1>1. CASE Present(r)
  <2>1. PICK url \in urls :
          /\ url.name \in DOMAIN buckets
          /\ Goto(r, [at |-> "owner", url |-> url, bucket |-> buckets[url.name],
                      revoked |-> url.key \in replaced])
    BY <1>1 DEF Present
  <2>2. [at |-> "owner", url |-> url, bucket |-> buckets[url.name],
         revoked |-> url.key \in replaced] \in Locals
    BY <2>1 DEF TypeOK, Locals
  <2>3. QED
    BY <1>1, <2>1, <2>2, GotoType DEF TypeOK, Present
<1>2. CASE CheckSignature(r)
  <2>1. [req[r] EXCEPT !.at = "act"] \in Locals
    BY <1>2 DEF TypeOK, CheckSignature, Locals, Idle
  <2>2. QED
    BY <1>2, <2>1, GotoType DEF TypeOK, CheckSignature
<1>3. CASE Act(r) \/ Aborts(r)
  BY <1>3, GotoType DEF TypeOK, Act, Aborts
<1>4. QED
  BY <1>1, <1>2, <1>3

-----------------------------------------------------------------------------
(* The invariant *)

\* A table that changes takes nothing from what the other requests know: rows
\* of users keep their email, and get or lose only keys that were drawn last
TablesGrow ==
  /\ fresh' \in Nat /\ fresh <= fresh'
  /\ DOMAIN users \subseteq DOMAIN users'
  /\ \A e \in DOMAIN users' :
       \/ users'[e].key >= fresh
       \/ e \in DOMAIN users /\ users'[e].key = users[e].key
  /\ replaced \subseteq replaced'
  /\ \A n \in DOMAIN buckets' :
       \/ buckets'[n].id >= fresh
       \/ n \in DOMAIN buckets /\ buckets'[n] = buckets[n]

\* What a request knows stays true then
LEMMA SoundStays ==
  ASSUME TypeOK, TypeOK', TablesGrow, NEW local \in Locals \cup {Idle}, Sound(local)
  PROVE  Sound(local)'
<1> USE DEF TablesGrow, TypeOK, Accounts, Buckets
<1>1. ASSUME NEW key \in Nat, key < fresh, NEW user, KeyOf(key, user)
      PROVE  KeyOf(key, user)'
  BY <1>1 DEF KeyOf
<1>2. CASE local.at \in {"owner", "act"}
  <2>1. local.bucket.id \in Nat /\ local.url.key \in Nat
    BY <1>2 DEF Locals, Idle, Urls
  <2>2. \A n \in DOMAIN buckets' :
          buckets'[n].id = local.bucket.id => buckets'[n] = local.bucket
    BY <1>2, <2>1 DEF Sound
  <2>3. KeyOf(local.url.key, local.url.user)'
    BY <1>1, <1>2, <2>1 DEF Sound
  <2>4. local.url.name \in DOMAIN buckets' =>
          buckets'[local.url.name].id >= local.bucket.id
    BY <1>2, <2>1 DEF Sound
  <2>5. QED
    BY <1>2, <2>1, <2>2, <2>3, <2>4 DEF Sound
<1>3. CASE local.at = "handler"
  <2>1. local.key \in Nat
    BY <1>3 DEF Locals, Idle
  <2>2. QED
    BY <1>1, <1>3, <2>1 DEF Sound
<1>4. CASE local.at \notin {"owner", "act", "handler"}
  BY <1>4 DEF Sound
<1>5. QED
  BY <1>2, <1>3, <1>4

\* so that only the tables and the request that moves are left to look at
LEMMA GrowthKeepsInv ==
  ASSUME TypeOK, TypeOK', AccountsInv, TablesGrow, TablesInv', NEW r \in Requests,
         \A q \in Requests \ {r} : req'[q] = req[q],
         (Sound(req[r]))'
  PROVE  AccountsInv'
<1>1. ASSUME NEW q \in Requests \ {r} PROVE (Sound(req[q]))'
  <2>1. PICK l \in Locals \cup {Idle} : l = req[q]
    BY DEF TypeOK
  <2>2. Sound(l)
    BY <2>1 DEF AccountsInv, Sound
  <2>3. Sound(l)' /\ l = req'[q]
    BY <2>1, <2>2, SoundStays
  <2>4. QED
    BY <2>3 DEF Sound
<1>2. ASSUME NEW q \in Requests PROVE (Sound(req[q]))'
  BY <1>1
<1>3. QED
  BY <1>2 DEF AccountsInv

\* If the tables stay, only the request that moves
LEMMA MoveKeepsInv ==
  ASSUME TypeOK, TypeOK', AccountsInv, NEW r \in Requests,
         UNCHANGED <<users, urls, buckets, fresh, replaced>>,
         \A q \in Requests \ {r} : req'[q] = req[q],
         (Sound(req[r]))'
  PROVE  AccountsInv'
<1>1. TablesGrow
  BY DEF TablesGrow, TypeOK
<1>2. TablesInv'
  BY DEF AccountsInv, TablesInv, OwnersExist, Drawn, OneUser, UrlsSigned, KeyOf,
         OneRowPerId
<1>3. QED
  BY <1>1, <1>2, GrowthKeepsInv

\* SignUp draws a key that nobody has, or had
LEMMA SignUpKeepsInv ==
  ASSUME TypeOK, TypeOK', AccountsInv, NEW email \in Emails, SignUp(email)
  PROVE  AccountsInv'
<1> USE DEF AccountsInv, TablesInv, TypeOK
<1>1. /\ email \notin DOMAIN users /\ fresh \in Nat /\ fresh' = fresh + 1
      /\ DOMAIN users' = DOMAIN users \cup {email}
      /\ users'[email].key = fresh
      /\ \A e \in DOMAIN users : users'[e] = users[e]
      /\ UNCHANGED <<urls, buckets, req, replaced>>
  BY DEF SignUp, Draws
<1>2. TablesGrow
  BY <1>1 DEF TablesGrow, Accounts
<1>3. TablesInv'
  <2>1. OwnersExist' /\ OneRowPerId'
    BY <1>1 DEF OwnersExist, OneRowPerId
  <2>2. Drawn'
    BY <1>1 DEF Drawn, Accounts, Buckets, Urls
  <2>3. OneUser'
    BY <1>1 DEF OneUser, Drawn, Accounts
  <2>4. UrlsSigned'
    BY <1>1 DEF UrlsSigned, KeyOf, Drawn, Urls
  <2>5. QED
    BY <2>1, <2>2, <2>3, <2>4
<1>4. ASSUME NEW q \in Requests PROVE (Sound(req[q]))'
  <2>1. PICK l \in Locals \cup {Idle} : l = req[q]
    OBVIOUS
  <2>2. Sound(l)
    BY <2>1 DEF Sound
  <2>3. Sound(l)' /\ l = req'[q]
    BY <1>1, <1>2, <2>1, <2>2, SoundStays
  <2>4. QED
    BY <2>3 DEF Sound
<1>5. QED
  BY <1>3, <1>4

\* SaveKeys takes a user's key away for ever and gives a new one
LEMMA SaveKeysKeepsInv ==
  ASSUME TypeOK, TypeOK', AccountsInv, NEW r \in Requests, SaveKeys(r)
  PROVE  AccountsInv'
<1> USE DEF AccountsInv, TablesInv, TypeOK
<1>0. req[r].user \in DOMAIN users /\ req[r].row \in Accounts
  BY LocalType DEF SaveKeys, Sound
<1>1. /\ fresh \in Nat /\ fresh' = fresh + 1
      /\ DOMAIN users' = DOMAIN users
      /\ users'[req[r].user].key = fresh
      /\ \A e \in DOMAIN users \ {req[r].user} : users'[e] = users[e]
      /\ replaced' = replaced \cup {users[req[r].user].key}
      /\ UNCHANGED <<urls, buckets>>
  BY <1>0 DEF SaveKeys, Draws, Accounts
<1>2. TablesGrow
  BY <1>0, <1>1 DEF TablesGrow, Accounts
<1>3. TablesInv'
  <2>1. OwnersExist' /\ OneRowPerId'
    BY <1>1 DEF OwnersExist, OneRowPerId
  <2>2. Drawn'
    BY <1>0, <1>1 DEF Drawn, Accounts, Buckets, Urls
  <2>3. OneUser'
    BY <1>0, <1>1 DEF OneUser, Drawn, Accounts
  <2>4. UrlsSigned'
    BY <1>1 DEF UrlsSigned, KeyOf, Drawn, Urls
  <2>5. QED
    BY <2>1, <2>2, <2>3, <2>4
<1>4. /\ \A q \in Requests \ {r} : req'[q] = req[q]
      /\ req'[r] = Idle
  BY GotoType DEF SaveKeys
<1>5. (Sound(req[r]))'
  BY <1>4 DEF Sound, Idle
<1>6. QED
  BY <1>2, <1>3, <1>4, <1>5, GrowthKeepsInv

\* The steps that only read, or write tables no key or owner is in
LEMMA ReadingKeepsInv ==
  ASSUME TypeOK, TypeOK', AccountsInv, NEW r \in Requests,
         \/ ReadAccount(r) \/ Click(r) \/ DeleteLink(r) \/ SendMail(r)
         \/ Validate(r) \/ FindUser(r)
         \/ Present(r) \/ CheckSignature(r) \/ Act(r) \/ Aborts(r)
  PROVE  AccountsInv'
<1> USE DEF TypeOK
<1>0. UNCHANGED <<users, urls, buckets, fresh, replaced>>
  BY DEF ReadAccount, Click, DeleteLink, SendMail, Validate, FindUser, Present,
         CheckSignature, Act, Aborts
<1>1. \A q \in Requests \ {r} : req'[q] = req[q]
  BY DEF Goto, ReadAccount, Click, DeleteLink, SendMail, Validate, FindUser, Present,
         CheckSignature, Act, Aborts
<1>2. CASE req'[r] = Idle
  <2>1. (Sound(req[r]))'
    BY <1>2 DEF Sound, Idle
  <2>2. QED
    BY <1>0, <1>1, <2>1, MoveKeepsInv
<1>3. CASE ReadAccount(r)
  <2>1. req'[r].at = "save" /\ req'[r].user \in DOMAIN users
    BY <1>3 DEF ReadAccount, Goto
  <2>2. (Sound(req[r]))'
    BY <1>0, <2>1 DEF Sound
  <2>3. QED
    BY <1>0, <1>1, <2>2, MoveKeepsInv
<1>4. CASE Click(r)
  <2>1. req'[r].at = "verify"
    BY <1>4 DEF Click, Goto
  <2>2. (Sound(req[r]))'
    BY <2>1 DEF Sound
  <2>3. QED
    BY <1>0, <1>1, <2>2, MoveKeepsInv
<1>5. CASE Validate(r)
  <2>1. PICK key \in 1..(fresh - 1) :
          /\ UserOf(key) # {}
          /\ req'[r] = [at |-> "user", key |-> key, revoked |-> key \in replaced]
    BY <1>5 DEF Validate, Goto
  <2>2. key \notin replaced
    BY <2>1 DEF UserOf, AccountsInv, TablesInv, OneUser
  <2>3. req'[r].at = "user" /\ req'[r].revoked = (key \in replaced)
    BY <2>1
  <2>4. ~req'[r].revoked
    BY <2>2, <2>3, Zenon
  <2>5. (Sound(req[r]))'
    BY <2>3, <2>4 DEF Sound
  <2>6. QED
    BY <1>0, <1>1, <2>5, MoveKeepsInv
<1>6. CASE FindUser(r) /\ req'[r] # Idle
  <2>1. /\ req'[r].at = "handler" /\ ~req'[r].revoked
        /\ req'[r].user \in DOMAIN users
        /\ users[req'[r].user].key = req'[r].key
    BY <1>6 DEF FindUser, Goto, UserOf, AccountsInv, Sound
  <2>2. (Sound(req[r]))'
    BY <1>0, <2>1 DEF Sound, KeyOf, AccountsInv, TablesInv, OneUser, Drawn
  <2>3. QED
    BY <1>0, <1>1, <2>2, MoveKeepsInv
<1>7. CASE Present(r)
  <2>1. PICK url \in urls :
          /\ url.name \in DOMAIN buckets
          /\ req'[r] = [at |-> "owner", url |-> url, bucket |-> buckets[url.name],
                        revoked |-> url.key \in replaced]
    BY <1>7 DEF Present, Goto
  <2>2. /\ req'[r].at = "owner" /\ req'[r].url = url
        /\ req'[r].bucket = buckets[url.name]
        /\ req'[r].revoked = (url.key \in replaced)
    BY <2>1
  <2>3. req'[r].revoked => req'[r].url.key \in replaced
    BY <2>2, Zenon
  <2>4. /\ url.key < fresh /\ KeyOf(url.key, url.user)
        /\ buckets[url.name].owner \in DOMAIN users
        /\ buckets[url.name].id < fresh
        /\ \A n \in DOMAIN buckets :
             buckets[n].id = buckets[url.name].id => buckets[n] = buckets[url.name]
    BY <2>1 DEF AccountsInv, TablesInv, OwnersExist, Drawn, UrlsSigned, OneRowPerId
  <2>5. req'[r].at = "owner" /\ req'[r].url = url /\ req'[r].bucket = buckets[url.name]
    BY <2>2
  <2>6. (Sound(req[r]))'
    BY <1>0, <2>1, <2>3, <2>4, <2>5 DEF Sound, KeyOf, Buckets
  <2>7. QED
    BY <1>0, <1>1, <2>6, MoveKeepsInv
<1>8. CASE CheckSignature(r) /\ req'[r] # Idle
  <2>1. /\ req[r].at = "owner" /\ req'[r].at = "act"
        /\ req'[r].url = req[r].url /\ req'[r].bucket = req[r].bucket
        /\ req'[r].revoked = req[r].revoked
        /\ users[req[r].bucket.owner].key = req[r].url.key
    BY <1>8 DEF CheckSignature, Genuine, Goto, Locals, Idle
  <2>2. ~req[r].revoked /\ req[r].bucket.owner = req[r].url.user
    BY <2>1, LocalType DEF AccountsInv, TablesInv, Sound, KeyOf, OneUser
  <2>3. (Sound(req[r]))'
    BY <1>0, <2>1, <2>2 DEF Sound, KeyOf, AccountsInv
  <2>4. QED
    BY <1>0, <1>1, <2>3, MoveKeepsInv
<1>9. CASE DeleteLink(r) \/ SendMail(r) \/ Act(r) \/ Aborts(r)
  BY <1>2, <1>9 DEF DeleteLink, SendMail, Act, Aborts, Goto
<1>10. QED
  BY <1>2, <1>3, <1>4, <1>5, <1>6, <1>7, <1>8, <1>9

\* MarkVerified writes a column that no key is in
LEMMA MarkVerifiedKeepsInv ==
  ASSUME TypeOK, TypeOK', AccountsInv, NEW r \in Requests, MarkVerified(r)
  PROVE  AccountsInv'
<1> USE DEF AccountsInv, TablesInv, TypeOK
<1>1. /\ DOMAIN users' = DOMAIN users
      /\ \A e \in DOMAIN users : users'[e].key = users[e].key
      /\ UNCHANGED <<urls, buckets, fresh, replaced>>
  BY DEF MarkVerified, Accounts
<1>2. TablesGrow
  BY <1>1 DEF TablesGrow
<1>3. TablesInv'
  BY <1>1 DEF OwnersExist, Drawn, OneUser, UrlsSigned, KeyOf, OneRowPerId
<1>4. /\ \A q \in Requests \ {r} : req'[q] = req[q]
      /\ req'[r].at = "unlink"
  BY DEF MarkVerified, Goto, Locals, Idle
<1>5. (Sound(req[r]))'
  BY <1>4 DEF Sound
<1>6. QED
  BY <1>2, <1>3, <1>4, <1>5, GrowthKeepsInv

\* A link draws an id; a URL is signed with a key of its maker
LEMMA GivingKeepsInv ==
  ASSUME TypeOK, TypeOK', AccountsInv, NEW r \in Requests,
         InsertLink(r) \/ GiveUrl(r)
  PROVE  AccountsInv'
<1> USE DEF AccountsInv, TablesInv, TypeOK
<1>1. /\ fresh' \in Nat /\ fresh <= fresh'
      /\ UNCHANGED <<users, buckets, replaced>>
  BY DEF InsertLink, GiveUrl, Draws
<1>2. TablesGrow
  BY <1>1 DEF TablesGrow
<1>3. req[r].key \in Nat /\ req[r].key < fresh /\ KeyOf(req[r].key, req[r].user)
  BY LocalType DEF InsertLink, GiveUrl, Sound
<1>4. \A url \in urls' :
        \/ url \in urls
        \/ url.key = req[r].key /\ url.user = req[r].user
  BY DEF InsertLink, GiveUrl
<1>5. TablesInv'
  <2>1. OwnersExist' /\ OneUser' /\ OneRowPerId'
    BY <1>1 DEF OwnersExist, OneUser, OneRowPerId
  <2>2. Drawn'
    BY <1>1, <1>3, <1>4 DEF Drawn, Accounts, Buckets, Urls
  <2>3. UrlsSigned'
    BY <1>1, <1>3, <1>4 DEF UrlsSigned, KeyOf
  <2>4. QED
    BY <2>1, <2>2, <2>3
<1>6. /\ \A q \in Requests \ {r} : req'[q] = req[q]
      /\ req'[r].at \in {"mail", "idle"}
  BY DEF InsertLink, GiveUrl, Goto, Idle
<1>7. (Sound(req[r]))'
  BY <1>6 DEF Sound
<1>8. QED
  BY <1>2, <1>5, <1>6, <1>7, GrowthKeepsInv

\* Buckets come with a new id, and go
LEMMA BucketKeepsInv ==
  ASSUME TypeOK, TypeOK', AccountsInv, NEW r \in Requests,
         MakeBucket(r) \/ DropBucket(r)
  PROVE  AccountsInv'
<1> USE DEF AccountsInv, TablesInv, TypeOK
<1>1. /\ fresh' \in Nat /\ fresh <= fresh'
      /\ req[r].user \in DOMAIN users
      /\ UNCHANGED <<users, urls, replaced>>
  BY DEF MakeBucket, DropBucket, Draws, Sound
<1>2. CASE MakeBucket(r)
  <2>1. PICK name \in Names \ DOMAIN buckets :
          /\ DOMAIN buckets' = DOMAIN buckets \cup {name}
          /\ buckets'[name] = [id |-> fresh, owner |-> req[r].user]
          /\ \A n \in DOMAIN buckets : buckets'[n] = buckets[n]
    BY <1>2 DEF MakeBucket
  <2>2. fresh' = fresh + 1
    BY <1>2 DEF MakeBucket, Draws
  <2>3. buckets'[name].id = fresh /\ buckets'[name].owner = req[r].user
    BY <2>1
  <2>4. TablesGrow
    BY <1>1, <2>1, <2>3 DEF TablesGrow
  <2>5. OwnersExist' /\ OneUser' /\ UrlsSigned'
    BY <1>1, <2>1, <2>3 DEF OwnersExist, OneUser, UrlsSigned, KeyOf
  <2>6. Drawn' /\ OneRowPerId'
    BY <1>1, <2>1, <2>2, <2>3 DEF Drawn, OneRowPerId, Accounts, Buckets, Urls
  <2>7. req'[r].at = "idle" /\ \A q \in Requests \ {r} : req'[q] = req[q]
    BY <1>2 DEF MakeBucket, Goto, Idle
  <2>8. (Sound(req[r]))'
    BY <2>7 DEF Sound
  <2>9. QED
    BY <2>4, <2>5, <2>6, <2>7, <2>8, GrowthKeepsInv
<1>3. CASE DropBucket(r)
  <2>1. /\ DOMAIN buckets' \subseteq DOMAIN buckets
        /\ \A n \in DOMAIN buckets' : buckets'[n] = buckets[n]
        /\ fresh' = fresh
    BY <1>3 DEF DropBucket
  <2>2. TablesGrow
    BY <1>1, <2>1 DEF TablesGrow
  <2>3. TablesInv'
    BY <1>1, <2>1 DEF OwnersExist, OneUser, UrlsSigned, KeyOf, Drawn, OneRowPerId
  <2>4. req'[r].at = "idle" /\ \A q \in Requests \ {r} : req'[q] = req[q]
    BY <1>3 DEF DropBucket, Goto, Idle
  <2>5. (Sound(req[r]))'
    BY <2>4 DEF Sound
  <2>6. QED
    BY <2>2, <2>3, <2>4, <2>5, GrowthKeepsInv
<1>4. QED
  BY <1>2, <1>3

-----------------------------------------------------------------------------
(* Theorems *)

\* Every step keeps types and the invariant, which support each other: the type
\* of a replaced key rests on its row being there
LEMMA InvariantHolds == Spec => [](TypeOK /\ AccountsInv)
<1>1. Init => TypeOK /\ AccountsInv
  BY DEF Init, TypeOK, AccountsInv, TablesInv, OwnersExist, Drawn, OneUser,
         UrlsSigned, OneRowPerId, Sound, Idle
<1>2. TypeOK /\ AccountsInv /\ [Next]_vars => (TypeOK /\ AccountsInv)'
  <2> SUFFICES ASSUME TypeOK, AccountsInv, [Next]_vars
               PROVE  TypeOK' /\ AccountsInv'
    OBVIOUS
  <2>1. CASE UNCHANGED vars
    BY <2>1 DEF vars, TypeOK, AccountsInv, TablesInv, OwnersExist, Drawn, OneUser,
                UrlsSigned, OneRowPerId, KeyOf, Sound
  <2>2. CASE Next
    <3>1. TypeOK'
      BY <2>2, AccountStepType, LinkStepType, SignedStepType, UrlStepType DEF Next
    <3>2. AccountsInv'
      BY <2>2, <3>1, SignUpKeepsInv, SaveKeysKeepsInv, ReadingKeepsInv,
         MarkVerifiedKeepsInv, GivingKeepsInv, BucketKeepsInv DEF Next
    <3>3. QED
      BY <3>1, <3>2
  <2>3. QED
    BY <2>1, <2>2
<1>3. QED
  BY <1>1, <1>2, PTL DEF Spec

\* Tables, URLs and local variables keep their types
THEOREM TypeCorrect == Spec => []TypeOK
  BY InvariantHolds, PTL

\* However many users and requests overlap: a request signed with a key, or a
\* URL made with a key, that CreateSecretKey had replaced when it came does not
\* get past the middleware
THEOREM RevocationIsFinal == Spec => []RevokedOpensNothing
<1>1. AccountsInv => RevokedOpensNothing
  BY DEF AccountsInv, Sound, RevokedOpensNothing
<1>2. QED
  BY <1>1, InvariantHolds, PTL

\* However many users and requests overlap: a presigned URL passes the middleware
\* only for a bucket of its maker, and the handler acts on that one or on one
\* created after it, which may be another user's
THEOREM UrlsActForMaker == Spec => []ActsForMaker
<1>1. TypeOK /\ AccountsInv => ActsForMaker
  <2> SUFFICES ASSUME TypeOK, AccountsInv, NEW r \in Requests, req[r].at = "act"
               PROVE  /\ req[r].bucket.owner = req[r].url.user
                      /\ req[r].url.name \in DOMAIN buckets =>
                           \/ buckets[req[r].url.name] = req[r].bucket
                           \/ buckets[req[r].url.name].id > req[r].bucket.id
    BY DEF ActsForMaker
  <2>1. req[r].bucket \in Buckets
    BY LocalType
  <2>2. Sound(req[r])
    BY DEF AccountsInv
  <2>3. QED
    BY <2>1, <2>2 DEF Sound, TypeOK, Buckets
<1>2. QED
  BY <1>1, InvariantHolds, PTL
=============================================================================
