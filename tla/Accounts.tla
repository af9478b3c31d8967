------------------------------- MODULE Accounts -------------------------------
(***************************************************************************)
(* Who may do what: accounts, verification links and keys (handlers/       *)
(* auth_handlers.go), signed requests (middleware/auth.go, auth/auth.go),  *)
(* presigned URLs (handlers/file_handlers.go, utils/utils.go, middleware/  *)
(* presigned_url.go), and the buckets only as names that have an owner.    *)
(*                                                                         *)
(* An access key and its secret are drawn, saved and replaced together:    *)
(* one value stands for both.  A signature is the key it was made with, as *)
(* HMAC gives away no other.  Links, signatures and URLs expire: then, and *)
(* when anything else about it is wrong, a request is refused without a    *)
(* trace and is a stuttering step.                                         *)
(***************************************************************************)
EXTENDS Naturals

CONSTANTS
  Emails,    \* of the users: column email is UNIQUE
  Names,     \* bucket names
  Requests,  \* slots for requests
  MaxFresh   \* bound: no value is drawn once fresh exceeds it

ASSUME FreshAssumption == MaxFresh \in Nat

VARIABLES
  users,     \* email -> its row of table users
  links,     \* the rows of table email_verifications
  inbox,     \* the links that were mailed
  urls,      \* the presigned URLs handed out
  buckets,   \* bucket name -> its row of table buckets
  req,       \* the local state of the requests
  fresh,     \* the next key or id
  replaced   \* history: the keys that CreateSecretKey has overwritten

vars == <<users, links, inbox, urls, buckets, req, fresh, replaced>>

Idle == [at |-> "idle"]

Accounts == [key : Nat, verified : BOOLEAN]
Links == [id : Nat, user : Emails]
Urls == [user : Emails, name : Names, key : Nat]
Buckets == [id : Nat, owner : Emails]

\* "revoked": the key had been replaced when the request came
Locals ==
  [at : {"user"}, key : Nat, revoked : BOOLEAN]
    \cup [at : {"handler"}, key : Nat, revoked : BOOLEAN, user : Emails]
    \cup [at : {"mail"}, link : Links]
    \cup [at : {"verify", "unlink"}, link : Links]
    \cup [at : {"save"}, user : Emails, row : Accounts]
    \cup [at : {"owner", "act"}, url : Urls, bucket : Buckets, revoked : BOOLEAN]

\* Tables, URLs and local variables keep their types
TypeOK ==
  /\ DOMAIN users \subseteq Emails /\ users \in [DOMAIN users -> Accounts]
  /\ links \subseteq Links /\ inbox \subseteq Links
  /\ urls \subseteq Urls
  /\ DOMAIN buckets \subseteq Names /\ buckets \in [DOMAIN buckets -> Buckets]
  /\ req \in [Requests -> Locals \cup {Idle}]
  /\ fresh \in Nat
  /\ replaced \subseteq Nat

Init ==
  /\ users = [e \in {} |-> Idle] /\ buckets = [n \in {} |-> Idle]
  /\ links = {} /\ inbox = {} /\ urls = {} /\ replaced = {}
  /\ req = [r \in Requests |-> Idle]
  /\ fresh = 1

Draws == fresh <= MaxFresh /\ fresh' = fresh + 1

Goto(r, local) == req' = [req EXCEPT ![r] = local]

\* SELECT ... WHERE access_key = ?
UserOf(key) == {e \in DOMAIN users : users[e].key = key}

-----------------------------------------------------------------------------
(* Accounts *)

\* "email already exists" is the database's answer
SignUp(email) ==
  /\ Draws
  /\ email \notin DOMAIN users
  /\ users' = [e \in DOMAIN users \cup {email} |->
                 IF e = email THEN [key |-> fresh, verified |-> FALSE] ELSE users[e]]
  /\ UNCHANGED <<links, inbox, urls, buckets, req, replaced>>

\* CreateSecretKey reads the row, and then compares the password: bcrypt is slow
ReadAccount(r) ==
  /\ req[r] = Idle
  /\ \E email \in DOMAIN users :
       Goto(r, [at |-> "save", user |-> email, row |-> users[email]])
  /\ UNCHANGED <<users, links, inbox, urls, buckets, fresh, replaced>>

\* DB.Save writes every column, those it read included
SaveKeys(r) ==
  /\ req[r].at = "save"
  /\ Draws
  /\ users' = [users EXCEPT ![req[r].user] = [req[r].row EXCEPT !.key = fresh]]
  /\ replaced' = replaced \cup {users[req[r].user].key}
  /\ Goto(r, Idle)
  /\ UNCHANGED <<links, inbox, urls, buckets>>

\* Mutant: the error of the SELECT not looked at, so that the row is empty
ClickUnchecked(r) ==
  /\ req[r] = Idle
  /\ Goto(r, [at |-> "verify", link |-> [id |-> 0]])
  /\ UNCHANGED <<users, links, inbox, urls, buckets, fresh, replaced>>

\* VerifyEmail finds the link of a mail, not expired
Click(r) ==
  /\ req[r] = Idle
  /\ \E link \in links \cap inbox : Goto(r, [at |-> "verify", link |-> link])
  /\ UNCHANGED <<users, links, inbox, urls, buckets, fresh, replaced>>

\* UPDATE of one column
MarkVerified(r) ==
  /\ req[r].at = "verify"
  /\ users' = [users EXCEPT ![req[r].link.user].verified = TRUE]
  /\ Goto(r, [req[r] EXCEPT !.at = "unlink"])
  /\ UNCHANGED <<links, inbox, urls, buckets, fresh, replaced>>

DeleteLink(r) ==
  /\ req[r].at = "unlink"
  /\ links' = links \ {req[r].link}
  /\ Goto(r, Idle)
  /\ UNCHANGED <<users, inbox, urls, buckets, fresh, replaced>>

-----------------------------------------------------------------------------
(* Signed requests: AuthMiddleware looks the key up twice *)

\* ValidateRequest: the signature was made with the secret of the row
Validate(r) ==
  /\ req[r] = Idle
  /\ \E key \in 1..(fresh - 1) :
       /\ UserOf(key) # {}
       /\ Goto(r, [at |-> "user", key |-> key, revoked |-> key \in replaced])
  /\ UNCHANGED <<users, links, inbox, urls, buckets, fresh, replaced>>

\* GetUserByAccessKey once more; 401 if the key was replaced
FindUser(r) ==
  /\ req[r].at = "user"
  /\ \/ UserOf(req[r].key) = {} /\ Goto(r, Idle)
     \/ \E email \in UserOf(req[r].key) :
          Goto(r, [at |-> "handler", key |-> req[r].key,
                   revoked |-> req[r].revoked, user |-> email])
  /\ UNCHANGED <<users, links, inbox, urls, buckets, fresh, replaced>>

\* CreateVerificationLink: the row first, then the mail
InsertLink(r) ==
  /\ req[r].at = "handler"
  /\ Draws
  /\ LET link == [id |-> fresh, user |-> req[r].user]
     IN  links' = links \cup {link} /\ Goto(r, [at |-> "mail", link |-> link])
  /\ UNCHANGED <<users, inbox, urls, buckets, replaced>>

SendMail(r) ==
  /\ req[r].at = "mail"
  /\ inbox' = inbox \cup {req[r].link}
  /\ Goto(r, Idle)
  /\ UNCHANGED <<users, links, urls, buckets, fresh, replaced>>

\* CreateDownloadPresignedURL, CreateUploadPresignedURL: the caller's bucket,
\* and the secret of the row that the middleware read
GiveUrl(r) ==
  /\ req[r].at = "handler"
  /\ \E name \in DOMAIN buckets :
       /\ buckets[name].owner = req[r].user
       /\ urls' = urls \cup {[user |-> req[r].user, name |-> name, key |-> req[r].key]}
  /\ Goto(r, Idle)
  /\ UNCHANGED <<users, links, inbox, buckets, fresh, replaced>>

\* CreateBucket and DeleteBucket, of an empty bucket (ObjectStore has the steps)
MakeBucket(r) ==
  /\ req[r].at = "handler"
  /\ Draws
  /\ \E name \in Names \ DOMAIN buckets :
       buckets' = [n \in DOMAIN buckets \cup {name} |->
                     IF n = name THEN [id |-> fresh, owner |-> req[r].user]
                                 ELSE buckets[n]]
  /\ Goto(r, Idle)
  /\ UNCHANGED <<users, links, inbox, urls, replaced>>

DropBucket(r) ==
  /\ req[r].at = "handler"
  /\ \E name \in DOMAIN buckets :
       /\ buckets[name].owner = req[r].user
       /\ buckets' = [n \in DOMAIN buckets \ {name} |-> buckets[n]]
  /\ Goto(r, Idle)
  /\ UNCHANGED <<users, links, inbox, urls, fresh, replaced>>

-----------------------------------------------------------------------------
(* Presigned URLs: ValidatePresignedURL finds the bucket by its name and    *)
(* then its owner; the handler finds the bucket by its name again           *)

Present(r) ==
  /\ req[r] = Idle
  /\ \E url \in urls :
       /\ url.name \in DOMAIN buckets
       /\ Goto(r, [at |-> "owner", url |-> url, bucket |-> buckets[url.name],
                   revoked |-> url.key \in replaced])
  /\ UNCHANGED <<users, links, inbox, urls, buckets, fresh, replaced>>

\* Mutant: the signature not compared
GenuineAlways(url, owner) == TRUE

\* Mutant: compared with the key of the user who made the URL, whoever owns the
\* bucket now
GenuineOfMaker(url, owner) == users[url.user].key = url.key

Genuine(url, owner) == users[owner].key = url.key

\* The HMAC is made with the owner's present secret: 403 if it is not the URL's
CheckSignature(r) ==
  /\ req[r].at = "owner"
  /\ IF Genuine(req[r].url, req[r].bucket.owner)
     THEN Goto(r, [req[r] EXCEPT !.at = "act"])
     ELSE Goto(r, Idle)
  /\ UNCHANGED <<users, links, inbox, urls, buckets, fresh, replaced>>

\* The handler looks the bucket up: 404 if it is gone
Act(r) ==
  /\ req[r].at = "act"
  /\ Goto(r, Idle)
  /\ UNCHANGED <<users, links, inbox, urls, buckets, fresh, replaced>>

\* An error, a mail that cannot be sent, a crash
Aborts(r) ==
  /\ req[r] # Idle
  /\ Goto(r, Idle)
  /\ UNCHANGED <<users, links, inbox, urls, buckets, fresh, replaced>>

-----------------------------------------------------------------------------
Next ==
  \/ \E email \in Emails : SignUp(email)
  \/ \E r \in Requests :
       \/ ReadAccount(r) \/ SaveKeys(r)
       \/ Click(r) \/ MarkVerified(r) \/ DeleteLink(r)
       \/ Validate(r) \/ FindUser(r) \/ InsertLink(r) \/ SendMail(r) \/ GiveUrl(r)
       \/ MakeBucket(r) \/ DropBucket(r)
       \/ Present(r) \/ CheckSignature(r) \/ Act(r)
       \/ Aborts(r)

Spec == Init /\ [][Next]_vars

-----------------------------------------------------------------------------
(* Properties *)

\* Replacing the keys is final: a request signed with, or a URL made with, keys
\* that had been replaced when it came gets nowhere, although the middleware
\* looks rows up one after the other and CreateSecretKey saves rows it read
\* long before
RevokedOpensNothing ==
  \A r \in Requests :
    req[r] # Idle /\ req[r].at \in {"handler", "act"} => ~req[r].revoked

\* A presigned URL passes the middleware only for a bucket of the user who made
\* it: not for one that another user has created under the same name since.  The
\* handler, which looks the bucket up by its name once more, acts on that bucket
\* or on one created after it - whose owner nobody compares with the URL's maker
ActsForMaker ==
  \A r \in Requests : req[r] # Idle /\ req[r].at = "act" =>
    LET url == req[r].url
    IN  /\ req[r].bucket.owner = url.user
        /\ url.name \in DOMAIN buckets =>
             \/ buckets[url.name] = req[r].bucket
             \/ buckets[url.name].id > req[r].bucket.id

\* "email verified successfully" (handlers/auth_handlers.go): it stays so
VerifiedStays ==
  [][\A e \in DOMAIN users : users[e].verified => users'[e].verified]_vars
=============================================================================
