-------------------------------- MODULE Auth --------------------------------
(***************************************************************************)
(* Accounts of users, and the checks of their passwords and PINs:          *)
(* registration, login, the creation of the PIN and the check of the PIN   *)
(* that comes before every POST /transfers and POST /withdrawals.          *)
(*                                                                         *)
(* Every operation is a handler that reads a row of users, hashes or       *)
(* compares a secret (bcrypt, which takes a while), and writes what        *)
(* follows from what it has read.  A step here is one database statement,  *)
(* with the computation that follows a read or comes before a write;       *)
(* between two steps other handlers run.                                   *)
(*                                                                         *)
(* Time passes in ticks, and only the time left of a lock is kept.         *)
(***************************************************************************)
EXTENDS Integers

CONSTANTS
  Ids,        \* the ids of users
  Names,      \* emails and usernames, as they may be typed
  Lower,      \* the form of each that is stored: trimmed, in lower case
  Secrets,    \* passwords and PINs
  NoUser,     \* the row of an id that is not used
  NoSecret,   \* the PIN of a user who has none
  NoRequest,  \* the request of an idle handler
  Handlers,   \* the handlers that may be running at one time
  Offers,     \* the requests that may arrive, any number of times each
  MaxTries,   \* MAX_AUTH_TRIES
  LockTime    \* AUTH_LOCK_MS, in ticks

Kinds == {"password", "pin"}

(* A new user's names and password.                                        *)
Registration ==
  [op : {"register"}, email : Names, username : Names, secret : Secrets]

(* A login's email and password; the user's email and PIN.                 *)
Check == [op : {"login", "check pin"}, email : Names, secret : Secrets]

(* The user's email and password, and the new PIN.                         *)
PinCreation ==
  [op : {"create pin"}, email : Names, secret : Secrets, pin : Secrets]

Request == Registration \cup Check \cup PinCreation

User == [email : Names, username : Names, password : Secrets]

ASSUME NamesAssumption ==
  /\ Lower \in [Names -> Names]
  /\ \A n \in Names : Lower[Lower[n]] = Lower[n]
ASSUME SentinelsAssumption ==
  NoUser \notin User /\ NoSecret \notin Secrets /\ NoRequest \notin Request
ASSUME IdsAssumption == Ids # {}
ASSUME OffersAssumption == Offers \subseteq Request
ASSUME LockAssumption == MaxTries \in Nat \ {0} /\ LockTime \in Nat \ {0}

VARIABLES
  users,    \* the rows of users
  wallets,  \* the users that have a row of wallets
  pin,      \* the PIN of each user
  tries,    \* the failed tries of each user and kind, as stored
  lock,     \* the time left of the lock of each user and kind
  run,      \* what each handler does next, for which request, with what copy
  created,  \* the requests that were answered "Account created successfully"
  outdated  \* history: the handlers whose copy is not what is stored any more

accounts == <<users, wallets, created>>
counters == <<tries, lock>>
vars == <<accounts, pin, counters, run, outdated>>

NoLock == -1

Labels == {"idle", "by email", "by username", "insert",
           "find", "unlock", "compare", "wallet", "set pin"}

Run == [pc     : Labels,
        req    : Request \cup {NoRequest},
        id     : Ids,
        seen   : Nat,
        locked : BOOLEAN,
        hash   : Secrets \cup {NoSecret}]

TypeOK ==
  /\ users \in [Ids -> User \cup {NoUser}]
  /\ wallets \subseteq Ids
  /\ pin \in [Ids -> Secrets \cup {NoSecret}]
  /\ tries \in [Ids -> [Kinds -> Nat]]
  /\ lock \in [Ids -> [Kinds -> NoLock .. LockTime]]
  /\ run \in [Handlers -> Run]
  /\ created \subseteq [id : Ids, req : Request]
  /\ outdated \subseteq Handlers

AnyId == CHOOSE id \in Ids : TRUE

IdleRun == [pc |-> "idle", req |-> NoRequest, id |-> AnyId, seen |-> 0,
            locked |-> FALSE, hash |-> NoSecret]

Init ==
  /\ users = [id \in Ids |-> NoUser]
  /\ wallets = {}
  /\ pin = [id \in Ids |-> NoSecret]
  /\ tries = [id \in Ids |-> [k \in Kinds |-> 0]]
  /\ lock = [id \in Ids |-> [k \in Kinds |-> NoLock]]
  /\ run = [h \in Handlers |-> IdleRun]
  /\ created = {}
  /\ outdated = {}

-----------------------------------------------------------------------------
Registered == {id \in Ids : users[id] # NoUser}

WithEmail(name) == {id \in Registered : users[id].email = name}
WithUsername(name) == {id \in Registered : users[id].username = name}

Goto(h, label) == run' = [run EXCEPT ![h].pc = label]

Answer(h) == run' = [run EXCEPT ![h] = IdleRun]

(* A request; the PIN is created and checked for a user who logged in.     *)
Receive(h) ==
  /\ run[h].pc = "idle"
  /\ \E r \in Offers :
       /\ r.op \in {"create pin", "check pin"} => WithEmail(Lower[r.email]) # {}
       /\ run' = [run EXCEPT ![h].req = r,
                             ![h].pc = IF r.op = "register" THEN "by email" ELSE "find"]
  /\ UNCHANGED <<accounts, pin, counters>>

(* A call fails or the process dies: what was written stays.               *)
Abort(h) ==
  /\ run[h].pc # "idle"
  /\ Answer(h)
  /\ UNCHANGED <<accounts, pin, counters>>

-----------------------------------------------------------------------------
(* POST /auth/register.                                                    *)

(* Slip: names are stored as they are typed.                               *)
NewUserAsTyped(r) ==
  [email |-> r.email, username |-> r.username, password |-> r.secret]

NewUser(r) ==
  [email |-> Lower[r.email], username |-> Lower[r.username], password |-> r.secret]

FindByEmail(h) ==
  /\ run[h].pc = "by email"
  /\ IF WithEmail(NewUser(run[h].req).email) # {} THEN Answer(h)
                                                  ELSE Goto(h, "by username")
  /\ UNCHANGED <<accounts, pin, counters>>

FindByUsername(h) ==
  /\ run[h].pc = "by username"
  /\ IF WithUsername(NewUser(run[h].req).username) # {} THEN Answer(h)
                                                        ELSE Goto(h, "insert")
  /\ UNCHANGED <<accounts, pin, counters>>

(* Slip: a row with the same email is updated.                             *)
CreateWithWalletUpsert(h) ==
  LET u == NewUser(run[h].req)
  IN  /\ run[h].pc = "insert"
      /\ \E id \in Ids :
           /\ id \in WithEmail(u.email) \/ (WithEmail(u.email) = {} /\ users[id] = NoUser)
           /\ users' = [users EXCEPT ![id] = u]
           /\ wallets' = wallets \cup {id}
           /\ created' = created \cup {[id |-> id, req |-> run[h].req]}
      /\ Answer(h)
      /\ UNCHANGED <<pin, counters>>

(* The insert of the user and the wallet in one statement, and the answer. *)
(* The unique indexes refuse it to the second of two requests that both    *)
(* found the names free: that one is answered with an error.  The process  *)
(* may die when the row is there and the answer is not.                    *)
CreateWithWallet(h) ==
  LET u == NewUser(run[h].req)
  IN  /\ run[h].pc = "insert"
      /\ \/ /\ WithEmail(u.email) \cup WithUsername(u.username) # {}
            /\ UNCHANGED accounts
         \/ /\ WithEmail(u.email) \cup WithUsername(u.username) = {}
            /\ \E id \in Ids \ Registered :
                 /\ users' = [users EXCEPT ![id] = u]
                 /\ wallets' = wallets \cup {id}
                 /\ \/ created' = created \cup {[id |-> id, req |-> run[h].req]}
                    \/ UNCHANGED created
      /\ Answer(h)
      /\ UNCHANGED <<pin, counters>>

-----------------------------------------------------------------------------
(* The check of a password or PIN.                                         *)

KindOf(r) == IF r.op = "check pin" THEN "pin" ELSE "password"

Running(left) == left > 0
Expired(left) == left = 0

Write(id, kind, n, left) ==
  /\ tries' = [tries EXCEPT ![id][kind] = n]
  /\ lock' = [lock EXCEPT ![id][kind] = left]

(* The handler goes on with a copy of the row it read.                     *)
KeepCopy(h, id, label) ==
  LET kind == KindOf(run[h].req)
  IN  run' = [run EXCEPT ![h].pc = label,
                         ![h].id = id,
                         ![h].seen = tries[id][kind],
                         ![h].locked = lock[id][kind] # NoLock,
                         ![h].hash = IF kind = "pin" THEN pin[id] ELSE users[id].password]

(* Slip: a lock that is running is not looked at.                          *)
CheckLockExpiredOnly(h, id, left) ==
  /\ KeepCopy(h, id, IF Expired(left) THEN "unlock" ELSE "compare")
  /\ UNCHANGED counters

(* Slip: a try during the lock starts it again.                            *)
CheckLockRenewing(h, id, left) ==
  \/ Running(left) /\ Answer(h) /\ Write(id, KindOf(run[h].req), MaxTries, LockTime)
  \/ ~ Running(left) /\ UNCHANGED counters
       /\ KeepCopy(h, id, IF Expired(left) THEN "unlock" ELSE "compare")

(* assertNotLocked ends the request while the lock runs; a lock that is    *)
(* over is lifted before the secret is compared.  The clock is read twice: *)
(* a lock that still ran at the first reading, and is over at the second,  *)
(* is neither lifted nor in the way, and the check goes on with a copy     *)
(* that has it.                                                            *)
CheckLock(h, id, left) ==
  /\ \/ Running(left) /\ Answer(h)
     \/ Expired(left) /\ KeepCopy(h, id, "unlock")
     \/ Expired(left) /\ KeepCopy(h, id, "compare")
     \/ left = NoLock /\ KeepCopy(h, id, "compare")
  /\ UNCHANGED counters

(* Reading the user does not get as far as the lock: a login needs a user, *)
(* the check of a PIN needs a PIN, the creation of one needs that there is *)
(* none.                                                                   *)
Refused(r, found) ==
  \/ found = {}
  \/ \E id \in found : \/ r.op = "check pin" /\ pin[id] = NoSecret
                       \/ r.op = "create pin" /\ pin[id] # NoSecret

FindUser(h) ==
  LET r     == run[h].req
      found == WithEmail(Lower[r.email])
  IN  /\ run[h].pc = "find"
      /\ \/ Refused(r, found) /\ Answer(h) /\ UNCHANGED counters
         \/ /\ ~ Refused(r, found)
            /\ \E id \in found : CheckLock(h, id, lock[id][KindOf(r)])
      /\ UNCHANGED <<accounts, pin>>

(* Slip: the copy keeps the old number of tries.                           *)
LiftLockKeepingCopy(h) ==
  /\ run[h].pc = "unlock"
  /\ Write(run[h].id, KindOf(run[h].req), 0, NoLock)
  /\ run' = [run EXCEPT ![h].locked = FALSE, ![h].pc = "compare"]
  /\ UNCHANGED <<accounts, pin>>

(* resetPasswordFailures or resetPinFailures of a lock that was over.      *)
LiftLock(h) ==
  /\ run[h].pc = "unlock"
  /\ Write(run[h].id, KindOf(run[h].req), 0, NoLock)
  /\ run' = [run EXCEPT ![h].seen = 0, ![h].locked = FALSE, ![h].pc = "compare"]
  /\ UNCHANGED <<accounts, pin>>

(* Slip: the lock time is given in other units.                            *)
LockAfterInSeconds(attempts) ==
  IF attempts >= MaxTries THEN LockTime * 60 ELSE NoLock

(* lockUntilIfMaxed.                                                       *)
LockAfter(attempts) == IF attempts >= MaxTries THEN LockTime ELSE NoLock

(* What comes after the right secret.                                      *)
Proceed(h) ==
  CASE run[h].req.op = "login"      -> Goto(h, "wallet")
    [] run[h].req.op = "create pin" -> Goto(h, "set pin")
    [] run[h].req.op = "check pin"  -> Answer(h)

(* Slip: the count that is written is the one that was read (try++).       *)
CompareOldCount(h) ==
  LET r == run[h]
  IN  /\ r.pc = "compare"
      /\ IF r.req.secret # r.hash
           THEN Write(r.id, KindOf(r.req), r.seen, LockAfter(r.seen)) /\ Answer(h)
           ELSE /\ IF r.seen > 0 \/ r.locked THEN Write(r.id, KindOf(r.req), 0, NoLock)
                                              ELSE UNCHANGED counters
                /\ Proceed(h)
      /\ UNCHANGED <<accounts, pin>>

(* bcrypt.compare with the copy, then what it calls for: one more failed   *)
(* try than the copy has, or none.                                         *)
Compare(h) ==
  LET r == run[h]
  IN  /\ r.pc = "compare"
      /\ IF r.req.secret # r.hash
           THEN /\ Write(r.id, KindOf(r.req), r.seen + 1, LockAfter(r.seen + 1))
                /\ Answer(h)
           ELSE /\ IF r.seen > 0 \/ r.locked THEN Write(r.id, KindOf(r.req), 0, NoLock)
                                              ELSE UNCHANGED counters
                /\ Proceed(h)
      /\ UNCHANGED <<accounts, pin>>

(* wallets.findByUserId, and the answer of a login.                        *)
FindWallet(h) ==
  /\ run[h].pc = "wallet"
  /\ Answer(h)
  /\ UNCHANGED <<accounts, pin, counters>>

(* setPinHash also clears the failed tries of the PIN.                     *)
SetPinHash(h) ==
  /\ run[h].pc = "set pin"
  /\ pin' = [pin EXCEPT ![run[h].id] = run[h].req.pin]
  /\ Write(run[h].id, "pin", 0, NoLock)
  /\ Answer(h)
  /\ UNCHANGED accounts

(* Time passes.                                                            *)
Tick ==
  /\ \E id \in Ids, k \in Kinds : Running(lock[id][k])
  /\ lock' = [id \in Ids |-> [k \in Kinds |->
                IF Running(lock[id][k]) THEN lock[id][k] - 1 ELSE lock[id][k]]]
  /\ UNCHANGED <<accounts, pin, tries, run, outdated>>

-----------------------------------------------------------------------------
Work(h) ==
  \/ FindByEmail(h)
  \/ FindByUsername(h)
  \/ CreateWithWallet(h)
  \/ FindUser(h)
  \/ LiftLock(h)
  \/ Compare(h)
  \/ FindWallet(h)
  \/ SetPinHash(h)

(* The handlers in the middle of a check, between reading the row and the  *)
(* write that follows from it.                                             *)
Checking(h) == run[h].pc \in {"unlock", "compare"}

Written(id, k) == tries'[id][k] # tries[id][k] \/ lock'[id][k] # lock[id][k]

(* What a step of one handler writes outdates the copies of the others.    *)
NoteWrites ==
  outdated' = {h \in Handlers :
                 /\ run'[h] = run[h]
                 /\ Checking(h)
                 /\ h \in outdated \/ Written(run[h].id, KindOf(run[h].req))}

Next ==
  \/ (\E h \in Handlers : Receive(h) \/ Work(h) \/ Abort(h)) /\ NoteWrites
  \/ Tick

Spec == Init /\ [][Next]_vars

FairSpec == Spec /\ WF_vars(Tick)

-----------------------------------------------------------------------------
(* No two users share an email or a username, however they were typed and  *)
(* however the registrations overlapped (auth-register.service.ts, and the *)
(* unique indexes of user.prisma).                                         *)
NamesUnique ==
  \A i, j \in Registered :
    i # j => /\ Lower[users[i].email] # Lower[users[j].email]
             /\ Lower[users[i].username] # Lower[users[j].username]

(* Who was told that the account is created has it: the user with these    *)
(* names, this password, and a wallet; and nobody else was told the same   *)
(* of that user (createWithWallet in prisma-user.repository.ts).           *)
CreatedStands ==
  /\ \A c \in created : users[c.id] = NewUser(c.req)
  /\ \A c, d \in created : c.id = d.id => c = d
  /\ wallets = Registered

(* The request that takes this step, about the user and the secret.        *)
Acts(h, id) == run'[h] # run[h] /\ run[h].id = id

Checks(h, id, k) == Acts(h, id) /\ Checking(h) /\ KindOf(run[h].req) = k

(* README.md: "Wrong PIN: 3 failures -> 5 minute lock".  A lock that is not*)
(* over is lifted by no request that comes after it, not even with the     *)
(* right secret; only one that overlaps with the failed try may lift it: a *)
(* check that read the row before, or the creation of a PIN that was meant *)
(* to be the first (auth-credential.service.ts, auth-create-pin.service.ts)*)
LocksHold ==
  [][\A id \in Ids, k \in Kinds :
       Running(lock[id][k]) /\ lock'[id][k] = NoLock
         => \E h \in Handlers :
              \/ Checks(h, id, k) /\ h \in outdated
              \/ Acts(h, id) /\ run[h].pc = "set pin" /\ k = "pin" /\ pin[id] # NoSecret]_vars

(* Nobody is locked with tries left, as stored, nor after a lock that was  *)
(* lifted before all of them failed again: a wrong try sets a lock as the  *)
(* last one that was left.  The exceptions are a try whose row was written *)
(* meanwhile, and one whose lock ended between the two readings of the     *)
(* clock, which finds the tries used up and locks at once                  *)
(* (verifyPasswordOrThrow and verifyPinOrThrow in                          *)
(* auth-credential.service.ts).                                            *)
LocksEarned ==
  [][\A id \in Ids, k \in Kinds :
       lock'[id][k] > lock[id][k]
         => \E h \in Handlers :
              /\ Checks(h, id, k)
              /\ h \in outdated \/ run[h].locked \/ tries[id][k] = MaxTries - 1]_vars

(* A wrong secret is answered, and counted from the copy.                  *)
WrongTry(id, k) ==
  \E h \in Handlers :
    /\ Compare(h)
    /\ Checks(h, id, k)
    /\ run[h].req.secret # run[h].hash

Cleared(id, k) == tries[id][k] # 0 /\ tries'[id][k] = 0

(* Tries that overlap are counted as one, but that does not put off the    *)
(* lock for good: who goes on with wrong secrets is locked again and again,*)
(* unless the count is cleared again and again (recordPinFailure and       *)
(* recordPasswordFailure, which write the count that was read plus one).   *)
LocksCome ==
  \A id \in Ids, k \in Kinds :
    []<><<WrongTry(id, k)>>_vars
      => []<>Running(lock[id][k]) \/ []<><<Cleared(id, k)>>_vars

(* Every lock ends, however often the user tries meanwhile.                *)
LocksEnd ==
  \A id \in Ids, k \in Kinds : []<>(~ Running(lock[id][k]))
=============================================================================
