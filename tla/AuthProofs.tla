----------------------------- MODULE AuthProofs -----------------------------
(***************************************************************************)
(* Theorems about Auth: unique names, registrations that stand, and locks  *)
(* that hold, for any users, names, secrets, handlers and bounds.          *)
(*                                                                         *)
(* The inductive invariant has four parts: the accounts, the counters, what*)
(* the handlers carry with them from one statement to the next, and what   *)
(* their copies of a row are worth.  The names are unique because what is  *)
(* stored is the normal form that the indexes compare.  A lock holds, and  *)
(* is earned, because a copy is either outdated or agrees with the row: a  *)
(* check that got past the lock with a copy that agrees faces no lock that *)
(* runs, and the tries it counts from are those that are stored.           *)
(***************************************************************************)
EXTENDS Auth, TLAPS

(* What is stored of the names is their normal form.                       *)
NamesStored ==
  \A i \in Registered : /\ Lower[users[i].email] = users[i].email
                        /\ Lower[users[i].username] = users[i].username

AccountsOK ==
  /\ users \in [Ids -> User \cup {NoUser}]
  /\ created \subseteq [id : Ids, req : Request]
  /\ \A c \in created : c.id \in Registered
  /\ NamesStored
  /\ NamesUnique
  /\ CreatedStands

(* A lock is stored exactly when the failed tries are used up; one that    *)
(* ended within a check may make them more than MAX_AUTH_TRIES.            *)
TriesMatchLocks ==
  \A id \in Ids, k \in Kinds : tries[id][k] >= MaxTries <=> lock[id][k] # NoLock

(* Only a PIN that is set can be locked.                                   *)
LockedPinIsSet ==
  \A id \in Ids : lock[id]["pin"] # NoLock => pin[id] # NoSecret

CountersOK ==
  /\ pin \in [Ids -> Secrets \cup {NoSecret}]
  /\ tries \in [Ids -> [Kinds -> Nat]]
  /\ lock \in [Ids -> [Kinds -> NoLock .. LockTime]]
  /\ TriesMatchLocks
  /\ LockedPinIsSet

(* What a handler carries fits the place it has got to.                    *)
Carries(r) ==
  /\ r.pc # "idle" => r.req \in Request
  /\ r.pc \in {"by email", "by username", "insert"} => r.req.op = "register"
  /\ r.pc \in {"find", "unlock", "compare", "wallet", "set pin"}
       => r.req.op # "register"
  /\ r.pc = "set pin" => r.req.op = "create pin"

ChecksSetPin(r) ==
  r.pc \in {"unlock", "compare"} /\ r.req.op = "check pin" => pin[r.id] # NoSecret

RunsOK ==
  /\ run \in [Handlers -> Run]
  /\ \A h \in Handlers : Carries(run[h]) /\ ChecksSetPin(run[h])

CoreInv == AccountsOK /\ CountersOK /\ RunsOK

(* A copy that agrees with the row: the check found no lock that runs, the *)
(* tries it compares with are those that are stored, and so is the lock.   *)
Agrees(r) ==
  r.pc \in {"unlock", "compare"} =>
    LET k == KindOf(r.req)
    IN  /\ ~ Running(lock[r.id][k])
        /\ r.pc = "compare" => /\ r.seen = tries[r.id][k]
                               /\ ~ r.locked => lock[r.id][k] = NoLock

CopiesOK ==
  /\ outdated \subseteq Handlers
  /\ \A h \in Handlers : h \in outdated \/ Agrees(run[h])

AuthInv == CoreInv /\ CopiesOK
-----------------------------------------------------------------------------
(* Records.                                                                *)

LEMMA NewUserType ==
  ASSUME NEW r \in Request, r.op = "register"
  PROVE  /\ NewUser(r) \in User
         /\ NewUser(r) # NoUser
         /\ Lower[NewUser(r).email] = NewUser(r).email
         /\ Lower[NewUser(r).username] = NewUser(r).username
<1>1. r.email \in Names /\ r.username \in Names /\ r.secret \in Secrets
  BY DEF Request, Registration, Check, PinCreation
<1>2. Lower[r.email] \in Names /\ Lower[r.username] \in Names
  BY <1>1, NamesAssumption
<1>3. NewUser(r) \in User
  BY <1>1, <1>2 DEF NewUser, User
<1> QED
  BY <1>1, <1>3, NamesAssumption, SentinelsAssumption DEF NewUser

LEMMA KindType == \A r : KindOf(r) \in Kinds
BY DEF KindOf, Kinds

-----------------------------------------------------------------------------
(* What the steps of a handler write.                                      *)

(* A handler goes to the next place, with what it carried.                 *)
LEMMA GotoEffect ==
  ASSUME run \in [Handlers -> Run], NEW h \in Handlers, NEW label \in Labels,
         Goto(h, label)
  PROVE  /\ run' \in [Handlers -> Run]
         /\ \A i \in Handlers \ {h} : run'[i] = run[i]
         /\ run'[h].pc = label /\ run'[h].req = run[h].req
         /\ run'[h].id = run[h].id /\ run'[h].seen = run[h].seen
<1>1. run[h] \in Run
  OBVIOUS
<1>2. [run[h] EXCEPT !.pc = label] \in Run
  BY <1>1 DEF Run
<1>3. run' = [run EXCEPT ![h] = [run[h] EXCEPT !.pc = label]]
  BY DEF Goto
<1> DEFINE new == [run[h] EXCEPT !.pc = label]
<1>4. /\ new.pc = label /\ new.req = run[h].req
      /\ new.id = run[h].id /\ new.seen = run[h].seen
  BY <1>1 DEF Run
<1>5. /\ run'[h] = new
      /\ \A i \in Handlers \ {h} : run'[i] = run[i]
      /\ run' \in [Handlers -> Run]
  BY <1>2, <1>3
<1> QED
  BY <1>4, <1>5

(* A handler that has answered is idle.                                    *)
LEMMA AnswerEffect ==
  ASSUME run \in [Handlers -> Run], NEW h \in Handlers, Answer(h)
  PROVE  /\ run' \in [Handlers -> Run]
         /\ \A i \in Handlers \ {h} : run'[i] = run[i]
         /\ run'[h].pc = "idle"
<1>1. AnyId \in Ids
  BY IdsAssumption DEF AnyId
<1>2. IdleRun \in Run
  BY <1>1 DEF IdleRun, Run, Labels
<1>3. IdleRun.pc = "idle"
  BY DEF IdleRun
<1>4. run' = [run EXCEPT ![h] = IdleRun]
  BY DEF Answer
<1> QED
  BY <1>2, <1>3, <1>4

(* The counters of one user and kind are written, and no others.           *)
Wrote(id, kind, n, left) ==
  /\ tries' \in [Ids -> [Kinds -> Nat]]
  /\ lock' \in [Ids -> [Kinds -> NoLock .. LockTime]]
  /\ \A i \in Ids, k \in Kinds :
       IF i = id /\ k = kind
         THEN tries'[i][k] = n /\ lock'[i][k] = left
         ELSE tries'[i][k] = tries[i][k] /\ lock'[i][k] = lock[i][k]

LEMMA WriteEffect ==
  ASSUME tries \in [Ids -> [Kinds -> Nat]],
         lock \in [Ids -> [Kinds -> NoLock .. LockTime]],
         NEW id \in Ids, NEW kind \in Kinds, NEW n \in Nat,
         NEW left \in NoLock .. LockTime,
         Write(id, kind, n, left)
  PROVE  Wrote(id, kind, n, left)
<1>1. /\ tries' = [tries EXCEPT ![id] = [tries[id] EXCEPT ![kind] = n]]
      /\ lock' = [lock EXCEPT ![id] = [lock[id] EXCEPT ![kind] = left]]
  BY DEF Write
<1>2. /\ [tries[id] EXCEPT ![kind] = n] \in [Kinds -> Nat]
      /\ [lock[id] EXCEPT ![kind] = left] \in [Kinds -> NoLock .. LockTime]
  OBVIOUS
<1>3. /\ tries' \in [Ids -> [Kinds -> Nat]]
      /\ lock' \in [Ids -> [Kinds -> NoLock .. LockTime]]
  BY <1>1, <1>2
<1> QED
  BY <1>1, <1>3 DEF Wrote

(* A handler that goes nowhere else keeps RunsOK, if PINs stay set.        *)
LEMMA RunsKept ==
  ASSUME RunsOK, NEW h \in Handlers,
         run' \in [Handlers -> Run],
         \A i \in Handlers \ {h} : run'[i] = run[i],
         Carries(run'[h]), ChecksSetPin(run[h])',
         \A id \in Ids : pin[id] # NoSecret => pin'[id] # NoSecret
  PROVE  RunsOK'
<1>1. ASSUME NEW i \in Handlers \ {h}
      PROVE  Carries(run[i])' /\ ChecksSetPin(run[i])'
  <2>1. run'[i] = run[i] /\ run[i].id \in Ids
    BY DEF RunsOK, Run
  <2>2. Carries(run[i]) /\ ChecksSetPin(run[i])
    BY DEF RunsOK
  <2>3. Carries(run[i])'
    BY <2>1, <2>2 DEF Carries
  <2>4. ChecksSetPin(run[i])'
    BY <2>1, <2>2 DEF ChecksSetPin
  <2> QED
    BY <2>3, <2>4
<1>2. Carries(run[h])'
  BY DEF Carries
<1> QED
  BY <1>1, <1>2 DEF RunsOK

(* A pair of counter and lock that fits keeps CountersOK.                  *)
LEMMA CountersKept ==
  ASSUME CountersOK, UNCHANGED pin,
         NEW id \in Ids, NEW kind \in Kinds, NEW n \in Nat,
         NEW left \in NoLock .. LockTime,
         Write(id, kind, n, left),
         n >= MaxTries <=> left # NoLock,
         kind = "pin" /\ left # NoLock => pin[id] # NoSecret
  PROVE  CountersOK'
<1>1. Wrote(id, kind, n, left)
  BY WriteEffect DEF CountersOK
<1>2. TriesMatchLocks'
  <2>1. ASSUME NEW i \in Ids, NEW k \in Kinds
        PROVE  tries'[i][k] >= MaxTries <=> lock'[i][k] # NoLock
    <3>1. CASE i = id /\ k = kind
      <4>1. tries'[i][k] = n /\ lock'[i][k] = left
        BY <1>1, <2>1, <3>1 DEF Wrote
      <4> QED
        BY <4>1
    <3>2. CASE ~ (i = id /\ k = kind)
      <4>1. tries'[i][k] = tries[i][k] /\ lock'[i][k] = lock[i][k]
        BY <1>1, <2>1, <3>2 DEF Wrote
      <4> QED
        BY <4>1 DEF CountersOK, TriesMatchLocks
    <3> QED
      BY <3>1, <3>2
  <2> QED
    BY <2>1 DEF TriesMatchLocks
<1>3. LockedPinIsSet'
  BY <1>1 DEF Wrote, CountersOK, LockedPinIsSet, Kinds
<1> QED
  BY <1>1, <1>2, <1>3 DEF Wrote, CountersOK

LEMMA AccountsSame ==
  ASSUME AccountsOK, UNCHANGED accounts
  PROVE  AccountsOK'
BY DEF AccountsOK, accounts, NamesStored, NamesUnique, CreatedStands, Registered

LEMMA CountersSame ==
  ASSUME CountersOK, UNCHANGED <<pin, counters>>
  PROVE  CountersOK'
BY DEF CountersOK, counters, TriesMatchLocks, LockedPinIsSet

(* A handler that has answered, or goes to another place, keeps RunsOK.    *)
LEMMA AnswerKeeps ==
  ASSUME RunsOK, NEW h \in Handlers, Answer(h),
         \A id \in Ids : pin[id] # NoSecret => pin'[id] # NoSecret
  PROVE  RunsOK'
<1>1. /\ run' \in [Handlers -> Run]
      /\ \A i \in Handlers \ {h} : run'[i] = run[i]
      /\ run'[h].pc = "idle"
  BY AnswerEffect DEF RunsOK
<1>2. Carries(run'[h])
  BY <1>1 DEF Carries
<1>3. ChecksSetPin(run[h])'
  BY <1>1 DEF ChecksSetPin
<1> QED
  BY <1>1, <1>2, <1>3, RunsKept

LEMMA GotoKeeps ==
  ASSUME RunsOK, NEW h \in Handlers, NEW label \in Labels \ {"idle", "unlock", "compare"},
         Goto(h, label), run[h].pc # "idle",
         label \in {"by email", "by username", "insert"} => run[h].req.op = "register",
         label \in {"find", "wallet", "set pin"} => run[h].req.op # "register",
         label = "set pin" => run[h].req.op = "create pin",
         UNCHANGED pin
  PROVE  RunsOK'
<1>1. /\ run' \in [Handlers -> Run]
      /\ \A i \in Handlers \ {h} : run'[i] = run[i]
      /\ run'[h].pc = label /\ run'[h].req = run[h].req
  BY GotoEffect DEF RunsOK
<1>2. run[h].req \in Request
  BY DEF RunsOK, Carries
<1>3. Carries(run'[h])
  BY <1>1, <1>2 DEF Carries, Labels
<1>4. ChecksSetPin(run[h])'
  BY <1>1 DEF ChecksSetPin
<1> QED
  BY <1>1, <1>3, <1>4, RunsKept

-----------------------------------------------------------------------------
(* Every action keeps the invariant.                                       *)

LEMMA ReceiveStep ==
  ASSUME CoreInv, NEW h \in Handlers, Receive(h)
  PROVE  CoreInv'
<1>1. PICK r \in Offers :
        run' = [run EXCEPT ![h].req = r,
                           ![h].pc = IF r.op = "register" THEN "by email" ELSE "find"]
  BY DEF Receive
<1> DEFINE label == IF r.op = "register" THEN "by email" ELSE "find"
           new   == [run[h] EXCEPT !.req = r, !.pc = label]
<1>2. run \in [Handlers -> Run] /\ run[h] \in Run
  BY DEF CoreInv, RunsOK
<1>3. r \in Request
  BY OffersAssumption
<1>4. label \in Labels /\ label \notin {"unlock", "compare"}
  BY DEF Labels
<1>5. new \in Run /\ new.req = r /\ new.pc = label
  BY <1>2, <1>3, <1>4 DEF Run
<1>6. run' = [run EXCEPT ![h] = new]
  BY <1>1
<1>7. /\ run' \in [Handlers -> Run]
      /\ \A i \in Handlers \ {h} : run'[i] = run[i]
      /\ run'[h] = new
  BY <1>2, <1>5, <1>6
<1>8. Carries(run'[h])
  BY <1>3, <1>5, <1>7 DEF Carries
<1>9. ChecksSetPin(run[h])'
  <2>1. run'[h].pc \notin {"unlock", "compare"}
    BY <1>4, <1>5, <1>7
  <2> QED
    BY <2>1 DEF ChecksSetPin
<1>10. UNCHANGED <<accounts, pin, counters>>
  BY DEF Receive
<1>11. RunsOK'
  BY <1>7, <1>8, <1>9, <1>10, RunsKept DEF CoreInv
<1> QED
  BY <1>10, <1>11, AccountsSame, CountersSame DEF CoreInv

LEMMA AbortStep ==
  ASSUME CoreInv, NEW h \in Handlers, Abort(h)
  PROVE  CoreInv'
BY AnswerKeeps, AccountsSame, CountersSame DEF Abort, CoreInv

LEMMA FindNameStep ==
  ASSUME CoreInv, NEW h \in Handlers, FindByEmail(h) \/ FindByUsername(h)
  PROVE  CoreInv'
<1>1. UNCHANGED <<accounts, pin, counters>>
  BY DEF FindByEmail, FindByUsername
<1>2. run[h].pc \in {"by email", "by username"} /\ run[h].req.op = "register"
  BY DEF FindByEmail, FindByUsername, CoreInv, RunsOK, Carries
<1>3. Answer(h) \/ Goto(h, "by username") \/ Goto(h, "insert")
  BY DEF FindByEmail, FindByUsername
<1>4. {"by username", "insert"} \subseteq Labels \ {"idle", "unlock", "compare"}
  BY DEF Labels
<1>5. RunsOK'
  BY <1>1, <1>2, <1>3, <1>4, AnswerKeeps, GotoKeeps DEF CoreInv
<1> QED
  BY <1>1, <1>5, AccountsSame, CountersSame DEF CoreInv

LEMMA FindWalletStep ==
  ASSUME CoreInv, NEW h \in Handlers, FindWallet(h)
  PROVE  CoreInv'
BY AnswerKeeps, AccountsSame, CountersSame DEF FindWallet, CoreInv

(* A user is inserted under an id and names that are free.                 *)
LEMMA CreateStep ==
  ASSUME CoreInv, NEW h \in Handlers, CreateWithWallet(h)
  PROVE  CoreInv'
<1> DEFINE r == run[h].req
           u == NewUser(r)
<1>1. Answer(h) /\ UNCHANGED <<pin, counters>>
  BY DEF CreateWithWallet
<1>2. RunsOK' /\ CountersOK'
  BY <1>1, AnswerKeeps, CountersSame DEF CoreInv
<1>3. CASE UNCHANGED accounts
  BY <1>2, <1>3, AccountsSame DEF CoreInv
<1>4. ASSUME WithEmail(u.email) \cup WithUsername(u.username) = {},
             NEW id \in Ids \ Registered,
             users' = [users EXCEPT ![id] = u],
             wallets' = wallets \cup {id},
             created' = created \cup {[id |-> id, req |-> r]} \/ UNCHANGED created
      PROVE  AccountsOK'
  <2>1. r \in Request /\ r.op = "register"
    BY DEF CoreInv, RunsOK, Carries, CreateWithWallet
  <2>2. /\ u \in User /\ u # NoUser
        /\ Lower[u.email] = u.email /\ Lower[u.username] = u.username
    BY <2>1, NewUserType
  <2> HIDE DEF u
  <2>3. users \in [Ids -> User \cup {NoUser}]
    BY DEF CoreInv, AccountsOK
  <2>4. /\ users' \in [Ids -> User \cup {NoUser}]
        /\ users'[id] = u
        /\ \A i \in Ids \ {id} : users'[i] = users[i]
    BY <1>4, <2>2, <2>3
  <2>5. Registered' = Registered \cup {id}
    BY <2>2, <2>4, <1>4 DEF Registered
  <2>6. \A i \in Registered : i \in Ids \ {id} /\ users'[i] = users[i]
    BY <1>4, <2>4 DEF Registered
  <2>7. \A i \in Registered : /\ users[i].email # u.email
                              /\ users[i].username # u.username
    BY <1>4 DEF WithEmail, WithUsername
  <2>8. NamesStored'
    BY <2>2, <2>4, <2>5, <2>6 DEF CoreInv, AccountsOK, NamesStored
  <2>9. NamesUnique'
    <3>1. ASSUME NEW i \in Registered', NEW j \in Registered', i # j
          PROVE  users'[i].email # users'[j].email /\ users'[i].username # users'[j].username
      <4>1. CASE i \in Registered /\ j \in Registered
        BY <3>1, <4>1, <2>6 DEF CoreInv, AccountsOK, NamesUnique
      <4>2. CASE i = id /\ j \in Registered
        BY <4>2, <2>4, <2>6, <2>7
      <4>3. CASE i \in Registered /\ j = id
        BY <4>3, <2>4, <2>6, <2>7
      <4> QED
        BY <2>5, <3>1, <4>1, <4>2, <4>3
    <3> QED
      BY <2>8, <3>1 DEF NamesUnique, NamesStored
  <2>10. /\ created' \subseteq [id : Ids, req : Request]
         /\ \A c \in created' : c.id \in Registered'
    BY <1>4, <2>1, <2>5 DEF CoreInv, AccountsOK
  <2>11. CreatedStands'
    <3> DEFINE new == [id |-> id, req |-> r]
    <3>1. \A c \in created' : c \in created \/ c = new
      BY <1>4
    <3>2. \A c \in created : c.id \in Registered /\ users[c.id] = NewUser(c.req)
      BY DEF CoreInv, AccountsOK, CreatedStands
    <3>3. \A c \in created' : users'[c.id] = NewUser(c.req)
      BY <3>1, <3>2, <2>4, <2>6 DEF u
    <3>4. \A c, d \in created' : c.id = d.id => c = d
      BY <1>4, <3>1, <3>2 DEF CoreInv, AccountsOK, CreatedStands
    <3>5. wallets' = Registered'
      BY <1>4, <2>5 DEF CoreInv, AccountsOK, CreatedStands
    <3> QED
      BY <3>3, <3>4, <3>5 DEF CreatedStands, NewUser
  <2> QED
    BY <2>4, <2>8, <2>9, <2>10, <2>11 DEF AccountsOK
<1>5. AccountsOK' \/ UNCHANGED accounts
  BY <1>4 DEF CreateWithWallet
<1> QED
  BY <1>2, <1>3, <1>5 DEF CoreInv
(* A lock that is running ends the request; what gets past it has a copy.  *)
LEMMA FindUserStep ==
  ASSUME CoreInv, NEW h \in Handlers, FindUser(h)
  PROVE  CoreInv'
<1> DEFINE r     == run[h].req
           found == WithEmail(Lower[r.email])
<1>1. UNCHANGED <<accounts, pin, counters>>
  BY DEF FindUser, CheckLock, counters
<1>2. CASE Answer(h)
  BY <1>1, <1>2, AnswerKeeps, AccountsSame, CountersSame DEF CoreInv
<1>3. ASSUME ~ Refused(r, found), NEW id \in found, NEW label \in {"unlock", "compare"},
             KeepCopy(h, id, label)
      PROVE  RunsOK'
  <2>1. /\ id \in Ids /\ users[id] \in User
        /\ r.op = "check pin" => pin[id] # NoSecret
    BY <1>3 DEF CoreInv, AccountsOK, WithEmail, Registered, Refused
  <2>2. r \in Request /\ r.op # "register"
    BY DEF FindUser, CoreInv, RunsOK, Carries
  <2> DEFINE kind == KindOf(r)
             seen == tries[id][kind]
             hash == IF kind = "pin" THEN pin[id] ELSE users[id].password
             locked == lock[id][kind] # NoLock
             new  == [run[h] EXCEPT !.pc = label, !.id = id, !.seen = seen,
                                    !.locked = locked, !.hash = hash]
  <2>3. kind \in Kinds
    BY KindType
  <2>4. seen \in Nat /\ locked \in BOOLEAN
    BY <2>1, <2>3 DEF CoreInv, CountersOK
  <2>5. hash \in Secrets \cup {NoSecret}
    BY <2>1 DEF CoreInv, CountersOK, User
  <2>6. run[h] \in Run /\ label \in Labels
    BY DEF CoreInv, RunsOK, Labels
  <2>7. run' = [run EXCEPT ![h] = new]
    BY <1>3 DEF KeepCopy
  <2> HIDE DEF kind, seen, locked, hash
  <2>8. /\ new \in Run
        /\ new.pc = label /\ new.req = r /\ new.id = id /\ new.seen = seen
    BY <2>1, <2>4, <2>5, <2>6 DEF Run
  <2>9. /\ run' \in [Handlers -> Run]
        /\ \A i \in Handlers \ {h} : run'[i] = run[i]
        /\ run'[h] = new
    BY <2>7, <2>8 DEF CoreInv, RunsOK
  <2>10. Carries(run'[h])
    BY <2>2, <2>4, <2>8, <2>9 DEF Carries
  <2>11. ChecksSetPin(run[h])'
    BY <1>1, <2>1, <2>8, <2>9 DEF ChecksSetPin
  <2> QED
    BY <1>1, <2>9, <2>10, <2>11, RunsKept DEF CoreInv
<1>4. Answer(h) \/ RunsOK'
  <2>1. ASSUME ~ Refused(r, found), NEW id \in found,
               CheckLock(h, id, lock[id][KindOf(r)])
        PROVE  Answer(h) \/ RunsOK'
    <3>1. \/ Answer(h)
          \/ KeepCopy(h, id, "unlock")
          \/ KeepCopy(h, id, "compare")
      BY <2>1 DEF CheckLock
    <3>2. CASE KeepCopy(h, id, "unlock")
      BY <2>1, <3>2, <1>3
    <3>3. CASE KeepCopy(h, id, "compare")
      BY <2>1, <3>3, <1>3
    <3> QED
      BY <3>1, <3>2, <3>3
  <2> QED
    BY <2>1 DEF FindUser
<1> QED
  BY <1>1, <1>2, <1>4, AccountsSame, CountersSame DEF CoreInv

LEMMA LiftLockStep ==
  ASSUME CoreInv, NEW h \in Handlers, LiftLock(h)
  PROVE  CoreInv'
<1> DEFINE new == [run[h] EXCEPT !.seen = 0, !.locked = FALSE, !.pc = "compare"]
<1>1. /\ run[h] \in Run /\ run[h].pc = "unlock"
      /\ Carries(run[h]) /\ ChecksSetPin(run[h])
  BY DEF LiftLock, CoreInv, RunsOK
<1>2. /\ new \in Run
      /\ new.pc = "compare" /\ new.seen = 0
      /\ new.req = run[h].req /\ new.id = run[h].id
  BY <1>1 DEF Run, Labels
<1>3. run' = [run EXCEPT ![h] = new]
  BY DEF LiftLock
<1>4. /\ run' \in [Handlers -> Run]
      /\ \A i \in Handlers \ {h} : run'[i] = run[i]
      /\ run'[h] = new
  BY <1>2, <1>3 DEF CoreInv, RunsOK
<1>5. UNCHANGED <<accounts, pin>> /\ Write(run[h].id, KindOf(run[h].req), 0, NoLock)
  BY DEF LiftLock
<1>6. Carries(run'[h])
  BY <1>1, <1>2, <1>4 DEF Carries
<1>7. ChecksSetPin(run[h])'
  BY <1>1, <1>2, <1>4, <1>5 DEF ChecksSetPin
<1>8. RunsOK'
  BY <1>4, <1>5, <1>6, <1>7, RunsKept DEF CoreInv
<1>9. CountersOK'
  <2>1. run[h].id \in Ids /\ KindOf(run[h].req) \in Kinds
    BY <1>1, KindType DEF Run
  <2>2. NoLock \in NoLock .. LockTime /\ 0 \in Nat /\ ~ (0 >= MaxTries)
    BY LockAssumption DEF NoLock
  <2> QED
    BY <1>5, <2>1, <2>2, CountersKept DEF CoreInv
<1> QED
  BY <1>5, <1>8, <1>9, AccountsSame DEF CoreInv

(* A lock is stored with the tries that use up the limit, and with no less.*)
LEMMA CompareStep ==
  ASSUME CoreInv, NEW h \in Handlers, Compare(h)
  PROVE  CoreInv'
<1> DEFINE r == run[h]
<1>1. /\ r \in Run /\ r.pc = "compare"
      /\ Carries(r) /\ ChecksSetPin(r)
      /\ UNCHANGED <<accounts, pin>>
  BY DEF Compare, CoreInv, RunsOK
<1>2. r.id \in Ids /\ KindOf(r.req) \in Kinds /\ r.seen \in Nat
  BY <1>1, KindType DEF Run
<1>3. r.req \in Request /\ r.req.op \in {"login", "create pin", "check pin"}
  BY <1>1 DEF Carries, Request, Registration, Check, PinCreation
<1>4. RunsOK'
  <2>1. Answer(h) \/ Proceed(h)
    BY DEF Compare
  <2>2. CASE Answer(h)
    BY <1>1, <2>2, AnswerKeeps DEF CoreInv
  <2>3. CASE Proceed(h)
    <3>1. \/ Answer(h)
          \/ r.req.op = "login" /\ Goto(h, "wallet")
          \/ r.req.op = "create pin" /\ Goto(h, "set pin")
      BY <1>3, <2>3 DEF Proceed
    <3>2. {"wallet", "set pin"} \subseteq Labels \ {"idle", "unlock", "compare"}
      BY DEF Labels
    <3>3. CASE r.req.op = "login" /\ Goto(h, "wallet")
      BY <1>1, <3>2, <3>3, GotoKeeps DEF CoreInv
    <3>4. CASE r.req.op = "create pin" /\ Goto(h, "set pin")
      BY <1>1, <3>2, <3>4, GotoKeeps DEF CoreInv
    <3> QED
      BY <2>2, <3>1, <3>3, <3>4
  <2> QED
    BY <2>1, <2>2, <2>3
<1>5. CountersOK'
  <2>1. CASE UNCHANGED counters
    BY <1>1, <2>1, CountersSame DEF CoreInv
  <2>2. CASE Write(r.id, KindOf(r.req), 0, NoLock)
    <3>1. NoLock \in NoLock .. LockTime /\ 0 \in Nat /\ ~ (0 >= MaxTries)
      BY LockAssumption DEF NoLock
    <3> QED
      BY <1>1, <1>2, <2>2, <3>1, CountersKept DEF CoreInv
  <2>3. CASE Write(r.id, KindOf(r.req), r.seen + 1, LockAfter(r.seen + 1))
    <3>1. /\ r.seen + 1 \in Nat
          /\ LockAfter(r.seen + 1) \in NoLock .. LockTime
          /\ r.seen + 1 >= MaxTries <=> LockAfter(r.seen + 1) # NoLock
      BY <1>2, LockAssumption DEF LockAfter, NoLock
    <3>2. KindOf(r.req) = "pin" => pin[r.id] # NoSecret
      BY <1>1 DEF KindOf, ChecksSetPin
    <3> QED
      BY <1>1, <1>2, <2>3, <3>1, <3>2, CountersKept DEF CoreInv
  <2> QED
    BY <2>1, <2>2, <2>3 DEF Compare
<1> QED
  BY <1>1, <1>4, <1>5, AccountsSame DEF CoreInv
LEMMA SetPinHashStep ==
  ASSUME CoreInv, NEW h \in Handlers, SetPinHash(h)
  PROVE  CoreInv'
<1> DEFINE r == run[h]
<1>1. /\ r \in Run /\ r.pc = "set pin" /\ Carries(r)
      /\ UNCHANGED accounts /\ Answer(h) /\ Write(r.id, "pin", 0, NoLock)
      /\ pin' = [pin EXCEPT ![r.id] = r.req.pin]
  BY DEF SetPinHash, CoreInv, RunsOK
<1>2. r.id \in Ids /\ r.req \in Request /\ r.req.op = "create pin"
  BY <1>1 DEF Run, Carries
<1>3. r.req.pin \in Secrets
  BY <1>2 DEF Request, Registration, Check, PinCreation
<1>4. /\ pin' \in [Ids -> Secrets \cup {NoSecret}]
      /\ \A id \in Ids : pin[id] # NoSecret => pin'[id] # NoSecret
  BY <1>1, <1>2, <1>3, SentinelsAssumption DEF CoreInv, CountersOK
<1>5. RunsOK'
  BY <1>1, <1>4, AnswerKeeps DEF CoreInv
<1>6. CountersOK'
  <2>1. NoLock \in NoLock .. LockTime /\ 0 \in Nat /\ "pin" \in Kinds
    BY LockAssumption DEF NoLock, Kinds
  <2>2. Wrote(r.id, "pin", 0, NoLock)
    <3>1. /\ tries \in [Ids -> [Kinds -> Nat]]
          /\ lock \in [Ids -> [Kinds -> NoLock .. LockTime]]
      BY DEF CoreInv, CountersOK
    <3> QED
      BY <1>1, <1>2, <2>1, <3>1, WriteEffect
  <2>3. TriesMatchLocks'
    BY <2>2, LockAssumption DEF Wrote, CoreInv, CountersOK, TriesMatchLocks
  <2>4. LockedPinIsSet'
    BY <1>4, <2>1, <2>2 DEF Wrote, CoreInv, CountersOK, LockedPinIsSet
  <2> QED
    BY <1>4, <2>2, <2>3, <2>4 DEF Wrote, CountersOK
<1> QED
  BY <1>1, <1>5, <1>6, AccountsSame DEF CoreInv

(* Time takes from locks that run, and lifts none.                         *)
LEMMA TickStep ==
  ASSUME CoreInv, Tick
  PROVE  CoreInv'
<1>1. /\ UNCHANGED <<accounts, pin, tries, run>>
      /\ lock' = [id \in Ids |-> [k \in Kinds |->
                    IF Running(lock[id][k]) THEN lock[id][k] - 1 ELSE lock[id][k]]]
  BY DEF Tick
<1>2. ASSUME NEW id \in Ids, NEW k \in Kinds
      PROVE  /\ lock'[id][k] \in NoLock .. LockTime
             /\ lock'[id][k] # NoLock <=> lock[id][k] # NoLock
  <2>1. lock[id][k] \in NoLock .. LockTime
    BY DEF CoreInv, CountersOK
  <2>2. lock'[id][k] = IF Running(lock[id][k]) THEN lock[id][k] - 1 ELSE lock[id][k]
    BY <1>1
  <2> QED
    BY <2>1, <2>2, LockAssumption DEF Running, NoLock
<1>3. lock' \in [Ids -> [Kinds -> NoLock .. LockTime]]
  <2> DEFINE L(id) == [k \in Kinds |->
                        IF Running(lock[id][k]) THEN lock[id][k] - 1 ELSE lock[id][k]]
  <2>1. ASSUME NEW id \in Ids
        PROVE  L(id) \in [Kinds -> NoLock .. LockTime]
    <3>1. lock'[id] = L(id)
      BY <1>1
    <3>2. \A k \in Kinds : L(id)[k] \in NoLock .. LockTime
      BY <1>2, <3>1
    <3> QED
      BY <3>2
  <2>2. lock' = [id \in Ids |-> L(id)]
    BY <1>1
  <2> HIDE DEF L
  <2> QED
    BY <2>1, <2>2
<1>4. CountersOK'
  <2>1. TriesMatchLocks'
    BY <1>1, <1>2 DEF CoreInv, CountersOK, TriesMatchLocks
  <2>2. LockedPinIsSet'
    BY <1>1, <1>2 DEF CoreInv, CountersOK, LockedPinIsSet, Kinds
  <2> QED
    BY <1>1, <1>3, <2>1, <2>2 DEF CoreInv, CountersOK
<1>5. RunsOK'
  BY <1>1 DEF CoreInv, RunsOK, Carries, ChecksSetPin
<1> QED
  BY <1>1, <1>4, <1>5, AccountsSame DEF CoreInv

-----------------------------------------------------------------------------
(* The copies of the handlers.                                             *)

(* A step of a handler leaves the other handlers alone, and its own copy,  *)
(* if it then has one, agrees with the row.                                *)
LEMMA OwnCopyAgrees ==
  ASSUME CoreInv, NEW h \in Handlers, Receive(h) \/ Work(h) \/ Abort(h)
  PROVE  /\ \A i \in Handlers \ {h} : run'[i] = run[i]
         /\ Agrees(run[h])'
<1> DEFINE Others == \A i \in Handlers \ {h} : run'[i] = run[i]
<1>1. run \in [Handlers -> Run] /\ run[h] \in Run /\ Carries(run[h])
  BY DEF CoreInv, RunsOK
<1>2. ASSUME Answer(h) PROVE Others /\ Agrees(run[h])'
  <2>1. Others /\ run'[h].pc = "idle"
    BY <1>1, <1>2, AnswerEffect
  <2> QED
    BY <2>1 DEF Agrees
<1>3. ASSUME NEW label \in Labels \ {"unlock", "compare"}, Goto(h, label)
      PROVE  Others /\ Agrees(run[h])'
  <2>1. Others /\ run'[h].pc = label
    BY <1>1, <1>3, GotoEffect
  <2> QED
    BY <2>1 DEF Agrees
<1>4. CASE Receive(h)
  <2>1. PICK r \in Offers :
          run' = [run EXCEPT ![h].req = r,
                             ![h].pc = IF r.op = "register" THEN "by email" ELSE "find"]
    BY <1>4 DEF Receive
  <2> DEFINE label == IF r.op = "register" THEN "by email" ELSE "find"
             new   == [run[h] EXCEPT !.req = r, !.pc = label]
  <2>2. new.pc \in {"by email", "find"}
    BY <1>1 DEF Run
  <2>3. run' = [run EXCEPT ![h] = new]
    BY <2>1
  <2>4. Others /\ run'[h].pc \in {"by email", "find"}
    BY <1>1, <2>2, <2>3
  <2> QED
    BY <2>4 DEF Agrees
<1>5. CASE FindUser(h)
  <2>1. UNCHANGED counters
    BY <1>5 DEF FindUser, CheckLock
  <2>2. ASSUME NEW id \in Registered, NEW label \in {"unlock", "compare"},
               KeepCopy(h, id, label), ~ Running(lock[id][KindOf(run[h].req)])
        PROVE  Others /\ Agrees(run[h])'
    <3> DEFINE kind == KindOf(run[h].req)
               new  == [run[h] EXCEPT !.pc = label, !.id = id, !.seen = tries[id][kind],
                          !.locked = lock[id][kind] # NoLock,
                          !.hash = IF kind = "pin" THEN pin[id] ELSE users[id].password]
    <3>1. run' = [run EXCEPT ![h] = new]
      BY <2>2 DEF KeepCopy
    <3>2. /\ new.pc = label /\ new.req = run[h].req /\ new.id = id
          /\ new.seen = tries[id][kind] /\ new.locked = (lock[id][kind] # NoLock)
      BY <1>1 DEF Run
    <3> HIDE DEF new
    <3>3. Others /\ run'[h] = new
      BY <1>1, <3>1
    <3>4. tries' = tries /\ lock' = lock
      BY <2>1 DEF counters
    <3>5. KindOf(run[h].req)' = kind
      BY <3>2, <3>3
    <3> HIDE DEF kind
    <3>6. ~ Running(lock'[id][kind])
      BY <2>2, <3>4 DEF kind
    <3> QED
      BY <3>2, <3>3, <3>4, <3>5, <3>6 DEF Agrees
  <2>3. \/ Answer(h)
        \/ \E id \in Registered :
             /\ ~ Running(lock[id][KindOf(run[h].req)])
             /\ KeepCopy(h, id, "unlock") \/ KeepCopy(h, id, "compare")
    <3>1. \A left : Expired(left) \/ left = NoLock => ~ Running(left)
      BY DEF Expired, Running, NoLock
    <3> QED
      BY <1>5, <3>1 DEF FindUser, CheckLock, WithEmail
  <2> QED
    BY <1>2, <2>2, <2>3
<1>6. CASE LiftLock(h)
  <2> DEFINE kind == KindOf(run[h].req)
             new  == [run[h] EXCEPT !.seen = 0, !.locked = FALSE, !.pc = "compare"]
  <2>1. run' = [run EXCEPT ![h] = new] /\ Write(run[h].id, kind, 0, NoLock)
    BY <1>6 DEF LiftLock
  <2>2. /\ new.pc = "compare" /\ new.seen = 0 /\ new.req = run[h].req
        /\ new.id = run[h].id
    BY <1>1 DEF Run
  <2> HIDE DEF new
  <2>3. Others /\ run'[h] = new
    BY <1>1, <2>1
  <2>4. run[h].id \in Ids /\ kind \in Kinds
    BY <1>1, KindType DEF Run
  <2>5. NoLock \in NoLock .. LockTime /\ 0 \in Nat
    BY LockAssumption DEF NoLock
  <2>6. Wrote(run[h].id, kind, 0, NoLock)
    BY <2>1, <2>4, <2>5, WriteEffect DEF CoreInv, CountersOK
  <2>7. tries'[run[h].id][kind] = 0 /\ lock'[run[h].id][kind] = NoLock
    BY <2>4, <2>6 DEF Wrote
  <2>8. KindOf(run[h].req)' = kind
    BY <2>2, <2>3
  <2> HIDE DEF kind
  <2> QED
    BY <2>2, <2>3, <2>7, <2>8 DEF Agrees, Running, NoLock
<1>7. CASE Compare(h)
  <2>1. Answer(h) \/ Proceed(h)
    BY <1>7 DEF Compare
  <2>2. run[h].req.op \in {"login", "create pin", "check pin"}
    BY <1>1, <1>7 DEF Compare, Carries, Request, Registration, Check, PinCreation
  <2>3. Answer(h) \/ Goto(h, "wallet") \/ Goto(h, "set pin")
    BY <2>1, <2>2 DEF Proceed
  <2> QED
    BY <1>2, <1>3, <2>3 DEF Labels
<1>8. \/ Receive(h) \/ FindUser(h) \/ LiftLock(h) \/ Compare(h)
      \/ Answer(h) \/ Goto(h, "by username") \/ Goto(h, "insert")
  BY DEF Work, Abort, FindByEmail, FindByUsername, CreateWithWallet, FindWallet, SetPinHash
<1> QED
  BY <1>2, <1>3, <1>4, <1>5, <1>6, <1>7, <1>8 DEF Labels

(* A copy of another handler that is not outdated by the step agrees as it *)
(* did before.                                                             *)
LEMMA HandlerCopies ==
  ASSUME AuthInv, NEW h \in Handlers, Receive(h) \/ Work(h) \/ Abort(h), NoteWrites
  PROVE  CopiesOK'
<1>1. /\ \A i \in Handlers \ {h} : run'[i] = run[i]
      /\ Agrees(run[h])'
  BY OwnCopyAgrees DEF AuthInv
<1>2. ASSUME NEW i \in Handlers \ {h}, i \notin outdated'
      PROVE  Agrees(run[i])'
  <2>1. run'[i] = run[i]
    BY <1>1
  <2>2. CASE ~ Checking(i)
    BY <2>1, <2>2 DEF Checking, Agrees
  <2>3. CASE Checking(i)
    <3>1. i \notin outdated /\ ~ Written(run[i].id, KindOf(run[i].req))
      BY <1>2, <2>1, <2>3 DEF NoteWrites
    <3>2. Agrees(run[i])
      BY <3>1 DEF AuthInv, CopiesOK
    <3>3. KindOf(run[i].req)' = KindOf(run[i].req)
      BY <2>1
    <3> DEFINE k == KindOf(run[i].req)
    <3>4. tries'[run[i].id][k] = tries[run[i].id][k] /\ lock'[run[i].id][k] = lock[run[i].id][k]
      BY <3>1 DEF Written
    <3> HIDE DEF k
    <3> QED
      BY <2>1, <3>2, <3>3, <3>4 DEF Agrees, k
  <2> QED
    BY <2>2, <2>3
<1>3. outdated' \subseteq Handlers
  BY DEF NoteWrites
<1> QED
  BY <1>1, <1>2, <1>3 DEF CopiesOK

(* Time starts no lock.                                                    *)
LEMMA TickCopies ==
  ASSUME AuthInv, Tick
  PROVE  CopiesOK'
<1>1. /\ run' = run /\ tries' = tries /\ outdated' = outdated
      /\ lock' = [id \in Ids |-> [k \in Kinds |->
                    IF Running(lock[id][k]) THEN lock[id][k] - 1 ELSE lock[id][k]]]
  BY DEF Tick
<1>2. ASSUME NEW i \in Handlers, i \notin outdated
      PROVE  Agrees(run[i])'
  <2> DEFINE k == KindOf(run[i].req)
  <2>1. run[i].id \in Ids /\ k \in Kinds
    BY KindType DEF AuthInv, CoreInv, RunsOK, Run
  <2>2. Agrees(run[i])
    BY <1>2 DEF AuthInv, CopiesOK
  <2>3. KindOf(run[i].req)' = k
    BY <1>1
  <2>4. ~ Running(lock[run[i].id][k]) => lock'[run[i].id][k] = lock[run[i].id][k]
    BY <1>1, <2>1
  <2>5. k = KindOf(run[i].req)
    OBVIOUS
  <2> HIDE DEF k
  <2> QED
    BY <1>1, <2>2, <2>3, <2>4, <2>5 DEF Agrees
<1> QED
  BY <1>1, <1>2 DEF AuthInv, CopiesOK

-----------------------------------------------------------------------------
(* The theorems.                                                           *)

LEMMA InitKeeps == Init => AuthInv
<1> SUFFICES ASSUME Init PROVE AuthInv
  OBVIOUS
<1>1. Registered = {}
  BY DEF Init, Registered
<1>2. AccountsOK
  BY <1>1 DEF Init, AccountsOK, NamesStored, NamesUnique, CreatedStands
<1>3. CountersOK
  <2>1. NoLock \in NoLock .. LockTime
    BY LockAssumption DEF NoLock
  <2> QED
    BY <2>1, LockAssumption DEF Init, CountersOK, TriesMatchLocks, LockedPinIsSet, Kinds
<1>4. RunsOK
  <2>1. AnyId \in Ids
    BY IdsAssumption DEF AnyId
  <2>2. IdleRun \in Run /\ IdleRun.pc = "idle"
    BY <2>1 DEF IdleRun, Run, Labels
  <2> QED
    BY <2>2 DEF Init, RunsOK, Carries, ChecksSetPin
<1>5. CopiesOK
  BY DEF Init, CopiesOK, Agrees, IdleRun
<1> QED
  BY <1>2, <1>3, <1>4, <1>5 DEF AuthInv, CoreInv

LEMMA StepKeeps == AuthInv /\ [Next]_vars => AuthInv'
<1> SUFFICES ASSUME AuthInv, [Next]_vars PROVE AuthInv'
  OBVIOUS
<1>1. CASE UNCHANGED vars
  <2>1. UNCHANGED <<accounts, pin, counters, run, outdated>>
    BY <1>1 DEF vars
  <2>2. RunsOK'
    BY <2>1 DEF AuthInv, CoreInv, RunsOK, Carries, ChecksSetPin
  <2>3. CopiesOK'
    BY <2>1 DEF AuthInv, CopiesOK, Agrees, counters
  <2> QED
    BY <2>1, <2>2, <2>3, AccountsSame, CountersSame DEF AuthInv, CoreInv
<1>2. CASE Tick
  BY <1>2, TickStep, TickCopies DEF AuthInv
<1>3. ASSUME NEW h \in Handlers, Receive(h) \/ Work(h) \/ Abort(h)
      PROVE  CoreInv'
  <2>1. CASE Receive(h)
    BY <2>1, ReceiveStep DEF AuthInv
  <2>2. CASE Abort(h)
    BY <2>2, AbortStep DEF AuthInv
  <2>3. CASE FindByEmail(h) \/ FindByUsername(h)
    BY <2>3, FindNameStep DEF AuthInv
  <2>4. CASE CreateWithWallet(h)
    BY <2>4, CreateStep DEF AuthInv
  <2>5. CASE FindUser(h)
    BY <2>5, FindUserStep DEF AuthInv
  <2>6. CASE LiftLock(h)
    BY <2>6, LiftLockStep DEF AuthInv
  <2>7. CASE Compare(h)
    BY <2>7, CompareStep DEF AuthInv
  <2>8. CASE FindWallet(h)
    BY <2>8, FindWalletStep DEF AuthInv
  <2>9. CASE SetPinHash(h)
    BY <2>9, SetPinHashStep DEF AuthInv
  <2> QED
    BY <1>3, <2>1, <2>2, <2>3, <2>4, <2>5, <2>6, <2>7, <2>8, <2>9 DEF Work
<1>4. ASSUME NEW h \in Handlers, Receive(h) \/ Work(h) \/ Abort(h), NoteWrites
      PROVE  AuthInv'
  BY <1>3, <1>4, HandlerCopies DEF AuthInv
<1> QED
  BY <1>1, <1>2, <1>4 DEF Next

(* Accounts, counters, what the handlers carry and what their copies are   *)
(* worth, together.                                                        *)
THEOREM AuthInvariant == Spec => []AuthInv
BY InitKeeps, StepKeeps, PTL DEF Spec

(* Every state is well typed: no lock outlasts AUTH_LOCK_MS, and there is  *)
(* a wallet for nobody but users.                                          *)
THEOREM AuthTypeCorrect == Spec => []TypeOK
<1>1. AuthInv => TypeOK
  BY DEF AuthInv, CoreInv, CopiesOK, AccountsOK, CountersOK, RunsOK, TypeOK,
    CreatedStands, Registered
<1> QED
  BY <1>1, AuthInvariant, PTL

(* However registrations overlap, no two users share an email or username  *)
(* (auth-register.service.ts, user.prisma).                                *)
THEOREM NamesAreUnique == Spec => []NamesUnique
<1>1. AuthInv => NamesUnique
  BY DEF AuthInv, CoreInv, AccountsOK
<1> QED
  BY <1>1, AuthInvariant, PTL

(* An account that was promised stands as it was asked for, with a wallet  *)
(* (createWithWallet).                                                     *)
THEOREM CreatedAccountsStand == Spec => []CreatedStands
<1>1. AuthInv => CreatedStands
  BY DEF AuthInv, CoreInv, AccountsOK
<1> QED
  BY <1>1, AuthInvariant, PTL

-----------------------------------------------------------------------------
(* What a step does to a lock.                                             *)

(* A lock that another step than a tick changes is that of the user and    *)
(* the secret of the handler that takes the step.                          *)
LEMMA LockWriter ==
  ASSUME AuthInv, NEW h \in Handlers, Receive(h) \/ Work(h) \/ Abort(h),
         NEW id \in Ids, NEW k \in Kinds, lock'[id][k] # lock[id][k]
  PROVE  /\ Acts(h, id)
         /\ \/ LiftLock(h) /\ k = KindOf(run[h].req) /\ lock'[id][k] = NoLock
            \/ SetPinHash(h) /\ k = "pin" /\ lock'[id][k] = NoLock
            \/ /\ Compare(h) /\ k = KindOf(run[h].req)
               /\ lock'[id][k] \in {NoLock, LockAfter(run[h].seen + 1)}
<1> DEFINE r == run[h]
<1>1. /\ run \in [Handlers -> Run]
      /\ r \in Run /\ r.id \in Ids /\ KindOf(r.req) \in Kinds /\ r.seen \in Nat
      /\ Carries(r)
  BY KindType DEF AuthInv, CoreInv, RunsOK, Run
<1>2. LiftLock(h) \/ Compare(h) \/ SetPinHash(h)
  BY DEF Receive, Abort, Work, FindByEmail, FindByUsername, CreateWithWallet, FindUser,
    CheckLock, FindWallet, counters
<1>3. ASSUME NEW kind \in Kinds, NEW n \in Nat, NEW left \in NoLock .. LockTime,
             Write(r.id, kind, n, left)
      PROVE  id = r.id /\ k = kind /\ lock'[id][k] = left
  <2>1. Wrote(r.id, kind, n, left)
    BY <1>1, <1>3, WriteEffect DEF AuthInv, CoreInv, CountersOK
  <2> QED
    BY <2>1 DEF Wrote
<1>4. /\ NoLock \in NoLock .. LockTime /\ 0 \in Nat /\ "pin" \in Kinds
      /\ r.seen + 1 \in Nat /\ LockAfter(r.seen + 1) \in NoLock .. LockTime
  BY <1>1, LockAssumption DEF NoLock, Kinds, LockAfter
<1>5. CASE LiftLock(h)
  <2>1. /\ r.pc = "unlock" /\ Write(r.id, KindOf(r.req), 0, NoLock)
        /\ run' = [run EXCEPT ![h].seen = 0, ![h].locked = FALSE, ![h].pc = "compare"]
    BY <1>5 DEF LiftLock
  <2>2. id = r.id /\ k = KindOf(r.req) /\ lock'[id][k] = NoLock
    BY <1>1, <1>3, <1>4, <2>1
  <2>3. run'[h].pc = "compare"
    BY <1>1, <2>1 DEF Run
  <2> QED
    BY <1>5, <2>1, <2>2, <2>3 DEF Acts
<1>6. CASE Compare(h)
  <2>1. /\ r.pc = "compare"
        /\ \/ Write(r.id, KindOf(r.req), r.seen + 1, LockAfter(r.seen + 1))
           \/ Write(r.id, KindOf(r.req), 0, NoLock)
    BY <1>6 DEF Compare, counters
  <2>2. /\ id = r.id /\ k = KindOf(r.req)
        /\ lock'[id][k] \in {NoLock, LockAfter(r.seen + 1)}
    BY <1>1, <1>3, <1>4, <2>1
  <2>3. r.req.op \in {"login", "create pin", "check pin"}
    BY <1>1, <2>1 DEF Carries, Request, Registration, Check, PinCreation
  <2>4. Answer(h) \/ Goto(h, "wallet") \/ Goto(h, "set pin")
    BY <1>6, <2>3 DEF Compare, Proceed
  <2>5. run'[h].pc \in {"idle", "wallet", "set pin"}
    BY <1>1, <2>4, AnswerEffect, GotoEffect DEF Labels
  <2> QED
    BY <1>6, <2>1, <2>2, <2>5 DEF Acts
<1>7. CASE SetPinHash(h)
  <2>1. r.pc = "set pin" /\ Write(r.id, "pin", 0, NoLock) /\ Answer(h)
    BY <1>7 DEF SetPinHash
  <2>2. id = r.id /\ k = "pin" /\ lock'[id][k] = NoLock
    BY <1>3, <1>4, <2>1
  <2>3. run'[h].pc = "idle"
    BY <1>1, <2>1, AnswerEffect
  <2> QED
    BY <1>7, <2>1, <2>2, <2>3 DEF Acts
<1> QED
  BY <1>2, <1>5, <1>6, <1>7

(* Time takes from a lock that runs, and does not lift it.                 *)
LEMMA TickLock ==
  ASSUME AuthInv, Tick, NEW id \in Ids, NEW k \in Kinds
  PROVE  /\ lock'[id][k] <= lock[id][k]
         /\ lock'[id][k] = NoLock => lock[id][k] = NoLock
<1>1. lock'[id][k] = IF Running(lock[id][k]) THEN lock[id][k] - 1 ELSE lock[id][k]
  BY DEF Tick
<1>2. lock[id][k] \in NoLock .. LockTime
  BY DEF AuthInv, CoreInv, CountersOK
<1> QED
  BY <1>1, <1>2, LockAssumption DEF Running, NoLock

(* A lock that runs is lifted by no request that began after the last      *)
(* failed try (assertNotLocked, README.md: "3 failures -> 5 minute lock"). *)
THEOREM LocksAlwaysHold == Spec => LocksHold
<1> DEFINE Lifts(h, id, k) ==
             \/ Checks(h, id, k) /\ h \in outdated
             \/ Acts(h, id) /\ run[h].pc = "set pin" /\ k = "pin" /\ pin[id] # NoSecret
           Holds == \A id \in Ids, k \in Kinds :
                      Running(lock[id][k]) /\ lock'[id][k] = NoLock
                        => \E h \in Handlers : Lifts(h, id, k)
<1>1. ASSUME AuthInv, Next, NEW id \in Ids, NEW k \in Kinds,
             Running(lock[id][k]), lock'[id][k] = NoLock
      PROVE  \E h \in Handlers : Lifts(h, id, k)
  <2>1. lock[id][k] # NoLock
    BY <1>1 DEF Running, NoLock
  <2>2. PICK h \in Handlers : Receive(h) \/ Work(h) \/ Abort(h)
    BY <1>1, <2>1, TickLock DEF Next
  <2> DEFINE r == run[h]
  <2>3. /\ Acts(h, id)
        /\ \/ k = "pin" /\ SetPinHash(h)
           \/ k = KindOf(r.req) /\ (LiftLock(h) \/ Compare(h))
    BY <1>1, <2>1, <2>2, LockWriter
  <2>4. CASE k = "pin" /\ SetPinHash(h)
    <3>1. pin[id] # NoSecret
      BY <1>1, <2>1, <2>4 DEF AuthInv, CoreInv, CountersOK, LockedPinIsSet
    <3>2. r.pc = "set pin"
      BY <2>4 DEF SetPinHash
    <3> QED
      BY <2>3, <2>4, <3>1, <3>2
  <2>5. CASE k = KindOf(r.req) /\ (LiftLock(h) \/ Compare(h))
    <3>1. r.pc \in {"unlock", "compare"} /\ r.id = id
      BY <2>3, <2>5 DEF LiftLock, Compare, Acts
    <3>2. ~ Agrees(r)
      BY <1>1, <2>5, <3>1 DEF Agrees
    <3>3. h \in outdated
      BY <1>1, <3>2 DEF AuthInv, CopiesOK
    <3> QED
      BY <2>3, <2>5, <3>1, <3>3 DEF Checks, Checking
  <2> QED
    BY <2>3, <2>4, <2>5
<1>2. AuthInv /\ [Next]_vars => [Holds]_vars
  BY <1>1
<1> QED
  BY <1>2, AuthInvariant, PTL DEF Spec, LocksHold

(* A lock is set by the try that uses up the tries that are stored, unless *)
(* the row was written during the try or the lock ended within its check   *)
(* (verifyPasswordOrThrow, verifyPinOrThrow and lockUntilIfMaxed).         *)
THEOREM LocksAreEarned == Spec => LocksEarned
<1> DEFINE Earns(h, id, k) ==
             /\ Checks(h, id, k)
             /\ h \in outdated \/ run[h].locked \/ tries[id][k] = MaxTries - 1
           Earned == \A id \in Ids, k \in Kinds :
                       lock'[id][k] > lock[id][k] => \E h \in Handlers : Earns(h, id, k)
<1>1. ASSUME AuthInv, Next, NEW id \in Ids, NEW k \in Kinds, lock'[id][k] > lock[id][k]
      PROVE  \E h \in Handlers : Earns(h, id, k)
  <2>1. lock[id][k] \in NoLock .. LockTime /\ tries[id][k] \in Nat
    BY <1>1 DEF AuthInv, CoreInv, CountersOK
  <2>2. /\ lock'[id][k] # lock[id][k] /\ lock'[id][k] # NoLock
        /\ ~ (lock'[id][k] <= lock[id][k])
    <3>1. CASE lock'[id][k] = NoLock
      BY <1>1, <2>1, <3>1, LockAssumption DEF NoLock
    <3>2. CASE lock'[id][k] # NoLock
      <4>1. lock'[id][k] \in NoLock .. LockTime
        BY <1>1, StepKeeps DEF AuthInv, CoreInv, CountersOK
      <4> QED
        BY <1>1, <2>1, <3>2, <4>1, LockAssumption DEF NoLock
    <3> QED
      BY <3>1, <3>2
  <2>3. PICK h \in Handlers : Receive(h) \/ Work(h) \/ Abort(h)
    BY <1>1, <2>2, TickLock DEF Next
  <2> DEFINE r == run[h]
  <2>4. /\ Acts(h, id) /\ Compare(h) /\ k = KindOf(r.req)
        /\ LockAfter(r.seen + 1) # NoLock
    BY <1>1, <2>2, <2>3, LockWriter
  <2>5. r.pc = "compare" /\ r.id = id
    BY <2>4 DEF Compare, Acts
  <2>6. r.seen \in Nat /\ r.seen + 1 >= MaxTries
    BY <1>1, <2>4 DEF LockAfter, AuthInv, CoreInv, RunsOK, Run
  <2>7. ASSUME h \notin outdated, ~ r.locked
        PROVE  tries[id][k] = MaxTries - 1
    <3>1. Agrees(r)
      BY <1>1, <2>7 DEF AuthInv, CopiesOK
    <3>2. r.seen = tries[id][k] /\ lock[id][k] = NoLock
      BY <2>4, <2>5, <2>7, <3>1 DEF Agrees
    <3>3. ~ (tries[id][k] >= MaxTries)
      BY <1>1, <3>2 DEF AuthInv, CoreInv, CountersOK, TriesMatchLocks
    <3> QED
      BY <2>1, <2>6, <3>2, <3>3, LockAssumption
  <2> QED
    BY <2>4, <2>5, <2>7 DEF Checks, Checking
<1>2. AuthInv /\ [Next]_vars => [Earned]_vars
  BY <1>1
<1> QED
  BY <1>2, AuthInvariant, PTL DEF Spec, LocksEarned
=============================================================================
