--------------------------- MODULE SshKeysProofs ---------------------------
(***************************************************************************)
(* Theorems about the SSH keys of a user, for any number of keygens and    *)
(* container launches, of which any may fail or die at any point.          *)
(***************************************************************************)
EXTENDS SshKeys, TLAPS

(* The lock works: a keygen that is past it holds it, and nobody is past   *)
(* it while it is free.                                                    *)
HolderIsOwner == \A k \in Keygens : Live(k) /\ step[k] # "lock" => lock = k

AbsentIsEmpty == \A f \in Files : f \notin exists => content[f] = {}

(* What the holder of the lock finds in the directory at each of its       *)
(* steps: what it has itself made, and nothing else.                       *)
Made(k, fs) == exists = fs /\ \A f \in fs : content[f] = {k}

Stage(k) ==
  /\ step[k] = "remove" /\ k \notin Overwriting => exists # Files
  /\ step[k] = "host" => exists = {}
  /\ step[k] = "id" => Made(k, {"host"})
  /\ step[k] = "public" => Made(k, {"host", "id"})
  /\ step[k] = "create" => Made(k, {"host", "id"}) /\ output[k] = {k}
  /\ step[k] = "append" => /\ exists = Files
                           /\ content["host"] = {k}
                           /\ content["id"] = {k}
                           /\ content["authorized"] = {}
                           /\ output[k] = {k}

Staged == \A k \in Keygens : Live(k) => Stage(k)

(* A client key that is authorized is the one in the directory, even when  *)
(* a keygen has broken off.                                                *)
AuthorizedIsOwn == "id" \in exists => content["authorized"] \subseteq content["id"]

(* As long as no keygen breaks off, the lock is held by a live one, and    *)
(* the keys are whole except while their holder replaces them.             *)
Resting ==
  NoneBroke =>
    /\ lock # NoOwner => Live(lock) /\ step[lock] # "lock"
    /\ lock = NoOwner => exists = {} \/ Whole
    /\ lock # NoOwner /\ step[lock] = "check" => exists = {} \/ Whole

Store == /\ TypeOK /\ HolderIsOwner /\ AbsentIsEmpty
         /\ Staged /\ AuthorizedIsOwn /\ Resting

\* Store without the types, which TypeStep takes care of.
StoreOK == HolderIsOwner /\ AbsentIsEmpty /\ Staged /\ AuthorizedIsOwn /\ Resting

(* A launch that is not disturbed runs while the lock is free; what it has *)
(* seen and copied is what is in the directory.                            *)
AtWorkOK(h) ==
  AtWork(h) /\ ~disturbed[h] =>
    /\ lock = NoOwner
    /\ seen[h] => exists = Files
    /\ doing[h] = "check" => \A i \in 1 .. 3 : i < file[h] => KeyFiles[i] \in exists
    /\ doing[h] = "copy" => \A i \in 1 .. 3 : i < file[h] =>
         KeyFiles[i] \in exists /\ copy[h][KeyFiles[i]] = content[KeyFiles[i]]
    /\ doing[h] = "authorize" => exists = Files /\ copy[h] = content

NotSeenYet(h) == doing[h] \in {"start", "check"} => ~seen[h]

CopiedOK(h) ==
  outcome[h] = "copied" /\ ~disturbed[h] =>
    /\ copy[h]["authorized"] \ {UserKey} \subseteq copy[h]["id"]
    /\ NoneBroke => \E k \in Keygens : /\ copy[h]["host"] = {k}
                                       /\ copy[h]["id"] = {k}
                                       /\ copy[h]["authorized"] \ {UserKey} = {k}

FailedOK(h) == outcome[h] = "error" /\ seen[h] => disturbed[h]

LaunchOK(h) == AtWorkOK(h) /\ NotSeenYet(h) /\ CopiedOK(h) /\ FailedOK(h)

Launches == \A h \in Hooks : LaunchOK(h)

-----------------------------------------------------------------------------
(* Types.                                                                  *)

LEMMA KeyFilesAreFiles == \A i \in 1 .. 3 : KeyFiles[i] \in Files
BY DEF KeyFiles, Files

LEMMA NextIndex == \A i \in 1 .. 3 : i < 3 => i + 1 \in 1 .. 3
OBVIOUS

LEMMA TypeInit == Init => TypeOK
BY DEF Init, TypeOK

LEMMA TypeStep == TypeOK /\ [Next]_vars => TypeOK'
<1> SUFFICES ASSUME TypeOK, [Next]_vars PROVE TypeOK'
  OBVIOUS
<1> USE DEF TypeOK
<1>1. ASSUME NEW k \in Keygens, Acquire(k) PROVE TypeOK'
  BY <1>1 DEF Acquire, At, Proceed, AtWork, store
<1>2. ASSUME NEW k \in Keygens, CheckKeys(k) PROVE TypeOK'
  BY <1>2 DEF CheckKeys, Leave, End, Proceed, store, hook
<1>3. ASSUME NEW k \in Keygens, RemoveKey(k) PROVE TypeOK'
  BY <1>3 DEF RemoveKey, Unlink, keygen, hook
<1>4. ASSUME NEW k \in Keygens, RemoveDone(k) PROVE TypeOK'
  BY <1>4 DEF RemoveDone, Proceed, store, hook
<1>5. ASSUME NEW k \in Keygens, SshKeygen(k) PROVE TypeOK'
  <2>1. PICK f \in Files, s \in {"id", "public"} :
          Write(f, {k}) /\ Proceed(k, s)
    BY <1>5 DEF SshKeygen, Files
  <2>2. /\ exists' \in SUBSET Files
        /\ content' \in [Files -> SUBSET Keygens]
    BY <2>1 DEF Write
  <2> QED
    BY <1>5, <2>1, <2>2 DEF SshKeygen, Proceed, hook
<1>6. ASSUME NEW k \in Keygens, PrintPublicKey(k) PROVE TypeOK'
  BY <1>6 DEF PrintPublicKey, Proceed, Files, store, hook
<1>7. ASSUME NEW k \in Keygens, CreateAuthorizedKeys(k) PROVE TypeOK'
  BY <1>7 DEF CreateAuthorizedKeys, Write, Proceed, Files, hook
<1>8. ASSUME NEW k \in Keygens, AppendPublicKey(k) PROVE TypeOK'
  BY <1>8 DEF AppendPublicKey, Write, Leave, End, Files, hook
<1>9. ASSUME NEW k \in Keygens, KeygenFails(k) PROVE TypeOK'
  BY <1>9 DEF KeygenFails, Leave, End, store, hook
<1>10. ASSUME NEW h \in Hooks, Start(h) PROVE TypeOK'
  <2>1. PICK d \in {"check", "copy"} : Move(h, d, 1)
    BY <1>10 DEF Start
  <2>2. doing' \in [Hooks -> {"start", "check", "copy", "authorize"}]
    BY <2>1 DEF Move
  <2>3. file' \in [Hooks -> 1 .. 3]
    BY <2>1 DEF Move
  <2>4. disturbed' \in [Hooks -> BOOLEAN]
    <3>1. (lock # NoOwner) \in BOOLEAN
      OBVIOUS
    <3> QED
      BY <1>10, <3>1, Zenon DEF Start
  <2> QED
    BY <1>10, <2>2, <2>3, <2>4 DEF Start, store, keygen
<1>11. ASSUME NEW h \in Hooks, CheckFile(h) PROVE TypeOK'
  <2>1. CASE KeyFiles[file[h]] \in exists /\ file[h] < 3
    <3>1. file[h] + 1 \in 1 .. 3
      BY <2>1, NextIndex
    <3> QED
      BY <1>11, <2>1, <3>1 DEF CheckFile, Move, store, keygen
  <2>2. CASE KeyFiles[file[h]] \in exists /\ ~(file[h] < 3)
    <3>1. /\ Move(h, "copy", 1)
          /\ seen' = [seen EXCEPT ![h] = TRUE]
          /\ UNCHANGED <<store, keygen, copy, disturbed, outcome>>
      BY <1>11, <2>2 DEF CheckFile
    <3>2. seen' \in [Hooks -> BOOLEAN]
      BY <3>1
    <3>3. /\ doing' \in [Hooks -> {"start", "check", "copy", "authorize"}]
          /\ file' \in [Hooks -> 1 .. 3]
      BY <3>1 DEF Move
    <3> QED
      BY <3>1, <3>2, <3>3 DEF store, keygen
  <2>3. CASE KeyFiles[file[h]] \notin exists
    BY <1>11, <2>3 DEF CheckFile, End, store, keygen
  <2> QED
    BY <2>1, <2>2, <2>3
<1>12. ASSUME NEW h \in Hooks, CopyFile(h) PROVE TypeOK'
  <2> DEFINE f == KeyFiles[file[h]]
  <2>1. f \in Files
    BY KeyFilesAreFiles
  <2>2. CASE f \in exists
    <3>1. /\ copy' = [copy EXCEPT ![h][f] = content[f]]
          /\ UNCHANGED <<store, keygen, seen, disturbed, outcome>>
      BY <1>12, <2>2 DEF CopyFile
    <3>2. copy' \in [Hooks -> [Files -> SUBSET (Keygens \cup {UserKey})]]
      <4>1. content[f] \in SUBSET (Keygens \cup {UserKey})
        BY <2>1
      <4> HIDE DEF f
      <4> QED
        BY <2>1, <3>1, <4>1
    <3>3. \E d \in {"copy", "authorize"}, i \in 1 .. 3 : Move(h, d, i)
      <4>1. CASE file[h] < 3
        <5>1. file[h] + 1 \in 1 .. 3
          BY <4>1, NextIndex
        <5> QED
          BY <1>12, <2>2, <4>1, <5>1 DEF CopyFile
      <4>2. CASE ~(file[h] < 3)
        BY <1>12, <2>2, <4>2 DEF CopyFile
      <4> QED
        BY <4>1, <4>2
    <3>4. /\ doing' \in [Hooks -> {"start", "check", "copy", "authorize"}]
          /\ file' \in [Hooks -> 1 .. 3]
      BY <3>3 DEF Move
    <3> QED
      BY <3>1, <3>2, <3>4 DEF store, keygen
  <2>3. CASE f \notin exists
    BY <1>12, <2>3 DEF CopyFile, End, store, keygen
  <2> QED
    BY <2>2, <2>3
<1>13. ASSUME NEW h \in Hooks, AuthorizeKey(h) PROVE TypeOK'
  <2>1. copy' \in [Hooks -> [Files -> SUBSET (Keygens \cup {UserKey})]]
    <3>1. CASE UNCHANGED copy
      BY <3>1
    <3>2. CASE copy' = [copy EXCEPT ![h]["authorized"] = @ \cup {UserKey}]
      BY <3>2 DEF Files
    <3> QED
      BY <1>13, <3>1, <3>2 DEF AuthorizeKey
  <2> QED
    BY <1>13, <2>1 DEF AuthorizeKey, End, store, keygen
<1>14. ASSUME NEW p \in Keygens \cup Hooks, Kill(p) PROVE TypeOK'
  BY <1>14 DEF Kill, End, store, hook
<1>15. CASE UNCHANGED vars
  BY <1>15 DEF vars
<1> QED
  BY <1>1, <1>2, <1>3, <1>4, <1>5, <1>6, <1>7, <1>8, <1>9, <1>10, <1>11,
     <1>12, <1>13, <1>14, <1>15
  DEF Next, GenerateSshKeys, UseSshKeys

(* Every step of keygens and launches yields well-typed state: the lock,   *)
(* the three files and their copies.                                       *)
THEOREM TypeCorrect == Spec => []TypeOK
BY TypeInit, TypeStep, PTL DEF Spec

-----------------------------------------------------------------------------
(* The store of keys, and the lock that guards it.                         *)

LEMMA StoreInit == Init => Store
BY TypeInit, SshKeysAssumption
DEF Init, Store, HolderIsOwner, AbsentIsEmpty, Staged, Stage, AuthorizedIsOwn,
    Resting, SshKeysAssumption, Files

(* A step that touches no key, no lock and no keygen.                      *)
LEMMA StoreUntouched ==
  ASSUME Store, UNCHANGED <<store, keygen>>,
         \A k \in Keygens : outcome'[k] = outcome[k]
  PROVE  StoreOK'
<1>1. \A k \in Keygens : Live(k)' <=> Live(k)
  BY DEF Live
<1>2. NoneBroke' <=> NoneBroke
  BY DEF NoneBroke
<1>3. Whole' <=> Whole
  BY DEF Whole, store
<1>4. HolderIsOwner' /\ AbsentIsEmpty' /\ AuthorizedIsOwn'
  BY <1>1 DEF Store, HolderIsOwner, AbsentIsEmpty, AuthorizedIsOwn, store, keygen
<1>5. Staged'
  BY <1>1 DEF Store, Staged, Stage, Made, store, keygen
<1>6. Resting'
  BY <1>1, <1>2, <1>3 DEF Store, Resting, TypeOK, store, keygen
<1> QED
  BY <1>4, <1>5, <1>6 DEF StoreOK

LEMMA LaunchesLeaveStore ==
  ASSUME Store, NEW h \in Hooks, UseSshKeys(h)
  PROVE  UNCHANGED <<store, keygen>> /\ \A k \in Keygens : outcome'[k] = outcome[k]
<1>1. \A k \in Keygens : k # h
  BY SshKeysAssumption DEF SshKeysAssumption
<1>2. CASE Start(h)
  BY <1>2 DEF Start
<1>3. CASE CheckFile(h)
  BY <1>1, <1>3 DEF CheckFile, End, Store, TypeOK
<1>4. CASE CopyFile(h)
  BY <1>1, <1>4 DEF CopyFile, End, Store, TypeOK
<1>5. CASE AuthorizeKey(h)
  BY <1>1, <1>5 DEF AuthorizeKey, End, Store, TypeOK
<1> QED
  BY <1>2, <1>3, <1>4, <1>5 DEF UseSshKeys

(* While one keygen works on the directory, the others wait for the lock.  *)
LEMMA OthersWait ==
  ASSUME Store, NEW k \in Keygens, Live(k), step[k] # "lock"
  PROVE  lock = k /\ \A j \in Keygens \ {k} : Live(j) => step[j] = "lock"
BY DEF Store, HolderIsOwner

(* What remains to be shown of a step of the holder of the lock that keeps *)
(* the lock: what it does to the directory.                                *)
LEMMA HolderStep ==
  ASSUME Store, TypeOK', NEW k \in Keygens, Live(k), step[k] # "lock",
         NEW s, s # "lock", s # "check",
         step' = [step EXCEPT ![k] = s], UNCHANGED <<lock, outcome>>,
         AbsentIsEmpty', AuthorizedIsOwn', Stage(k)'
  PROVE  StoreOK'
<1>1. lock = k /\ \A j \in Keygens \ {k} : Live(j) => step[j] = "lock"
  BY OthersWait
<1>2. \A j \in Keygens \ {k} : step'[j] = step[j]
  BY DEF Store, TypeOK
<1>3. step'[k] = s
  BY DEF Store, TypeOK
<1>4. HolderIsOwner'
  BY <1>1, <1>2 DEF HolderIsOwner, Live
<1>5. Staged'
  BY <1>1, <1>2 DEF Staged, Stage, Live
<1>6. Resting'
  BY <1>1, <1>3, SshKeysAssumption DEF Resting, Live, SshKeysAssumption
<1> QED
  BY <1>4, <1>5, <1>6 DEF StoreOK

(* And of a step in which the holder ends and gives the lock up.           *)
LEMMA LeaveStep ==
  ASSUME Store, NEW k \in Keygens, Live(k), step[k] # "lock",
         NEW how, how # "none", Leave(k, how),
         how # "error" /\ NoneBroke => exists' = {} \/ Whole',
         TypeOK', AbsentIsEmpty', AuthorizedIsOwn'
  PROVE  StoreOK'
<1>1. lock = k /\ \A j \in Keygens \ {k} : Live(j) => step[j] = "lock"
  BY OthersWait
<1>2. /\ outcome'[k] = how
      /\ \A j \in Keygens \ {k} : outcome'[j] = outcome[j]
      /\ lock' = NoOwner
      /\ step' = step
  BY DEF Leave, End, Store, TypeOK
<1>3. \A j \in Keygens : Live(j)' => step'[j] = "lock"
  BY <1>1, <1>2 DEF Live
<1>4. HolderIsOwner' /\ Staged'
  BY <1>3 DEF HolderIsOwner, Staged, Stage
<1>5. NoneBroke' => NoneBroke /\ how # "error"
  BY <1>2 DEF NoneBroke, Live
<1>6. Resting'
  BY <1>2, <1>5 DEF Resting
<1> QED
  BY <1>4, <1>6 DEF StoreOK

LEMMA KillLeavesStoreOK ==
  ASSUME Store, NEW p \in Keygens \cup Hooks, Kill(p)
  PROVE  StoreOK'
<1>1. CASE p \in Keygens
  <2>1. /\ outcome'[p] = "killed"
        /\ \A j \in Keygens \ {p} : outcome'[j] = outcome[j]
    BY <1>1 DEF Kill, End, Store, TypeOK
  <2>2. ~NoneBroke'
    BY <1>1, <2>1 DEF NoneBroke
  <2>3. UNCHANGED <<exists, content, step, output>>
    BY DEF Kill, store
  <2>4. \A j \in Keygens : Live(j)' => Live(j) /\ j # p
    BY <2>1 DEF Live
  <2>5. HolderIsOwner'
    <3> SUFFICES ASSUME NEW j \in Keygens, Live(j)', step'[j] # "lock"
                 PROVE  lock' = j
      BY DEF HolderIsOwner
    <3>1. lock = j /\ j # p
      BY <2>3, <2>4 DEF Store, HolderIsOwner
    <3> QED
      BY <3>1 DEF Kill
  <2>6. Staged'
    BY <2>3, <2>4 DEF Store, Staged, Stage, Made
  <2> QED
    BY <2>2, <2>3, <2>5, <2>6
    DEF StoreOK, Store, AbsentIsEmpty, AuthorizedIsOwn, Resting
<1>2. CASE p \in Hooks
  <2>1. \A k \in Keygens : k # p
    BY <1>2, SshKeysAssumption DEF SshKeysAssumption
  <2>2. UNCHANGED <<store, keygen>>
    BY <2>1 DEF Kill, keygen, Store, TypeOK
  <2>3. \A k \in Keygens : outcome'[k] = outcome[k]
    BY <2>1 DEF Kill, End, Store, TypeOK
  <2> QED
    BY <2>2, <2>3, StoreUntouched
<1> QED
  BY <1>1, <1>2

LEMMA StoreStep == Store /\ [Next]_vars => Store'
<1> SUFFICES ASSUME Store, [Next]_vars PROVE Store'
  OBVIOUS
<1>t. TypeOK /\ TypeOK'
  BY TypeStep DEF Store
<1> SUFFICES StoreOK'
  BY <1>t DEF StoreOK, Store
<1>1. ASSUME NEW k \in Keygens, Acquire(k) PROVE StoreOK'
  <2>1. /\ \A j \in Keygens : Live(j)' <=> Live(j)
        /\ \A j \in Keygens \ {k} : step'[j] = step[j]
        /\ step'[k] = "check"
        /\ lock = NoOwner /\ lock' = k /\ k # NoOwner
        /\ UNCHANGED <<exists, content, output>>
    BY <1>1, <1>t, SshKeysAssumption
    DEF Acquire, Proceed, Live, store, TypeOK, SshKeysAssumption
  <2>2. Live(k)'
    BY <1>1, <2>1 DEF Acquire, At
  <2>3. HolderIsOwner' /\ AbsentIsEmpty' /\ AuthorizedIsOwn'
    <3>1. \A j \in Keygens : Live(j) => step[j] = "lock"
      BY <2>1, SshKeysAssumption DEF Store, HolderIsOwner, SshKeysAssumption
    <3>2. HolderIsOwner'
      BY <2>1, <3>1 DEF HolderIsOwner
    <3> QED
      BY <2>1, <3>2 DEF Store, AbsentIsEmpty, AuthorizedIsOwn
  <2>4. Staged'
    BY <2>1 DEF Store, Staged, Stage, Made
  <2>5. (NoneBroke' <=> NoneBroke) /\ (Whole' <=> Whole)
    BY <1>1, <2>1 DEF Acquire, Proceed, NoneBroke, Whole
  <2>6. Resting'
    BY <2>1, <2>2, <2>5 DEF Store, Resting
  <2> QED
    BY <2>3, <2>4, <2>6 DEF StoreOK
<1>2. ASSUME NEW k \in Keygens, CheckKeys(k) PROVE StoreOK'
  <2>1. /\ UNCHANGED <<exists, content, output>>
        /\ AbsentIsEmpty' /\ AuthorizedIsOwn'
    BY <1>2 DEF CheckKeys, store, Store, AbsentIsEmpty, AuthorizedIsOwn
  <2>2. CASE UserHasSshKeys /\ k \notin Overwriting
    <3>1. lock = k /\ k # NoOwner
      BY <1>2, OthersWait, SshKeysAssumption
      DEF CheckKeys, At, SshKeysAssumption
    <3>2. NoneBroke => exists = {} \/ Whole
      BY <1>2, <3>1 DEF CheckKeys, At, Store, Resting
    <3>3. Leave(k, "exists")
      BY <1>2, <2>2 DEF CheckKeys
    <3> QED
      BY <1>2, <1>t, <2>1, <3>2, <3>3, LeaveStep DEF CheckKeys, At, Whole
  <2>3. CASE ~(UserHasSshKeys /\ k \notin Overwriting)
    <3>1. Proceed(k, "remove") /\ UNCHANGED lock
      BY <1>2, <2>3 DEF CheckKeys
    <3>2. Stage(k)'
      BY <1>t, <2>1, <2>3, <3>1 DEF Proceed, Stage, UserHasSshKeys, TypeOK
    <3> QED
      BY <1>2, <1>t, <2>1, <3>1, <3>2, HolderStep DEF CheckKeys, At, Proceed
  <2> QED
    BY <2>2, <2>3
<1>3. ASSUME NEW k \in Keygens, RemoveKey(k) PROVE StoreOK'
  <2>1. PICK f \in exists : Unlink(f)
    BY <1>3 DEF RemoveKey
  <2>2. AbsentIsEmpty' /\ AuthorizedIsOwn'
    BY <1>t, <2>1 DEF Unlink, Store, AbsentIsEmpty, AuthorizedIsOwn, TypeOK, Files
  <2>3. Stage(k)'
    BY <1>3, <1>t, <2>1 DEF RemoveKey, At, Unlink, Stage, keygen, TypeOK
  <2>4. step' = [step EXCEPT ![k] = "remove"]
    BY <1>3, <1>t DEF RemoveKey, At, keygen, TypeOK
  <2> QED
    BY <1>3, <1>t, <2>2, <2>3, <2>4, HolderStep DEF RemoveKey, At, keygen
<1>4. ASSUME NEW k \in Keygens, RemoveDone(k) PROVE StoreOK'
  <2>1. AbsentIsEmpty' /\ AuthorizedIsOwn'
    BY <1>4 DEF RemoveDone, Store, AbsentIsEmpty, AuthorizedIsOwn, store
  <2>2. Stage(k)'
    BY <1>4, <1>t DEF RemoveDone, Proceed, Stage, store, TypeOK
  <2> QED
    BY <1>4, <1>t, <2>1, <2>2, HolderStep DEF RemoveDone, At, Proceed
<1>5. ASSUME NEW k \in Keygens, SshKeygen(k) PROVE StoreOK'
  <2>1. At(k, "host") \/ At(k, "id")
    BY <1>5 DEF SshKeygen
  <2>2. Live(k) /\ step[k] # "lock" /\ Stage(k)
    BY <2>1 DEF At, Store, Staged
  <2>3. CASE At(k, "host")
    <3>1. exists = {} /\ \A f \in Files : content[f] = {}
      BY <2>2, <2>3 DEF At, Stage, Store, AbsentIsEmpty
    <3>2. /\ exists' = {"host"}
          /\ content' = [content EXCEPT !["host"] = {k}]
          /\ step' = [step EXCEPT ![k] = "id"]
          /\ UNCHANGED <<lock, outcome>>
      BY <1>5, <2>3, <3>1 DEF SshKeygen, At, Write, Proceed
    <3>3. AbsentIsEmpty' /\ AuthorizedIsOwn' /\ Stage(k)'
      BY <1>t, <3>1, <3>2
      DEF AbsentIsEmpty, AuthorizedIsOwn, Stage, Made, TypeOK, Files
    <3> QED
      BY <1>t, <2>2, <3>2, <3>3, HolderStep
  <2>4. CASE At(k, "id")
    <3>1. Made(k, {"host"}) /\ content["authorized"] = {} /\ content["id"] = {}
      BY <2>2, <2>4 DEF At, Stage, Made, Store, AbsentIsEmpty, Files
    <3>2. /\ exists' = {"host", "id"}
          /\ content' = [content EXCEPT !["id"] = {k}]
          /\ step' = [step EXCEPT ![k] = "public"]
          /\ UNCHANGED <<lock, outcome>>
      BY <1>5, <2>4, <3>1 DEF SshKeygen, At, Write, Proceed, Made
    <3>3. AbsentIsEmpty' /\ AuthorizedIsOwn' /\ Stage(k)'
      BY <1>t, <3>1, <3>2
      DEF AbsentIsEmpty, AuthorizedIsOwn, Stage, Made, TypeOK, Files
    <3> QED
      BY <1>t, <2>2, <3>2, <3>3, HolderStep
  <2> QED
    BY <2>1, <2>3, <2>4
<1>6. ASSUME NEW k \in Keygens, PrintPublicKey(k) PROVE StoreOK'
  <2>1. Live(k) /\ step[k] = "public" /\ Stage(k)
    BY <1>6 DEF PrintPublicKey, At, Store, Staged
  <2>2. AbsentIsEmpty' /\ AuthorizedIsOwn'
    BY <1>6 DEF PrintPublicKey, Store, AbsentIsEmpty, AuthorizedIsOwn, store
  <2>3. Stage(k)'
    BY <1>6, <1>t, <2>1
    DEF PrintPublicKey, Proceed, Stage, Made, store, TypeOK
  <2> QED
    BY <1>6, <1>t, <2>1, <2>2, <2>3, HolderStep DEF PrintPublicKey, Proceed
<1>7. ASSUME NEW k \in Keygens, CreateAuthorizedKeys(k) PROVE StoreOK'
  <2>1. Live(k) /\ step[k] = "create" /\ Stage(k)
    BY <1>7 DEF CreateAuthorizedKeys, At, Store, Staged
  <2>2. /\ exists' = Files
        /\ content' = content
        /\ content["authorized"] = {}
    BY <1>7, <1>t, <2>1
    DEF CreateAuthorizedKeys, Write, Stage, Made, Store, AbsentIsEmpty, TypeOK,
        Files
  <2>3. AbsentIsEmpty' /\ AuthorizedIsOwn'
    BY <2>2 DEF AbsentIsEmpty, AuthorizedIsOwn
  <2>4. Stage(k)'
    BY <1>7, <1>t, <2>1, <2>2
    DEF CreateAuthorizedKeys, Proceed, Stage, Made, TypeOK
  <2> QED
    BY <1>7, <1>t, <2>1, <2>3, <2>4, HolderStep DEF CreateAuthorizedKeys, Proceed
<1>8. ASSUME NEW k \in Keygens, AppendPublicKey(k) PROVE StoreOK'
  <2>1. Live(k) /\ step[k] = "append" /\ Stage(k)
    BY <1>8 DEF AppendPublicKey, At, Store, Staged
  <2>2. exists' = Files /\ \A f \in Files : content'[f] = {k}
    BY <1>8, <1>t, <2>1 DEF AppendPublicKey, Write, Stage, TypeOK, Files
  <2>3. AbsentIsEmpty' /\ AuthorizedIsOwn' /\ Whole'
    BY <2>2 DEF AbsentIsEmpty, AuthorizedIsOwn, Whole, Files
  <2> QED
    BY <1>8, <1>t, <2>1, <2>3, LeaveStep DEF AppendPublicKey
<1>9. ASSUME NEW k \in Keygens, KeygenFails(k) PROVE StoreOK'
  <2>1. AbsentIsEmpty' /\ AuthorizedIsOwn'
    BY <1>9 DEF KeygenFails, Store, AbsentIsEmpty, AuthorizedIsOwn, store
  <2> QED
    BY <1>9, <1>t, <2>1, LeaveStep DEF KeygenFails, At
<1>10. ASSUME NEW h \in Hooks, UseSshKeys(h) PROVE StoreOK'
  BY <1>10, LaunchesLeaveStore, StoreUntouched
<1>11. ASSUME NEW p \in Keygens \cup Hooks, Kill(p) PROVE StoreOK'
  BY <1>11, KillLeavesStoreOK
<1>12. CASE UNCHANGED vars
  BY <1>12, StoreUntouched DEF vars, store, keygen
<1> QED
  BY <1>1, <1>2, <1>3, <1>4, <1>5, <1>6, <1>7, <1>8, <1>9, <1>10, <1>11, <1>12
  DEF Next, GenerateSshKeys

LEMMA StoreCorrect == Spec => []Store
BY StoreInit, StoreStep, PTL DEF Spec

(* When no keygen is at work and none has failed or died, the directory    *)
(* holds nothing or one keygen's whole set of keys (the lock of            *)
(* generateSshKeys).                                                       *)
THEOREM KeysAreWhole == Spec => []RestingKeysAreWhole
<1>1. Store => RestingKeysAreWhole
  BY DEF Store, Resting, RestingKeysAreWhole
<1> QED
  BY <1>1, StoreCorrect, PTL

(* A working set of keys that no keygen with --overwrite can touch.        *)
Safe == Whole /\ \A k \in Overwriting : ~Live(k)

LEMMA SafeKeysAreUntouched ==
  ASSUME Store, Safe, [Next]_vars PROVE UNCHANGED store
<1>1. ASSUME NEW k \in Keygens, RemoveKey(k) PROVE FALSE
  BY <1>1 DEF RemoveKey, At, Store, Staged, Stage, Whole, Safe
<1>2. ASSUME NEW k \in Keygens, SshKeygen(k) PROVE FALSE
  BY <1>2 DEF SshKeygen, At, Store, Staged, Stage, Made, Whole, Safe, Files
<1>3. ASSUME NEW k \in Keygens, CreateAuthorizedKeys(k) PROVE FALSE
  BY <1>3
  DEF CreateAuthorizedKeys, At, Store, Staged, Stage, Made, Whole, Safe, Files
<1>4. ASSUME NEW k \in Keygens, AppendPublicKey(k) PROVE FALSE
  BY <1>4 DEF AppendPublicKey, At, Store, Staged, Stage, Whole, Safe, Files
<1>5. ASSUME NEW k \in Keygens,
             \/ Acquire(k) \/ CheckKeys(k) \/ RemoveDone(k)
             \/ PrintPublicKey(k) \/ KeygenFails(k)
      PROVE  UNCHANGED store
  BY <1>5 DEF Acquire, CheckKeys, RemoveDone, PrintPublicKey, KeygenFails
<1>6. ASSUME NEW h \in Hooks, UseSshKeys(h) PROVE UNCHANGED store
  BY <1>6 DEF UseSshKeys, Start, CheckFile, CopyFile, AuthorizeKey
<1>7. ASSUME NEW p \in Keygens \cup Hooks, Kill(p) PROVE UNCHANGED store
  BY <1>7 DEF Kill
<1>8. CASE UNCHANGED vars
  BY <1>8 DEF vars, store
<1> QED
  BY <1>1, <1>2, <1>3, <1>4, <1>5, <1>6, <1>7, <1>8 DEF Next, GenerateSshKeys

(* Without --overwrite nobody touches a working set of keys, however many  *)
(* keygens run, fail or die (generateSshKeys looks under the lock).        *)
THEOREM KeysStay == Spec => WithoutOverwriteKeysStay
<1> DEFINE Stay == Whole /\ (\A k \in Overwriting : ~Live(k))
                     => UNCHANGED <<exists, content>>
<1>1. Store /\ [Next]_vars => [Stay]_vars
  BY SafeKeysAreUntouched DEF Safe, store
<1> QED
  BY <1>1, StoreCorrect, PTL DEF Spec, WithoutOverwriteKeysStay

LEMMA EndedIsForEver ==
  ASSUME TypeOK, [Next]_vars, NEW p \in Keygens \cup Hooks, ~Live(p)
  PROVE  outcome'[p] = outcome[p]
<1>1. \A q \in Keygens \cup Hooks : \A how :
        Live(q) /\ End(q, how) => outcome'[p] = outcome[p]
  BY DEF Live, End, TypeOK
<1>2. ASSUME NEW j \in Keygens, GenerateSshKeys(j) PROVE outcome'[p] = outcome[p]
  BY <1>1, <1>2
  DEF GenerateSshKeys, Acquire, CheckKeys, RemoveKey, RemoveDone, SshKeygen,
      PrintPublicKey, CreateAuthorizedKeys, AppendPublicKey, KeygenFails,
      At, Leave, Proceed
<1>3. ASSUME NEW h \in Hooks, UseSshKeys(h) PROVE outcome'[p] = outcome[p]
  BY <1>1, <1>3 DEF UseSshKeys, Start, CheckFile, CopyFile, AuthorizeKey
<1>4. ASSUME NEW q \in Keygens \cup Hooks, Kill(q) PROVE outcome'[p] = outcome[p]
  BY <1>1, <1>4 DEF Kill
<1> QED
  BY <1>2, <1>3, <1>4 DEF Next, vars

(* Once a user has a working set of keys and every keygen with --overwrite *)
(* has ended, the set works for ever: keygens that start, fail or die      *)
(* later do not harm it.  (That it comes to this is liveness.)             *)
THEOREM KeysAreForEver == Spec => [](Safe => []Safe)
<1>1. Store /\ Safe /\ [Next]_vars => Safe'
  <2> SUFFICES ASSUME Store, Safe, [Next]_vars PROVE Safe'
    OBVIOUS
  <2>1. Whole'
    BY SafeKeysAreUntouched DEF store, Safe, Whole
  <2>2. \A k \in Overwriting : ~Live(k)'
    BY EndedIsForEver, SshKeysAssumption DEF SshKeysAssumption, Safe, Live, Store
  <2> QED
    BY <2>1, <2>2 DEF Safe
<1> QED
  BY <1>1, StoreCorrect, PTL DEF Spec

-----------------------------------------------------------------------------
(* Who holds the lock.                                                     *)

LockOK == lock # NoOwner =>
  \/ Live(lock) /\ step[lock] # "lock"
  \/ outcome[lock] = "killed"

LEMMA LockStep == Store /\ LockOK /\ [Next]_vars => LockOK'
<1> SUFFICES ASSUME Store, LockOK, [Next]_vars PROVE LockOK'
  OBVIOUS
<1> USE DEF Store, TypeOK
<1>1. ASSUME NEW k \in Keygens, Acquire(k) PROVE LockOK'
  BY <1>1 DEF Acquire, At, Proceed, Live, LockOK
<1>2. ASSUME NEW k \in Keygens, GenerateSshKeys(k), ~Acquire(k) PROVE LockOK'
  <2>1. Live(k) /\ step[k] # "lock"
    BY <1>2
    DEF GenerateSshKeys, CheckKeys, RemoveKey, RemoveDone, SshKeygen,
        PrintPublicKey, CreateAuthorizedKeys, AppendPublicKey, KeygenFails, At
  <2>2. lock = k
    BY <2>1 DEF HolderIsOwner
  <2>3. \/ lock' = NoOwner
        \/ UNCHANGED <<lock, step, outcome>>
        \/ /\ UNCHANGED <<lock, outcome>>
           /\ \E s : s # "lock" /\ step' = [step EXCEPT ![k] = s]
    BY <1>2
    DEF GenerateSshKeys, CheckKeys, RemoveKey, RemoveDone, SshKeygen,
        PrintPublicKey, CreateAuthorizedKeys, AppendPublicKey, KeygenFails,
        Leave, Proceed, keygen
  <2> QED
    BY <2>1, <2>2, <2>3 DEF LockOK, Live
<1>3. ASSUME NEW h \in Hooks, UseSshKeys(h) PROVE LockOK'
  BY <1>3, LaunchesLeaveStore DEF LockOK, Live, keygen
<1>4. ASSUME NEW p \in Keygens \cup Hooks, Kill(p) PROVE LockOK'
  BY <1>4 DEF Kill, End, LockOK, Live
<1>5. CASE UNCHANGED vars
  BY <1>5 DEF vars, LockOK, Live
<1> QED
  BY <1>1, <1>2, <1>3, <1>4, <1>5 DEF Next

(* However a keygen ends, it gives the lock back, unless it is killed: the *)
(* destructor of the lock in generateSshKeys runs on every path.           *)
THEOREM OnlyDeathKeepsTheLockTheorem == Spec => []OnlyDeathKeepsTheLock
<1>1. Init => LockOK
  BY DEF Init, LockOK
<1>2. LockOK => OnlyDeathKeepsTheLock
  BY DEF LockOK, OnlyDeathKeepsTheLock
<1> QED
  BY <1>1, <1>2, StoreCorrect, LockStep, PTL DEF Spec

-----------------------------------------------------------------------------
(* The launches, which take no lock.                                       *)

LEMMA LaunchesInit == Init => Launches
BY DEF Init, Launches, LaunchOK, AtWorkOK, AtWork, NotSeenYet, CopiedOK,
       FailedOK

LEMMA HealthOnlyWorsens ==
  ASSUME TypeOK, [Next]_vars PROVE NoneBroke' => NoneBroke
BY EndedIsForEver DEF NoneBroke, Live

(* Whatever a keygen does, the launches at work notice.                    *)
LEMMA KeygensDisturb ==
  ASSUME Store, Launches, NEW k \in Keygens, GenerateSshKeys(k)
  PROVE  /\ UNCHANGED <<doing, file, copy, seen>>
         /\ \A h \in Hooks : /\ outcome'[h] = outcome[h]
                             /\ disturbed[h] => disturbed'[h]
                             /\ AtWork(h) => disturbed'[h]
<1>1. \A h \in Hooks : h # k
  BY SshKeysAssumption DEF SshKeysAssumption
<1>2. CASE Acquire(k)
  BY <1>2 DEF Acquire, Proceed
<1>3. CASE ~Acquire(k)
  <2>1. /\ UNCHANGED hook
        /\ Live(k) /\ step[k] # "lock"
    BY <1>3
    DEF GenerateSshKeys, CheckKeys, RemoveKey, RemoveDone, SshKeygen,
        PrintPublicKey, CreateAuthorizedKeys, AppendPublicKey, KeygenFails, At
  <2>2. \A h \in Hooks : outcome'[h] = outcome[h]
    BY <1>1, <1>3
    DEF GenerateSshKeys, CheckKeys, RemoveKey, RemoveDone, SshKeygen,
        PrintPublicKey, CreateAuthorizedKeys, AppendPublicKey, KeygenFails,
        Leave, End, Proceed, Store, TypeOK
  <2>3. lock # NoOwner
    BY <2>1, OthersWait, SshKeysAssumption DEF SshKeysAssumption
  <2>4. \A h \in Hooks : AtWork(h) => disturbed[h]
    BY <2>3 DEF Launches, LaunchOK, AtWorkOK
  <2> QED
    BY <2>1, <2>2, <2>4 DEF hook
<1> QED
  BY <1>2, <1>3

LEMMA KeygenKeepsLaunches ==
  ASSUME Store, TypeOK', Launches, NoneBroke' => NoneBroke,
         NEW k \in Keygens, GenerateSshKeys(k)
  PROVE  Launches'
<1> SUFFICES ASSUME NEW h \in Hooks PROVE LaunchOK(h)'
  BY DEF Launches
<1>0. LaunchOK(h)
  BY DEF Launches
<1>1. /\ UNCHANGED <<doing, file, copy, seen>>
      /\ outcome'[h] = outcome[h]
      /\ disturbed[h] => disturbed'[h]
      /\ AtWork(h) => disturbed'[h]
  BY KeygensDisturb
<1>2. AtWorkOK(h)'
  BY <1>1 DEF AtWorkOK, AtWork, Live
<1>3. NotSeenYet(h)' /\ FailedOK(h)'
  BY <1>0, <1>1 DEF LaunchOK, NotSeenYet, FailedOK
<1>4. CopiedOK(h)'
  BY <1>0, <1>1 DEF LaunchOK, CopiedOK
<1> QED
  BY <1>2, <1>3, <1>4 DEF LaunchOK

LEMMA KillKeepsLaunches ==
  ASSUME Store, Launches, NoneBroke' => NoneBroke,
         NEW p \in Keygens \cup Hooks, Kill(p)
  PROVE  Launches'
<1> SUFFICES ASSUME NEW h \in Hooks PROVE LaunchOK(h)'
  BY DEF Launches
<1>1. /\ LaunchOK(h)
      /\ UNCHANGED <<exists, content, doing, file, copy, seen, disturbed>>
      /\ lock = NoOwner => lock' = NoOwner
      /\ outcome'[h] \in {outcome[h], "killed"}
  BY DEF Launches, Kill, End, store, hook, Store, TypeOK
<1>2. AtWorkOK(h)'
  BY <1>1 DEF LaunchOK, AtWorkOK, AtWork, Live
<1>3. NotSeenYet(h)' /\ FailedOK(h)'
  BY <1>1 DEF LaunchOK, NotSeenYet, FailedOK
<1>4. CopiedOK(h)'
  BY <1>1 DEF LaunchOK, CopiedOK
<1> QED
  BY <1>2, <1>3, <1>4 DEF LaunchOK

(* A launch does not affect another one.                                   *)
LEMMA LaunchesAreSeparate ==
  ASSUME Store, NEW h \in Hooks, UseSshKeys(h), NEW j \in Hooks \ {h}, LaunchOK(j),
         NoneBroke' => NoneBroke
  PROVE  LaunchOK(j)'
<1>1. UNCHANGED <<exists, content, lock>>
  BY LaunchesLeaveStore DEF store, keygen
<1>2. /\ doing'[j] = doing[j]
      /\ file'[j] = file[j]
      /\ copy'[j] = copy[j]
      /\ outcome'[j] = outcome[j]
      /\ seen'[j] = seen[j]
      /\ disturbed'[j] = disturbed[j]
  <2>1. CASE Start(h)
    BY <2>1 DEF Start, Move, Store, TypeOK
  <2>2. CASE CheckFile(h)
    BY <2>2 DEF CheckFile, Move, End, Store, TypeOK
  <2>3. CASE CopyFile(h)
    BY <2>3 DEF CopyFile, Move, End, Store, TypeOK
  <2>4. CASE AuthorizeKey(h)
    BY <2>4 DEF AuthorizeKey, End, Store, TypeOK
  <2> QED
    BY <2>1, <2>2, <2>3, <2>4 DEF UseSshKeys
<1>3. AtWorkOK(j)'
  BY <1>1, <1>2 DEF LaunchOK, AtWorkOK, AtWork, Live
<1>4. NotSeenYet(j)' /\ FailedOK(j)'
  BY <1>2 DEF LaunchOK, NotSeenYet, FailedOK
<1>5. CopiedOK(j)'
  BY <1>2 DEF LaunchOK, CopiedOK
<1> QED
  BY <1>3, <1>4, <1>5 DEF LaunchOK

LEMMA StartKeepsOwn ==
  ASSUME Store, NEW h \in Hooks, LaunchOK(h), Start(h) PROVE LaunchOK(h)'
<1>1. /\ doing'[h] \in {"check", "copy"}
      /\ file'[h] = 1
      /\ ~disturbed'[h] => lock = NoOwner
      /\ UNCHANGED <<exists, content, lock, copy, seen, outcome>>
      /\ outcome[h] = "none" /\ ~seen[h]
  BY DEF Start, Move, Store, TypeOK, store, keygen, Live, LaunchOK, NotSeenYet
<1>2. \A i \in 1 .. 3 : ~(i < file'[h])
  BY <1>1
<1>3. AtWorkOK(h)'
  BY <1>1, <1>2 DEF AtWorkOK
<1> QED
  BY <1>1, <1>3 DEF LaunchOK, NotSeenYet, CopiedOK, FailedOK

LEMMA CheckFileKeepsOwn ==
  ASSUME Store, NEW h \in Hooks, LaunchOK(h), CheckFile(h) PROVE LaunchOK(h)'
<1>1. /\ UNCHANGED <<exists, content, lock, copy, disturbed>>
      /\ Live(h) /\ doing[h] = "check" /\ file[h] \in 1 .. 3 /\ ~seen[h]
  BY DEF CheckFile, store, keygen, Store, TypeOK, LaunchOK, NotSeenYet
<1>2. CASE KeyFiles[file[h]] \in exists /\ file[h] < 3
  <2>1. /\ doing'[h] = "check" /\ file'[h] = file[h] + 1
        /\ UNCHANGED <<seen, outcome>>
    BY <1>2 DEF CheckFile, Move, Store, TypeOK
  <2>2. \A i \in 1 .. 3 : i < file'[h] => i < file[h] \/ i = file[h]
    BY <1>1, <2>1
  <2>3. AtWorkOK(h)'
    BY <1>1, <1>2, <2>1, <2>2 DEF LaunchOK, AtWorkOK, AtWork, Live
  <2> QED
    BY <1>1, <2>1, <2>3 DEF LaunchOK, NotSeenYet, CopiedOK, FailedOK, Live
<1>3. CASE KeyFiles[file[h]] \in exists /\ ~(file[h] < 3)
  <2>1. /\ doing'[h] = "copy" /\ file'[h] = 1 /\ seen'[h]
        /\ UNCHANGED outcome
    BY <1>3 DEF CheckFile, Move, Store, TypeOK
  <2>2. AtWork(h) /\ ~disturbed[h] => lock = NoOwner /\ exists = Files
    <3> SUFFICES ASSUME AtWork(h), ~disturbed[h]
                 PROVE  lock = NoOwner /\ exists = Files
      OBVIOUS
    <3>1. file[h] = 3
      BY <1>1, <1>3
    <3>2. KeyFiles[1] \in exists /\ KeyFiles[2] \in exists /\ KeyFiles[3] \in exists
      BY <1>1, <1>3, <3>1 DEF LaunchOK, AtWorkOK
    <3>3. Files \subseteq exists
      BY <3>2 DEF KeyFiles, Files
    <3> QED
      BY <1>1, <3>3 DEF LaunchOK, AtWorkOK, Store, TypeOK
  <2>3. AtWorkOK(h)'
    BY <1>1, <2>1, <2>2 DEF AtWorkOK, AtWork, Live
  <2> QED
    BY <1>1, <2>1, <2>3 DEF LaunchOK, NotSeenYet, CopiedOK, FailedOK, Live
<1>4. CASE KeyFiles[file[h]] \notin exists
  <2>1. outcome'[h] = "missing" /\ UNCHANGED <<doing, file, seen>>
    BY <1>4 DEF CheckFile, End, Store, TypeOK
  <2> QED
    BY <1>1, <2>1
    DEF LaunchOK, AtWorkOK, AtWork, NotSeenYet, CopiedOK, FailedOK, Live
<1> QED
  BY <1>2, <1>3, <1>4

LEMMA CopyFileKeepsOwn ==
  ASSUME Store, NEW h \in Hooks, LaunchOK(h), CopyFile(h) PROVE LaunchOK(h)'
<1> DEFINE f == KeyFiles[file[h]]
<1>1. /\ UNCHANGED <<exists, content, lock, seen, disturbed>>
      /\ Live(h) /\ doing[h] = "copy" /\ file[h] \in 1 .. 3
      /\ f \in Files
  BY KeyFilesAreFiles DEF CopyFile, store, keygen, Store, TypeOK
<1>2. CASE f \in exists
  <2>1. /\ copy'[h] = [copy[h] EXCEPT ![f] = content[f]]
        /\ copy[h] \in [Files -> SUBSET (Keygens \cup {UserKey})]
        /\ UNCHANGED outcome
    BY <1>2 DEF CopyFile, Store, TypeOK
  <2>2. AtWork(h) /\ ~disturbed[h] =>
          /\ lock = NoOwner
          /\ seen[h] => exists = Files
          /\ \A i \in 1 .. 3 : i < file[h] \/ i = file[h] =>
               KeyFiles[i] \in exists /\ copy'[h][KeyFiles[i]] = content[KeyFiles[i]]
    <3>1. \A g \in Files : copy'[h][g] = IF g = f THEN content[f] ELSE copy[h][g]
      BY <1>1, <2>1
    <3> QED
      BY <1>1, <1>2, <3>1, KeyFilesAreFiles DEF LaunchOK, AtWorkOK
  <2>3. CASE file[h] < 3
    <3>1. doing'[h] = "copy" /\ file'[h] = file[h] + 1
      BY <1>2, <2>3 DEF CopyFile, Move, Store, TypeOK
    <3>2. \A i \in 1 .. 3 : i < file'[h] => i < file[h] \/ i = file[h]
      BY <1>1, <3>1
    <3>3. AtWorkOK(h)'
      BY <1>1, <2>1, <2>2, <3>1, <3>2 DEF AtWorkOK, AtWork, Live
    <3> QED
      BY <1>1, <2>1, <3>1, <3>3 DEF LaunchOK, NotSeenYet, CopiedOK, FailedOK, Live
  <2>4. CASE ~(file[h] < 3)
    <3>1. doing'[h] = "authorize" /\ file'[h] = 3
      BY <1>2, <2>4 DEF CopyFile, Move, Store, TypeOK
    <3>2. \A i \in 1 .. 3 : i < file[h] \/ i = file[h]
      BY <1>1, <2>4
    <3>3. AtWork(h) /\ ~disturbed[h] => exists = Files /\ copy'[h] = content
      <4> SUFFICES ASSUME AtWork(h), ~disturbed[h]
                   PROVE  exists = Files /\ copy'[h] = content
        OBVIOUS
      <4>1. \A i \in 1 .. 3 : /\ KeyFiles[i] \in exists
                              /\ copy'[h][KeyFiles[i]] = content[KeyFiles[i]]
        BY <2>2, <3>2
      <4>2. \A g \in Files : g \in exists /\ copy'[h][g] = content[g]
        BY <4>1 DEF KeyFiles, Files
      <4>3. DOMAIN copy'[h] = Files /\ DOMAIN content = Files /\ exists \subseteq Files
        BY <2>1 DEF Store, TypeOK
      <4>4. copy'[h] = [g \in Files |-> copy'[h][g]] /\ content = [g \in Files |-> content[g]]
        BY <2>1 DEF Store, TypeOK
      <4> QED
        BY <4>2, <4>3, <4>4
    <3>4. AtWorkOK(h)'
      BY <1>1, <2>1, <2>2, <3>1, <3>3 DEF AtWorkOK, AtWork, Live
    <3> QED
      BY <1>1, <2>1, <3>1, <3>4 DEF LaunchOK, NotSeenYet, CopiedOK, FailedOK, Live
  <2> QED
    BY <2>3, <2>4
<1>3. CASE f \notin exists
  <2>1. outcome'[h] = "error" /\ UNCHANGED <<doing, file, copy>>
    BY <1>3 DEF CopyFile, End, Store, TypeOK
  <2>2. seen[h] => disturbed[h]
    BY <1>1, <1>3 DEF LaunchOK, AtWorkOK, AtWork
  <2> QED
    BY <1>1, <2>1, <2>2
    DEF LaunchOK, AtWorkOK, AtWork, NotSeenYet, CopiedOK, FailedOK, Live
<1> QED
  BY <1>2, <1>3

LEMMA AuthorizeKeyKeepsOwn ==
  ASSUME Store, NEW h \in Hooks, LaunchOK(h), AuthorizeKey(h)
  PROVE  LaunchOK(h)'
<1>1. /\ UNCHANGED <<exists, content, doing, seen, disturbed>>
      /\ AtWork(h) /\ doing[h] = "authorize"
      /\ outcome'[h] = "copied"
      /\ \A k \in Keygens : outcome'[k] = outcome[k]
  <2>1. \A k \in Keygens : k # h
    BY SshKeysAssumption DEF SshKeysAssumption
  <2> QED
    BY <2>1 DEF AuthorizeKey, AtWork, End, store, Store, TypeOK
<1>2. NoneBroke' => NoneBroke
  BY <1>1 DEF NoneBroke
<1>3. AtWorkOK(h)' /\ NotSeenYet(h)' /\ FailedOK(h)'
  BY <1>1 DEF AtWorkOK, AtWork, Live, LaunchOK, NotSeenYet, FailedOK
<1>4. CopiedOK(h)'
  <2> SUFFICES ASSUME ~disturbed[h]
               PROVE  /\ copy'[h]["authorized"] \ {UserKey} \subseteq copy'[h]["id"]
                      /\ NoneBroke' => \E k \in Keygens :
                           /\ copy'[h]["host"] = {k}
                           /\ copy'[h]["id"] = {k}
                           /\ copy'[h]["authorized"] \ {UserKey} = {k}
    BY <1>1 DEF CopiedOK
  <2>1. lock = NoOwner /\ exists = Files /\ copy[h] = content
    BY <1>1 DEF LaunchOK, AtWorkOK
  <2>2. /\ copy'[h]["host"] = content["host"]
        /\ copy'[h]["id"] = content["id"]
        /\ copy'[h]["authorized"] \ {UserKey} = content["authorized"]
    <3>1. content["authorized"] \subseteq Keygens /\ UserKey \notin Keygens
      BY SshKeysAssumption DEF Store, TypeOK, Files, SshKeysAssumption
    <3>2. CASE copy' = copy
      BY <2>1, <3>1, <3>2
    <3>3. CASE copy' = [copy EXCEPT ![h]["authorized"] = @ \cup {UserKey}]
      <4>1. copy'[h] = [content EXCEPT !["authorized"] = @ \cup {UserKey}]
        BY <2>1, <3>3 DEF Store, TypeOK
      <4> QED
        BY <3>1, <4>1 DEF Store, TypeOK, Files
    <3> QED
      BY <3>2, <3>3 DEF AuthorizeKey
  <2>3. content["authorized"] \subseteq content["id"]
    BY <2>1 DEF Store, AuthorizedIsOwn, Files
  <2>4. NoneBroke => \E k \in Keygens : \A f \in Files : content[f] = {k}
    BY <2>1 DEF Store, Resting, Whole, Files
  <2>5. NoneBroke' => \E k \in Keygens : /\ copy'[h]["host"] = {k}
                                        /\ copy'[h]["id"] = {k}
                                        /\ copy'[h]["authorized"] \ {UserKey} = {k}
    <3> SUFFICES ASSUME NoneBroke
                 PROVE  \E k \in Keygens :
                          /\ copy'[h]["host"] = {k}
                          /\ copy'[h]["id"] = {k}
                          /\ copy'[h]["authorized"] \ {UserKey} = {k}
      BY <1>2
    <3>1. PICK k \in Keygens : \A f \in Files : content[f] = {k}
      BY <2>4
    <3> QED
      BY <2>2, <3>1 DEF Files
  <2> QED
    BY <2>2, <2>3, <2>5
<1> QED
  BY <1>3, <1>4 DEF LaunchOK

LEMMA LaunchesStep == Store /\ Launches /\ [Next]_vars => Launches'
<1> SUFFICES ASSUME Store, Launches, [Next]_vars PROVE Launches'
  OBVIOUS
<1>1. TypeOK /\ TypeOK'
  BY TypeStep DEF Store
<1>2. NoneBroke' => NoneBroke
  BY <1>1, HealthOnlyWorsens
<1>3. ASSUME NEW k \in Keygens, GenerateSshKeys(k) PROVE Launches'
  BY <1>1, <1>2, <1>3, KeygenKeepsLaunches
<1>4. ASSUME NEW h \in Hooks, UseSshKeys(h) PROVE Launches'
  <2>1. LaunchOK(h)
    BY DEF Launches
  <2>2. LaunchOK(h)'
    BY <1>4, <2>1, StartKeepsOwn, CheckFileKeepsOwn, CopyFileKeepsOwn,
       AuthorizeKeyKeepsOwn
    DEF UseSshKeys
  <2>3. ASSUME NEW j \in Hooks \ {h} PROVE LaunchOK(j)'
    <3>1. LaunchOK(j)
      BY DEF Launches
    <3> QED
      BY <1>2, <1>4, <3>1, LaunchesAreSeparate
  <2> QED
    BY <2>2, <2>3 DEF Launches
<1>5. ASSUME NEW p \in Keygens \cup Hooks, Kill(p) PROVE Launches'
  BY <1>2, <1>5, KillKeepsLaunches
<1>6. CASE UNCHANGED vars
  BY <1>6
  DEF vars, Launches, LaunchOK, AtWorkOK, AtWork, Live, NotSeenYet, CopiedOK,
      FailedOK, NoneBroke
<1> QED
  BY <1>3, <1>4, <1>5, <1>6 DEF Next

LEMMA LaunchesCorrect == Spec => []Launches
BY StoreCorrect, LaunchesInit, LaunchesStep, PTL DEF Spec

(* A container set up while no keygen was at work, and after none has      *)
(* failed, gets three files that belong together                           *)
(* (copySshKeysIntoContainer).                                             *)
THEOREM CopiesAreWhole == Spec => []UndisturbedCopyIsWhole
<1>1. Launches => UndisturbedCopyIsWhole
  BY DEF Launches, LaunchOK, CopiedOK, UndisturbedCopyIsWhole
<1> QED
  BY <1>1, LaunchesCorrect, PTL

(* Whatever has failed before: a container set up while no keygen was at   *)
(* work authorizes no key but its own and the annotated one                *)
(* (copySshKeysIntoContainer).                                             *)
THEOREM CopiesMatch == Spec => []UndisturbedCopyMatches
<1>1. Launches => UndisturbedCopyMatches
  BY DEF Launches, LaunchOK, CopiedOK, UndisturbedCopyMatches
<1> QED
  BY <1>1, LaunchesCorrect, PTL

(* After a successful check-user-has-sshkeys, the copy fails for want of a *)
(* file only if a keygen was at work in between.                           *)
THEOREM CheckedLaunchesSucceed == Spec => []CheckedLaunchSucceeds
<1>1. Launches => CheckedLaunchSucceeds
  BY DEF Launches, LaunchOK, FailedOK, CheckedLaunchSucceeds
<1> QED
  BY <1>1, LaunchesCorrect, PTL

-----------------------------------------------------------------------------
(* The three files as one set of keys.                                     *)

LEMMA MakerIsUnique ==
  ASSUME NEW k \in Keygens, NEW files, AreOf(k, files)
  PROVE  (CHOOSE j \in Keygens : AreOf(j, files)) = k
<1>1. \A j \in Keygens : AreOf(j, files) => j = k
  BY DEF AreOf, Files
<1> QED
  BY <1>1

LEMMA WholeSetIsOfMaker ==
  ASSUME NEW k \in Keygens, NEW files, \A f \in Files : files[f] = {k}
  PROVE  AreOf(k, files)
BY SshKeysAssumption DEF AreOf, SshKeysAssumption

LEMMA KeysThere ==
  ASSUME Whole
  PROVE  CurrentKeys \in Keygens /\ AreOf(CurrentKeys, content)
<1>1. PICK k \in Keygens : \A f \in Files : content[f] = {k}
  BY DEF Whole
<1>2. AreOf(k, content)
  BY <1>1, WholeSetIsOfMaker
<1>3. CurrentKeys = k
  BY <1>2, MakerIsUnique DEF CurrentKeys
<1> QED
  BY <1>2, <1>3

\* What a launch has taken stays, and others take nothing meanwhile.
LEMMA TakenStays ==
  ASSUME NEW h \in Hooks, outcome[h] = "copied" <=> outcome'[h] = "copied",
         outcome[h] = "copied" =>
           copy'[h] = copy[h] /\ (disturbed'[h] <=> disturbed[h])
  PROVE  KeysTaken(h)' = KeysTaken(h)
BY DEF KeysTaken

LEMMA KeygensTakeNothing ==
  ASSUME Store, Launches, NEW k \in Keygens, GenerateSshKeys(k), NEW h \in Hooks
  PROVE  KeysTaken(h)' = KeysTaken(h)
<1>1. copy' = copy /\ outcome'[h] = outcome[h]
  BY KeygensDisturb
<1>2. disturbed'[h] <=> disturbed[h] \/ (Acquire(k) /\ AtWork(h))
  <2>1. CASE Acquire(k)
    BY <2>1 DEF Acquire
  <2>2. CASE ~Acquire(k)
    BY <2>2
    DEF GenerateSshKeys, CheckKeys, RemoveKey, RemoveDone, SshKeygen,
        PrintPublicKey, CreateAuthorizedKeys, AppendPublicKey, KeygenFails, hook
  <2> QED
    BY <2>1, <2>2
<1>3. outcome[h] = "copied" => ~AtWork(h)
  BY DEF AtWork, Live
<1> QED
  BY <1>1, <1>2, <1>3, TakenStays

\* Only the launch itself changes what it has taken, and only at its end.
LEMMA LaunchesTakeTheirOwn ==
  ASSUME Store, NEW h \in Hooks, UseSshKeys(h), NEW j \in Hooks,
         j # h \/ ~AuthorizeKey(h)
  PROVE  KeysTaken(j)' = KeysTaken(j)
<1> USE DEF Store, TypeOK
<1>1. CASE Start(h)
  BY <1>1, TakenStays DEF Start, Live
<1>2. CASE CheckFile(h)
  BY <1>2, TakenStays DEF CheckFile, End, Live
<1>3. CASE CopyFile(h)
  BY <1>3, TakenStays DEF CopyFile, End, Live
<1>4. CASE AuthorizeKey(h)
  <2>1. j # h /\ outcome'[j] = outcome[j] /\ disturbed' = disturbed
    BY <1>4 DEF AuthorizeKey, End
  <2>2. copy'[j] = copy[j]
    BY <1>4, <2>1 DEF AuthorizeKey
  <2> QED
    BY <2>1, <2>2, TakenStays
<1> QED
  BY <1>1, <1>2, <1>3, <1>4 DEF UseSshKeys

\* At its end, an undisturbed launch has taken the keys there are, if any.
LEMMA TakeStep ==
  ASSUME Store, Launches, NEW h \in Hooks, AuthorizeKey(h)
  PROVE  /\ KeysTaken(h) = NoOwner
         /\ KeysTaken(h)' # NoOwner => Whole /\ KeysTaken(h)' = CurrentKeys
<1>1. KeysTaken(h) = NoOwner
  BY DEF AuthorizeKey, Live, KeysTaken
<1>2. ASSUME KeysTaken(h)' # NoOwner PROVE Whole /\ KeysTaken(h)' = CurrentKeys
  <2>1. ~disturbed[h] /\ AtWork(h) /\ doing[h] = "authorize"
    BY <1>2 DEF AuthorizeKey, AtWork, KeysTaken
  <2>2. exists = Files /\ copy[h] = content
    BY <2>1 DEF Launches, LaunchOK, AtWorkOK
  <2>3. PICK k \in Keygens : AreOf(k, copy'[h])
    BY <1>2 DEF KeysTaken
  <2>4. \A f \in Files : copy'[h][f] \ {UserKey} = content[f]
    <3>1. \A f \in Files : content[f] \ {UserKey} = content[f]
      BY SshKeysAssumption DEF Store, TypeOK, SshKeysAssumption
    <3>2. CASE copy' = copy
      BY <2>2, <3>1, <3>2
    <3>3. CASE copy' = [copy EXCEPT ![h]["authorized"] = @ \cup {UserKey}]
      <4>1. copy'[h] = [content EXCEPT !["authorized"] = @ \cup {UserKey}]
        BY <2>2, <3>3 DEF Store, TypeOK
      <4>2. \A f \in Files :
              copy'[h][f] = IF f = "authorized" THEN content[f] \cup {UserKey}
                                                ELSE content[f]
        BY <4>1 DEF Store, TypeOK
      <4> QED
        BY <3>1, <4>2
    <3> QED
      BY <3>2, <3>3 DEF AuthorizeKey
  <2>5. \A f \in Files : content[f] = {k}
    BY <2>3, <2>4 DEF AreOf
  <2>6. Whole
    BY <2>2, <2>5 DEF Whole
  <2>7. CurrentKeys = k
    BY <2>5, <2>6, WholeSetIsOfMaker, MakerIsUnique DEF CurrentKeys
  <2>8. KeysTaken(h)' = k
    BY <1>2, <2>3, MakerIsUnique DEF KeysTaken
  <2> QED
    BY <2>6, <2>7, <2>8
<1> QED
  BY <1>1, <1>2

GeneratedBy == {k \in Keygens : outcome[k] = "generated"}

\* A keygen that is not at its last step makes no set of keys.
LEMMA HalfASetIsNone ==
  ASSUME Store, Store', NEW k \in Keygens, SshKeygen(k) \/ CreateAuthorizedKeys(k)
  PROVE  ~Whole /\ ~Whole'
<1>1. Live(k) /\ Stage(k) /\ Live(k)' /\ Stage(k)'
  BY DEF SshKeygen, CreateAuthorizedKeys, At, Proceed, Live, Store, Staged
<1>2. step[k] \in {"host", "id", "create"} /\ step'[k] \in {"id", "public", "append"}
  BY DEF SshKeygen, CreateAuthorizedKeys, At, Proceed, Store, TypeOK
<1> QED
  BY <1>1, <1>2 DEF Stage, Made, Whole, Files

LEMMA AppendMakesKeys ==
  ASSUME Store, Store', NEW k \in Keygens, AppendPublicKey(k)
  PROVE  /\ ~Whole
         /\ CurrentKeys' = k
         /\ k \notin GeneratedBy
         /\ GeneratedBy' = GeneratedBy \cup {k}
<1>1. Live(k) /\ Stage(k) /\ step[k] = "append"
  BY DEF AppendPublicKey, At, Store, Staged
<1>2. ~Whole
  BY <1>1 DEF Stage, Whole, Files
<1>3. exists' = Files /\ \A f \in Files : content'[f] = {k}
  BY <1>1 DEF AppendPublicKey, Write, Stage, Store, TypeOK, Files
<1>4. CurrentKeys' = k
  <2>1. Whole'
    BY <1>3 DEF Whole
  <2>2. AreOf(k, content')
    BY <1>3, WholeSetIsOfMaker
  <2> QED
    BY <2>1, <2>2, MakerIsUnique DEF CurrentKeys
<1>5. outcome'[k] = "generated" /\ \A j \in Keygens \ {k} : outcome'[j] = outcome[j]
  BY DEF AppendPublicKey, Leave, End, Store, TypeOK
<1> QED
  BY <1>1, <1>2, <1>4, <1>5 DEF GeneratedBy, Live

LEMMA RemovalEndsKeys ==
  ASSUME Store, NEW k \in Keygens, RemoveKey(k)
  PROVE  /\ ~Whole'
         /\ Whole => k \in Overwriting
         /\ k \notin GeneratedBy
         /\ UNCHANGED outcome
<1>1. Live(k) /\ Stage(k) /\ step[k] = "remove"
  BY DEF RemoveKey, At, Store, Staged
<1>2. exists' # Files
  BY DEF RemoveKey, Unlink, Store, TypeOK
<1> QED
  BY <1>1, <1>2 DEF Stage, Whole, GeneratedBy, Live, RemoveKey

\* The other steps of a keygen leave the keys alone.
LEMMA OtherKeygenSteps ==
  ASSUME Store, NEW k \in Keygens,
         \/ Acquire(k) \/ CheckKeys(k) \/ RemoveDone(k)
         \/ PrintPublicKey(k) \/ KeygenFails(k)
  PROVE  UNCHANGED <<exists, content, GeneratedBy>>
<1>1. UNCHANGED <<exists, content>>
  BY DEF Acquire, CheckKeys, RemoveDone, PrintPublicKey, KeygenFails, store
<1>2. \/ UNCHANGED outcome
      \/ Live(k) /\ End(k, "exists")
      \/ Live(k) /\ End(k, "error")
  BY DEF Acquire, CheckKeys, RemoveDone, PrintPublicKey, KeygenFails, At,
         Proceed, Leave
<1>3. UNCHANGED GeneratedBy
  <2> SUFFICES \A j \in Keygens : outcome'[j] = "generated" <=> outcome[j] = "generated"
    BY DEF GeneratedBy
  <2> QED
    BY <1>2 DEF Live, End, Store, TypeOK
<1> QED
  BY <1>1, <1>3

(* The keys of a user are one set, made at once where there is none,       *)
(* removed only by a keygen with --overwrite, and taken at once by the     *)
(* launches that no keygen disturbs: what copySshKeysIntoContainer relies  *)
(* on without a lock, and generateSshKeys protects with one.               *)
THEOREM ImplementsKeySetTheorem == Spec => ImplementsKeySet
<1> DEFINE Taken == [h \in Hooks |-> KeysTaken(h)]
<1>1. Init => Set!Init
  <2> SUFFICES ASSUME Init PROVE Set!Init
    OBVIOUS
  <2>1. ~Whole
    BY DEF Init, Whole, Files
  <2>2. \A h \in Hooks : outcome[h] = "none"
    BY DEF Init
  <2>3. \A h \in Hooks : KeysTaken(h) = NoOwner
    BY <2>2 DEF KeysTaken
  <2>4. \A k \in Keygens : outcome[k] = "none"
    BY DEF Init
  <2> QED
    BY <2>1, <2>3, <2>4 DEF Set!Init, CurrentKeys
<1>2. Store /\ Store' /\ Launches /\ [Next]_vars => [Set!Next]_(Set!vars)
  <2> SUFFICES ASSUME Store, Store', Launches, [Next]_vars
               PROVE  [Set!Next]_(Set!vars)
    OBVIOUS
  <2>s. UNCHANGED <<CurrentKeys, GeneratedBy, Taken>> => UNCHANGED Set!vars
    BY DEF Set!vars, GeneratedBy
  <2>k. Whole => CurrentKeys # NoOwner
    BY KeysThere, SshKeysAssumption DEF SshKeysAssumption
  <2>n. ~Whole => CurrentKeys = NoOwner
    BY DEF CurrentKeys
  <2>c. UNCHANGED <<exists, content>> => UNCHANGED CurrentKeys
    BY DEF CurrentKeys, Whole
  <2>t. (\A h \in Hooks : KeysTaken(h)' = KeysTaken(h)) => UNCHANGED Taken
    OBVIOUS
  <2>1. ASSUME NEW k \in Keygens, GenerateSshKeys(k)
        PROVE  Set!Make(k) \/ Set!Remove(k) \/ UNCHANGED Set!vars
    <3>1. UNCHANGED Taken
      BY <2>1, <2>t, KeygensTakeNothing
    <3>2. CASE AppendPublicKey(k)
      BY <2>n, <3>1, <3>2, AppendMakesKeys DEF Set!Make, GeneratedBy
    <3>3. CASE RemoveKey(k)
      <4>1. CurrentKeys' = NoOwner
        BY <3>3, RemovalEndsKeys DEF CurrentKeys
      <4>2. UNCHANGED GeneratedBy /\ k \notin GeneratedBy
        BY <3>3, RemovalEndsKeys DEF GeneratedBy
      <4>3. CASE Whole
        BY <2>k, <3>1, <3>3, <4>1, <4>2, <4>3, RemovalEndsKeys
        DEF Set!Remove, GeneratedBy
      <4>4. CASE ~Whole
        BY <2>n, <2>s, <3>1, <4>1, <4>2, <4>4
      <4> QED
        BY <4>3, <4>4
    <3>4. CASE SshKeygen(k) \/ CreateAuthorizedKeys(k)
      <4>1. CurrentKeys = NoOwner /\ CurrentKeys' = NoOwner
        BY <3>4, HalfASetIsNone DEF CurrentKeys
      <4>2. UNCHANGED GeneratedBy
        BY <3>4 DEF SshKeygen, CreateAuthorizedKeys, Proceed, GeneratedBy
      <4> QED
        BY <2>s, <3>1, <4>1, <4>2
    <3>5. CASE \/ Acquire(k) \/ CheckKeys(k) \/ RemoveDone(k)
               \/ PrintPublicKey(k) \/ KeygenFails(k)
      BY <2>c, <2>s, <3>1, <3>5, OtherKeygenSteps
    <3> QED
      BY <2>1, <3>2, <3>3, <3>4, <3>5 DEF GenerateSshKeys
  <2>2. ASSUME NEW h \in Hooks, UseSshKeys(h)
        PROVE  Set!Take(h) \/ UNCHANGED Set!vars
    <3>1. UNCHANGED CurrentKeys
      BY <2>2, <2>c, LaunchesLeaveStore DEF store
    <3>2. UNCHANGED GeneratedBy
      BY <2>2, LaunchesLeaveStore DEF GeneratedBy
    <3>3. CASE KeysTaken(h)' = KeysTaken(h)
      <4>1. UNCHANGED Taken
        BY <2>2, <2>t, <3>3, LaunchesTakeTheirOwn
      <4> QED
        BY <2>s, <3>1, <3>2, <4>1
    <3>4. CASE KeysTaken(h)' # KeysTaken(h)
      <4>1. AuthorizeKey(h)
        BY <2>2, <3>4, LaunchesTakeTheirOwn
      <4>2. /\ KeysTaken(h) = NoOwner
            /\ Whole /\ KeysTaken(h)' = CurrentKeys
        BY <3>4, <4>1, TakeStep
      <4>3. \A j \in Hooks \ {h} : KeysTaken(j)' = KeysTaken(j)
        BY <2>2, LaunchesTakeTheirOwn
      <4>4. Taken' = [Taken EXCEPT ![h] = CurrentKeys]
        BY <4>2, <4>3
      <4>5. CurrentKeys # NoOwner /\ Taken[h] = NoOwner
        BY <2>k, <4>2
      <4> QED
        BY <3>1, <3>2, <4>4, <4>5 DEF Set!Take, GeneratedBy
    <3> QED
      BY <3>3, <3>4
  <2>3. ASSUME NEW p \in Keygens \cup Hooks, Kill(p) PROVE UNCHANGED Set!vars
    <3>1. UNCHANGED <<exists, content, copy, disturbed>>
      BY <2>3 DEF Kill, store, hook
    <3>2. \A q \in Keygens \cup Hooks :
            outcome'[q] # outcome[q] =>
              outcome[q] = "none" /\ outcome'[q] = "killed"
      BY <2>3 DEF Kill, Live, End, Store, TypeOK
    <3>3. UNCHANGED Taken
      BY <2>t, <3>1, <3>2, TakenStays
    <3>4. UNCHANGED GeneratedBy
      <4>1. \A k \in Keygens : outcome'[k] = "generated" <=> outcome[k] = "generated"
        BY <3>2
      <4> QED
        BY <4>1 DEF GeneratedBy
    <3> QED
      BY <2>c, <2>s, <3>1, <3>3, <3>4
  <2>4. CASE UNCHANGED vars
    <3>1. UNCHANGED Taken
      BY <2>4, <2>t, TakenStays DEF vars
    <3> QED
      BY <2>4, <2>c, <2>s, <3>1 DEF vars, GeneratedBy
  <2> QED
    BY <2>1, <2>2, <2>3, <2>4 DEF Next, Set!Next
<1> QED
  BY <1>1, <1>2, StoreCorrect, LaunchesCorrect, PTL
  DEF Spec, ImplementsKeySet, Set!Spec
=============================================================================
