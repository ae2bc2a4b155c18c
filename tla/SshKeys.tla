------------------------------ MODULE SshKeys ------------------------------
(***************************************************************************)
(* The SSH keys a user has on the host (src/ssh/SshHook.cpp): a directory  *)
(* with three files that belong together, the server's key, the client's   *)
(* key, and the public half of the client's key as authorized_keys.        *)
(*                                                                         *)
(* "keygen" processes replace the files under a lock.  The processes that  *)
(* set up containers take no lock: "check-user-has-sshkeys" looks for the  *)
(* files one by one, and "start-ssh-daemon" copies them one by one.        *)
(*                                                                         *)
(* A key is abstracted to the keygen process that made it; the content of  *)
(* a file is the set of keys in it (authorized_keys can be empty).  The    *)
(* grain of atomicity is one operation on one file.                        *)
(***************************************************************************)
EXTENDS Integers, FiniteSets

CONSTANTS Keygens,      \* processes that run "ssh_hook keygen"
          Overwriting,  \* those with the option --overwrite
          Failing,      \* those whose dropbearkey may fail or print no key
          Hooks,        \* container launches that need the keys
          WithUserKey,  \* those annotated with an extra public key
          Killable,     \* processes that may die at any point
          UserKey,      \* the key named in the annotation
          NoOwner       \* the owner of a free lock

ASSUME SshKeysAssumption ==
  /\ Overwriting \subseteq Keygens
  /\ Failing \subseteq Keygens
  /\ WithUserKey \subseteq Hooks
  /\ Killable \subseteq Keygens \cup Hooks
  /\ Keygens \cap Hooks = {}
  /\ UserKey \notin Keygens
  /\ NoOwner \notin Keygens

\* The order in which userHasSshKeys and copySshKeysIntoContainer proceed.
KeyFiles == <<"host", "id", "authorized">>
Files == {"host", "id", "authorized"}

VARIABLES
  lock,       \* the keygen that holds the lockfile, or NoOwner
  exists,     \* the files that exist in the keys directory
  content,    \* content[f]: the keys in file f
  step,       \* step[k]: what keygen k does next
  output,     \* output[k]: the public key that dropbearkey printed for k
  doing,      \* doing[h]: what container launch h is doing
  file,       \* file[h]: the index in KeyFiles of the file it does it to
  copy,       \* copy[h][f]: the keys in the container's copy of f
  outcome,    \* how a process ended ("none": it has not)
  seen,       \* history: h's check found all three files
  disturbed   \* history: a keygen held the lock while h was at work

store == <<exists, content>>
keygen == <<lock, step, output>>
hook == <<doing, file, copy, seen, disturbed>>
vars == <<lock, exists, content, step, output, doing, file, copy, outcome,
          seen, disturbed>>

TypeOK ==
  /\ lock \in Keygens \cup {NoOwner}
  /\ exists \in SUBSET Files
  /\ content \in [Files -> SUBSET Keygens]
  /\ step \in [Keygens -> {"lock", "check", "remove", "host", "id", "public",
                           "create", "append"}]
  /\ output \in [Keygens -> SUBSET Keygens]
  /\ doing \in [Hooks -> {"start", "check", "copy", "authorize"}]
  /\ file \in [Hooks -> 1 .. 3]
  /\ copy \in [Hooks -> [Files -> SUBSET (Keygens \cup {UserKey})]]
  /\ outcome \in [Keygens \cup Hooks ->
                    {"none", "generated", "exists", "error", "missing",
                     "copied", "killed"}]
  /\ seen \in [Hooks -> BOOLEAN]
  /\ disturbed \in [Hooks -> BOOLEAN]

Init ==
  /\ lock = NoOwner
  /\ exists = {}
  /\ content = [f \in Files |-> {}]
  /\ step = [k \in Keygens |-> "lock"]
  /\ output = [k \in Keygens |-> {}]
  /\ doing = [h \in Hooks |-> "start"]
  /\ file = [h \in Hooks |-> 1]
  /\ copy = [h \in Hooks |-> [f \in Files |-> {}]]
  /\ outcome = [p \in Keygens \cup Hooks |-> "none"]
  /\ seen = [h \in Hooks |-> FALSE]
  /\ disturbed = [h \in Hooks |-> FALSE]

Live(p) == outcome[p] = "none"

End(p, how) == outcome' = [outcome EXCEPT ![p] = how]

AtWork(h) == Live(h) /\ doing[h] # "start"

-----------------------------------------------------------------------------
(* generateSshKeys.                                                        *)

At(k, s) == Live(k) /\ step[k] = s

Proceed(k, s) == step' = [step EXCEPT ![k] = s] /\ UNCHANGED outcome

\* The destructor of the lock runs however the function is left.
Leave(k, how) == End(k, how) /\ lock' = NoOwner /\ UNCHANGED step

\* File f now holds the keys ks.
Write(f, ks) ==
  /\ exists' = exists \cup {f}
  /\ content' = [content EXCEPT ![f] = ks]

Unlink(f) ==
  /\ exists' = exists \ {f}
  /\ content' = [content EXCEPT ![f] = {}]

(* Operators named Bad... are faulty variants of the one that follows      *)
(* them; no specification uses them.  They check that the properties fail  *)
(* when the code is wrong.                                                 *)

\* The existence of the keys is checked before the lock is taken.
BadAcquire(k) ==
  /\ \/ /\ At(k, "lock")
        /\ ~(exists = Files /\ k \notin Overwriting)
        /\ Proceed(k, "check")
        /\ UNCHANGED <<lock, disturbed>>
     \/ /\ At(k, "check")
        /\ lock = NoOwner
        /\ lock' = k
        /\ disturbed' = [h \in Hooks |-> disturbed[h] \/ AtWork(h)]
        /\ Proceed(k, "remove")
  /\ UNCHANGED <<store, output, doing, file, copy, seen>>

\* The lock is not taken at all.
BadNoLock(k) ==
  /\ At(k, "lock")
  /\ Proceed(k, "check")
  /\ UNCHANGED <<lock, store, output, hook>>

(* createFoldersIfNecessary, then the lock, waited for without a timeout.  *)
Acquire(k) ==
  /\ At(k, "lock")
  /\ lock = NoOwner
  /\ lock' = k
  /\ disturbed' = [h \in Hooks |-> disturbed[h] \/ AtWork(h)]
  /\ Proceed(k, "check")
  /\ UNCHANGED <<store, output, doing, file, copy, seen>>

UserHasSshKeys == exists = Files

CheckKeys(k) ==
  /\ At(k, "check")
  /\ IF UserHasSshKeys /\ k \notin Overwriting
     THEN Leave(k, "exists")
     ELSE Proceed(k, "remove") /\ UNCHANGED lock
  /\ UNCHANGED <<store, output, hook>>

(* remove_all unlinks the files one at a time, in directory order.         *)
RemoveKey(k) ==
  /\ At(k, "remove")
  /\ \E f \in exists : Unlink(f)
  /\ UNCHANGED <<keygen, hook, outcome>>

\* An old authorized_keys is kept and appended to.
BadRemoveDone(k) ==
  /\ At(k, "remove")
  /\ Proceed(k, "host")
  /\ UNCHANGED <<store, lock, output, hook>>

RemoveDone(k) ==
  /\ At(k, "remove")
  /\ exists = {}
  /\ Proceed(k, "host")
  /\ UNCHANGED <<store, lock, output, hook>>

(* Twice sshKeygen: the server's key and the client's.                     *)
SshKeygen(k) ==
  /\ \/ At(k, "host") /\ Write("host", {k}) /\ Proceed(k, "id")
     \/ At(k, "id") /\ Write("id", {k}) /\ Proceed(k, "public")
  /\ UNCHANGED <<lock, output, hook>>

(* generateAuthorizedKeys: dropbearkey prints the public half of the       *)
(* client's key, an empty authorized_keys is created, and the key is       *)
(* appended to it.                                                         *)
PrintPublicKey(k) ==
  /\ At(k, "public")
  /\ output' = [output EXCEPT ![k] = content["id"]]
  /\ Proceed(k, "create")
  /\ UNCHANGED <<store, lock, hook>>

CreateAuthorizedKeys(k) ==
  /\ At(k, "create")
  /\ Write("authorized", content["authorized"])
  /\ Proceed(k, "append")
  /\ UNCHANGED <<lock, output, hook>>

AppendPublicKey(k) ==
  /\ At(k, "append")
  /\ Write("authorized", content["authorized"] \cup output[k])
  /\ Leave(k, "generated")
  /\ UNCHANGED <<output, hook>>

(* executeCommand throws when dropbearkey fails; when its output has no    *)
(* line with a key, generateAuthorizedKeys throws after having created the *)
(* file.                                                                   *)
KeygenFails(k) ==
  /\ k \in Failing
  /\ \E s \in {"host", "id", "public", "append"} : At(k, s)
  /\ Leave(k, "error")
  /\ UNCHANGED <<store, output, hook>>

-----------------------------------------------------------------------------
(* checkUserHasSshKeys and copySshKeysIntoContainer.                       *)

Move(h, d, i) == /\ doing' = [doing EXCEPT ![h] = d]
                 /\ file' = [file EXCEPT ![h] = i]

\* The copy starts with the wrong file.
BadStart(h) ==
  /\ Live(h)
  /\ doing[h] = "start"
  /\ Move(h, "check", 1) \/ Move(h, "copy", 0)
  /\ disturbed' = [disturbed EXCEPT ![h] = lock # NoOwner]
  /\ UNCHANGED <<store, keygen, copy, seen, outcome>>

(* The engine may or may not run check-user-has-sshkeys before the hook.   *)
Start(h) ==
  /\ Live(h)
  /\ doing[h] = "start"
  /\ Move(h, "check", 1) \/ Move(h, "copy", 1)
  /\ disturbed' = [disturbed EXCEPT ![h] = lock # NoOwner]
  /\ UNCHANGED <<store, keygen, copy, seen, outcome>>

\* authorized_keys is not among the files looked for.
BadCheckFile(h) ==
  /\ Live(h)
  /\ doing[h] = "check"
  /\ IF KeyFiles[file[h]] \in exists
     THEN /\ IF file[h] < 2
             THEN Move(h, "check", file[h] + 1) /\ UNCHANGED seen
             ELSE Move(h, "copy", 1) /\ seen' = [seen EXCEPT ![h] = TRUE]
          /\ UNCHANGED outcome
     ELSE End(h, "missing") /\ UNCHANGED <<doing, file, seen>>
  /\ UNCHANGED <<store, keygen, copy, disturbed>>

(* One iteration of the loop of userHasSshKeys.                            *)
CheckFile(h) ==
  /\ Live(h)
  /\ doing[h] = "check"
  /\ IF KeyFiles[file[h]] \in exists
     THEN /\ IF file[h] < 3
             THEN Move(h, "check", file[h] + 1) /\ UNCHANGED seen
             ELSE Move(h, "copy", 1) /\ seen' = [seen EXCEPT ![h] = TRUE]
          /\ UNCHANGED outcome
     ELSE End(h, "missing") /\ UNCHANGED <<doing, file, seen>>
  /\ UNCHANGED <<store, keygen, copy, disturbed>>

CopyFile(h) ==
  /\ Live(h)
  /\ doing[h] = "copy"
  /\ LET f == KeyFiles[file[h]]
     IN  IF f \in exists
         THEN /\ copy' = [copy EXCEPT ![h][f] = content[f]]
              /\ IF file[h] < 3 THEN Move(h, "copy", file[h] + 1)
                                ELSE Move(h, "authorize", 3)
              /\ UNCHANGED outcome
         ELSE End(h, "error") /\ UNCHANGED <<doing, file, copy>>
  /\ UNCHANGED <<store, keygen, seen, disturbed>>

(* authorizePublicKey appends the key of the annotation to the container's *)
(* copy; a public key file that cannot be read is silently skipped.        *)
AuthorizeKey(h) ==
  /\ Live(h)
  /\ doing[h] = "authorize"
  /\ \/ UNCHANGED copy
     \/ /\ h \in WithUserKey
        /\ copy' = [copy EXCEPT ![h]["authorized"] = @ \cup {UserKey}]
  /\ End(h, "copied")
  /\ UNCHANGED <<store, keygen, doing, file, seen, disturbed>>

-----------------------------------------------------------------------------
(* A process dies between two operations.  Whether the lock of a dead      *)
(* keygen is released is up to libsarus; both are considered.              *)
Kill(p) ==
  /\ p \in Killable
  /\ Live(p)
  /\ End(p, "killed")
  /\ \/ UNCHANGED lock
     \/ lock = p /\ lock' = NoOwner
  /\ UNCHANGED <<store, step, output, hook>>

GenerateSshKeys(k) ==
  \/ Acquire(k) \/ CheckKeys(k) \/ RemoveKey(k) \/ RemoveDone(k)
  \/ SshKeygen(k) \/ PrintPublicKey(k) \/ CreateAuthorizedKeys(k)
  \/ AppendPublicKey(k) \/ KeygenFails(k)

UseSshKeys(h) == Start(h) \/ CheckFile(h) \/ CopyFile(h) \/ AuthorizeKey(h)

Next == \/ \E k \in Keygens : GenerateSshKeys(k)
        \/ \E h \in Hooks : UseSshKeys(h)
        \/ \E p \in Keygens \cup Hooks : Kill(p)

Spec == Init /\ [][Next]_vars

FairSpec == /\ Spec
            /\ \A k \in Keygens : WF_vars(GenerateSshKeys(k))
            /\ \A h \in Hooks : WF_vars(UseSshKeys(h))

-----------------------------------------------------------------------------
(* The three files are there and were made by one keygen.                  *)
Whole == exists = Files /\ \E k \in Keygens : \A f \in Files : content[f] = {k}

\* No keygen has failed or died half-way.
NoneBroke == \A k \in Keygens : outcome[k] \notin {"error", "killed"}

(* When no keygen is at work, and none has failed or died, the directory   *)
(* holds a whole set of keys or nothing: the keys "protected from          *)
(* concurrent writes" by the lock.                                         *)
RestingKeysAreWhole == lock = NoOwner /\ NoneBroke => exists = {} \/ Whole

(* However a keygen ends, it gives the lock back, unless it is killed and  *)
(* its destructors do not run.                                             *)
OnlyDeathKeepsTheLock ==
  lock # NoOwner => Live(lock) \/ outcome[lock] = "killed"

(* A keygen that declines because keys "already exist" leaves behind a set *)
(* of keys that works.                                                     *)
RefusalMeansWhole ==
  [][\A k \in Keygens : Live(k) /\ outcome'[k] = "exists" => Whole]_vars

(* Without --overwrite, nobody ever touches a working set of keys, however *)
(* many keygens race for it, fail or die.                                  *)
WithoutOverwriteKeysStay ==
  [][Whole /\ (\A k \in Overwriting : ~Live(k))
       => UNCHANGED <<exists, content>>]_vars

(* A container set up while no keygen is at work, and after none has       *)
(* failed, gets three matching files, and nothing but the annotated key    *)
(* besides.                                                                *)
UndisturbedCopyIsWhole ==
  \A h \in Hooks : outcome[h] = "copied" /\ ~disturbed[h] /\ NoneBroke =>
    \E k \in Keygens : /\ copy[h]["host"] = {k}
                       /\ copy[h]["id"] = {k}
                       /\ copy[h]["authorized"] \ {UserKey} = {k}

(* Even when keygens have failed or died half-way: a container authorizes  *)
(* no client key but the one it has itself, unless a keygen was at work    *)
(* while the files were being copied.                                      *)
UndisturbedCopyMatches ==
  \A h \in Hooks : outcome[h] = "copied" /\ ~disturbed[h] =>
    copy[h]["authorized"] \ {UserKey} \subseteq copy[h]["id"]

(* A launch whose check succeeded fails for want of a key file only if a   *)
(* keygen was at work between the check and the copy.                      *)
CheckedLaunchSucceeds ==
  \A h \in Hooks : outcome[h] = "error" /\ seen[h] => disturbed[h]

\* The refinement mapping: what a keygen leaves that fails or dies is no set.
AreOf(k, files) == \A f \in Files : files[f] \ {UserKey} = {k}

CurrentKeys == IF Whole THEN CHOOSE k \in Keygens : AreOf(k, content) ELSE NoOwner

KeysTaken(h) ==
  IF outcome[h] = "copied" /\ ~disturbed[h] /\ \E k \in Keygens : AreOf(k, copy[h])
  THEN CHOOSE k \in Keygens : AreOf(k, copy[h])
  ELSE NoOwner

Set == INSTANCE KeySet
         WITH keys <- CurrentKeys,
              made <- {k \in Keygens : outcome[k] = "generated"},
              got <- [h \in Hooks |-> KeysTaken(h)],
              NoKeys <- NoOwner

(* The three files together behave as one set of keys, which keygens make  *)
(* and remove at once (generateSshKeys) and containers take at once, if no *)
(* keygen is at work meanwhile (copySshKeysIntoContainer).                 *)
ImplementsKeySet == Set!Spec

(* Every keygen gets its turn, and in the end the user has working keys,   *)
(* unless a keygen fails or dies.                                          *)
UserEndsUpWithKeys ==
  <>[](~NoneBroke \/ (Whole /\ \A k \in Keygens : ~Live(k)))
=============================================================================
