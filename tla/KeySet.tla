------------------------------- MODULE KeySet -------------------------------
(***************************************************************************)
(* What the SSH hook promises about the keys of a user: there is one set   *)
(* of keys or none.  A keygen makes a set once, and only where there is    *)
(* none; only a keygen with --overwrite removes one.  A container gets the *)
(* set there is, as if it copied all files at once.                        *)
(***************************************************************************)
CONSTANTS Keygens, Overwriting, Hooks, NoKeys

VARIABLES keys,  \* the keygen whose keys the user has, or NoKeys
          made,  \* the keygens that have made a set
          got    \* got[h]: the keys that launch h has taken, or NoKeys

vars == <<keys, made, got>>

Init == /\ keys = NoKeys
        /\ made = {}
        /\ got = [h \in Hooks |-> NoKeys]

Make(k) == /\ keys = NoKeys
           /\ k \notin made
           /\ keys' = k
           /\ made' = made \cup {k}
           /\ UNCHANGED got

Remove(k) == /\ keys # NoKeys
             /\ k \in Overwriting \ made
             /\ keys' = NoKeys
             /\ UNCHANGED <<made, got>>

Take(h) == /\ keys # NoKeys
           /\ got[h] = NoKeys
           /\ got' = [got EXCEPT ![h] = keys]
           /\ UNCHANGED <<keys, made>>

Next == \/ \E k \in Keygens : Make(k) \/ Remove(k)
        \/ \E h \in Hooks : Take(h)

Spec == Init /\ [][Next]_vars
=============================================================================
