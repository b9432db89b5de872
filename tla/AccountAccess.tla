---------------------------- MODULE AccountAccess ----------------------------
(***************************************************************************)
(* What the identity system promises about access: a session is given out  *)
(* only for an account that may be used, and the moment an account may no  *)
(* longer be used all its sessions end.  Which tables decide whether an    *)
(* account may be used, and in how many steps a login looks at them, does  *)
(* not matter here.                                                        *)
(***************************************************************************)
CONSTANTS Account,     \* accounts
          Session,     \* sessions
          NoAccount    \* not an account

VARIABLES usable,      \* the accounts that may be used
          granted      \* the account of each session given out

\* Sessions end: g is what remains of granted.
Remains(g) == \A s \in Session : g[s] \in {granted[s], NoAccount}

Init ==
    /\ usable \in SUBSET Account
    /\ granted = [s \in Session |-> NoAccount]

\* A login succeeds.
Grant(s) ==
    /\ granted[s] = NoAccount
    /\ \E a \in usable : granted' = [granted EXCEPT ![s] = a]
    /\ UNCHANGED usable

\* Sessions end, by logout, expiry, or a new password.
End ==
    /\ granted' \in [Session -> Account \cup {NoAccount}] /\ Remains(granted')
    /\ UNCHANGED usable

\* An account is locked, and its sessions end with it.
Lock(a) ==
    /\ a \in usable /\ usable' = usable \ {a}
    /\ granted' = [s \in Session |-> IF granted[s] = a THEN NoAccount ELSE granted[s]]

\* An account comes into use; it has no session yet.
Unlock(a) ==
    /\ a \notin usable /\ usable' = usable \cup {a}
    /\ \A s \in Session : granted[s] # a
    /\ UNCHANGED granted

Next == (\E s \in Session : Grant(s)) \/ End \/ (\E a \in Account : Lock(a) \/ Unlock(a))

Spec == Init /\ [][Next]_<<usable, granted>>
=============================================================================
