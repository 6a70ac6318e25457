------------------------ MODULE ConnectionLifecycle ------------------------
(***************************************************************************)
(* What the life of a connection amounts to, whatever handlers, webhooks   *)
(* and job runs do to bring it about: someone obtains a token at Meta, an  *)
(* ad account is connected with a token and belongs from then on to the    *)
(* user who obtained it, it is refreshed with tokens new to it, and it is  *)
(* disconnected only after Meta killed something of it.                    *)
(*                                                                         *)
(* The app and the person of a connection are not stored here: they are    *)
(* those its token was granted through.                                    *)
(***************************************************************************)
CONSTANTS Users, Apps, FbUsers, AdAccounts, Tokens, NULL

VARIABLES
    connections,  \* the connected ad accounts, each with owner, token, active
    granted,      \* the issued tokens, each with user, app and person
    dead,         \* the tokens Meta rejects
    held          \* history: every token an ad account was connected with

vars == <<connections, granted, dead, held>>

Grants == [user : Users, app : Apps \cup {NULL}, fb : FbUsers \cup {NULL}]

(* f, and x mapped to y. *)
With(f, x, y) == [z \in DOMAIN f \cup {x} |-> IF z = x THEN y ELSE f[z]]

Connection(owner, token, active) == [owner |-> owner, token |-> token, active |-> active]

Init ==
    /\ connections = [a \in {} |-> NULL]
    /\ granted = [t \in {} |-> NULL]
    /\ dead = {}
    /\ held = [a \in AdAccounts |-> {}]

(* Meta issues a token. *)
Obtain(t, grant) ==
    /\ t \notin DOMAIN granted
    /\ granted' = With(granted, t, grant)
    /\ UNCHANGED <<connections, dead, held>>

(* The first connect decides who owns the ad account. *)
Connect(a, t) ==
    /\ a \notin DOMAIN connections
    /\ t \in DOMAIN granted
    /\ connections' = With(connections, a, Connection(granted[t].user, t, TRUE))
    /\ held' = [held EXCEPT ![a] = @ \cup {t}]
    /\ UNCHANGED <<granted, dead>>

(* A later one replaces the token with one this ad account never had, and  *)
(* leaves the owner.                                                       *)
Refresh(a, t) ==
    /\ a \in DOMAIN connections
    /\ t \in DOMAIN granted
    /\ t \notin held[a]
    /\ connections' = With(connections, a, Connection(connections[a].owner, t, TRUE))
    /\ held' = [held EXCEPT ![a] = @ \cup {t}]
    /\ UNCHANGED <<granted, dead>>

(* Tokens s and t were granted by the same person through the same app. *)
SameGrant(s, t) ==
    /\ granted[s].app # NULL
    /\ granted[s].app = granted[t].app
    /\ granted[s].fb = granted[t].fb

(* Meta killed a token of this ad account, or one granted as its own was. *)
MayDisconnect(a) ==
    \E t \in dead : t \in held[a] \/ SameGrant(connections[a].token, t)

(* Ad accounts are disconnected, several at once when an app is revoked. *)
Disconnect(as) ==
    /\ as # {}
    /\ \A a \in as : connections[a].active /\ MayDisconnect(a)
    /\ connections' = [a \in DOMAIN connections |->
          IF a \in as THEN Connection(connections[a].owner, connections[a].token, FALSE)
          ELSE connections[a]]
    /\ UNCHANGED <<granted, dead, held>>

Die(ts) ==
    /\ dead' = dead \cup ts
    /\ UNCHANGED <<connections, granted, held>>

Next ==
    \/ \E t \in Tokens, grant \in Grants : Obtain(t, grant)
    \/ \E a \in AdAccounts, t \in Tokens : Connect(a, t) \/ Refresh(a, t)
    \/ \E as \in SUBSET DOMAIN connections : Disconnect(as)
    \/ \E ts \in SUBSET DOMAIN granted : Die(ts)

Spec == Init /\ [][Next]_vars

=============================================================================
