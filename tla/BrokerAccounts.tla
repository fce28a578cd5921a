--------------------------- MODULE BrokerAccounts ---------------------------
(***************************************************************************)
(* A user's TradeLocker connections and accounts: app/storage/brokers.py,  *)
(* the routes of api/routes/platform.py that change them and the resolver  *)
(* of services/tradelocker/accounts.py.                                    *)
(*                                                                         *)
(* A route awaits the broker's account list and writes afterwards what it  *)
(* learned, over whatever other routes wrote meanwhile: an ask is such a   *)
(* wait.  One API process runs the routes, so the rest of a handler is one *)
(* action; a handler that makes two transactions may stop between them.    *)
(* Rows are never deleted.  A route stands for the server, base URL and    *)
(* environment of the stored credentials.                                  *)
(***************************************************************************)
EXTENDS Naturals

CONSTANTS
  Connections, Accounts,   \* rows, with the broker's pair of numbers
  ConnOf,                  \* the connection an account is listed under
  Routes,
  Asks,                    \* requests that await the broker
  None

ASSUME AccountsHaveConnections == ConnOf \in [Accounts -> Connections]
ASSUME NoneIsNothing == None \notin Connections \cup Accounts \cup Routes

VARIABLES
  status, needs, route,   \* broker_connections: status, needs_discovery_refresh, server ...
  selected,               \* broker_connections: account_id, account_number
  standing,               \* broker_accounts: available and broker_active in one
  enabled,                \* broker_accounts: locally_enabled
  default,                \* the accounts marked is_default_analysis
  asks

connections == <<status, needs, route>>
rows        == <<standing, enabled>>
broker      == <<connections, selected, rows, default, asks>>

Statuses  == {"absent", "active", "disabled", "reauthentication_required"}
Standings == {"none", "open", "shut"}   \* none: no row; shut: unlisted, or inactive at the broker

\* save: with new credentials; read: with the stored ones.
AskKinds == {"save", "read"}
AskType  == [kind : AskKinds, conn : Connections, route : Routes \cup {None}]

Exists(c) == status[c] # "absent"
Held(c)   == {a \in Accounts : ConnOf[a] = c}

\* get_connection without a reference: an active one, that of the default
\* account before others.  (Between equals the lower id; here any.)
HasDefault(c) == default \cap Held(c) # {}
Preferred(c) ==
  /\ status[c] = "active"
  /\ \A d \in Connections : status[d] = "active" /\ HasDefault(d) => HasDefault(c)

\* BrokerAccountResolver.resolve.
Resolves(a) == standing[a] = "open" /\ enabled[a] /\ status[ConnOf[a]] = "active"

BrokerInit ==
  /\ status = [c \in Connections |-> "absent"]
  /\ needs = [c \in Connections |-> FALSE]
  /\ route = [c \in Connections |-> None]
  /\ selected = [c \in Connections |-> None]
  /\ standing = [a \in Accounts |-> "none"]
  /\ enabled = [a \in Accounts |-> TRUE]
  /\ default = {}
  /\ asks = [k \in Asks |-> None]
-----------------------------------------------------------------------------
\* sync_accounts: the broker listed the accounts in seen, those in open as
\* active.  A row it did not list stays, unavailable.  The first row inserted
\* becomes the default if the user has none.
Listed(c, seen, open, a) ==
  IF ConnOf[a] # c \/ (a \notin seen /\ standing[a] = "none") THEN standing[a]
  ELSE IF a \in open THEN "open" ELSE "shut"

NewDefault(c, seen, d) ==
  LET new == {a \in seen : standing[a] = "none"}
  IN  IF default # {} \/ new = {} THEN d = default ELSE \E a \in new : d = {a}

SlipUnblocks(c) ==   \* a slip: the update of a listed row writes locally_enabled=1 too
  /\ \E seen \in SUBSET Held(c) : \E open \in SUBSET seen, d \in SUBSET Accounts :
       /\ standing' = [a \in Accounts |-> Listed(c, seen, open, a)]
       /\ NewDefault(c, seen, d) /\ default' = d
       /\ enabled' = [a \in Accounts |-> enabled[a] \/ a \in seen]
  /\ status' = [status EXCEPT ![c] = "active"]
  /\ needs' = [needs EXCEPT ![c] = FALSE]
  /\ UNCHANGED selected

SyncAccounts(c) ==
  /\ \E seen \in SUBSET Held(c) : \E open \in SUBSET seen, d \in SUBSET Accounts :
       /\ standing' = [a \in Accounts |-> Listed(c, seen, open, a)]
       /\ NewDefault(c, seen, d) /\ default' = d
  /\ status' = [status EXCEPT ![c] = "active"]
  /\ needs' = [needs EXCEPT ![c] = FALSE]
  /\ UNCHANGED <<selected, enabled>>

Ask(k, kind, c, r) ==
  /\ asks[k] = None
  /\ asks' = [asks EXCEPT ![k] = [kind |-> kind, conn |-> c, route |-> r]]
  /\ UNCHANGED <<connections, selected, rows, default>>

Answered(k, kinds) ==
  /\ asks[k] # None /\ asks[k].kind \in kinds
  /\ asks' = [asks EXCEPT ![k] = None]

\* save_credentials asks with the credentials of the request, for a connection
\* that exists or a new one.
BeginSave(k, c, r) == Ask(k, "save", c, r)

\* validated_onboarding_status and discover_accounts ask with the stored ones.
BeginOnboarding(k, c) == Preferred(c) /\ needs[c] /\ Ask(k, "read", c, route[c])
BeginDiscovery(k, c)  == status[c] = "active" /\ Ask(k, "read", c, route[c])

\* save_connection, then sync_accounts in a transaction of its own.
Saved(k) ==
  /\ Answered(k, {"save"})
  /\ LET c == asks[k].conn IN
     /\ route' = [route EXCEPT ![c] = asks[k].route]
     /\ SyncAccounts(c)
SavedOnly(k) ==   \* sync_accounts fails or the process stops before it
  /\ Answered(k, {"save"})
  /\ LET c == asks[k].conn IN
     /\ route' = [route EXCEPT ![c] = asks[k].route]
     /\ status' = [status EXCEPT ![c] = "active"]
     /\ needs' = [needs EXCEPT ![c] = TRUE]
  /\ UNCHANGED <<selected, rows, default>>

Discovered(k) ==
  /\ Answered(k, {"read"})
  /\ SyncAccounts(asks[k].conn)
  /\ UNCHANGED route

\* mark_reauthentication_required.
Rejected(k) ==
  /\ Answered(k, {"read"})
  /\ status' = [status EXCEPT ![asks[k].conn] = "reauthentication_required"]
  /\ needs' = [needs EXCEPT ![asks[k].conn] = FALSE]
  /\ UNCHANGED <<route, selected, rows, default>>

\* The broker is unavailable, or refuses new credentials: nothing is written.
Unanswered(k) ==
  /\ Answered(k, AskKinds)
  /\ UNCHANGED <<connections, selected, rows, default>>

\* set_default_account, in one transaction.
MakeDefault(a) ==
  /\ default' = {a}
  /\ selected' = [c \in Connections |-> IF c = ConnOf[a] THEN a ELSE None]

SetDefault(a) ==
  /\ standing[a] # "none"
  /\ MakeDefault(a)
  /\ UNCHANGED <<connections, rows, asks>>

SlipSelectsFirst(a) ==   \* a slip: the row is written with the selection, the default later
  /\ status[ConnOf[a]] = "active"
  /\ standing' = [standing EXCEPT ![a] = IF standing[a] = "none" THEN "open" ELSE @]
  /\ \/ MakeDefault(a)
     \/ selected' = [selected EXCEPT ![ConnOf[a]] = a] /\ UNCHANGED default
  /\ UNCHANGED <<connections, enabled, asks>>

\* select_account inserts a row the discovery never listed, and then makes the
\* account the default in another transaction, which it may not reach.
SelectAccount(a) ==
  /\ status[ConnOf[a]] = "active"
  /\ standing' = [standing EXCEPT ![a] = IF standing[a] = "none" THEN "open" ELSE @]
  /\ MakeDefault(a) \/ UNCHANGED <<default, selected>>
  /\ UNCHANGED <<connections, enabled, asks>>

DisableAccount(a) ==
  /\ standing[a] # "none"
  /\ enabled' = [enabled EXCEPT ![a] = FALSE]
  /\ UNCHANGED <<connections, selected, standing, default, asks>>

SetDisabled(c) ==
  /\ status' = [status EXCEPT ![c] = "disabled"]
  /\ UNCHANGED <<needs, route, selected, rows, default, asks>>
DisableConnection(c) == Exists(c) /\ SetDisabled(c)
DeleteConnection(c)  == Preferred(c) /\ SetDisabled(c)

Routed ==
  \/ \E k \in Asks, c \in Connections :
       BeginOnboarding(k, c) \/ BeginDiscovery(k, c) \/ \E r \in Routes : BeginSave(k, c, r)
  \/ \E k \in Asks : Saved(k) \/ SavedOnly(k) \/ Discovered(k) \/ Rejected(k) \/ Unanswered(k)
  \/ \E a \in Accounts : SetDefault(a) \/ SelectAccount(a) \/ DisableAccount(a)
  \/ \E c \in Connections : DisableConnection(c) \/ DeleteConnection(c)
-----------------------------------------------------------------------------
BrokerTypeOK ==
  /\ status \in [Connections -> Statuses] /\ needs \in [Connections -> BOOLEAN]
  /\ route \in [Connections -> Routes \cup {None}]
  /\ selected \in [Connections -> Accounts \cup {None}]
  /\ standing \in [Accounts -> Standings] /\ enabled \in [Accounts -> BOOLEAN]
  /\ default \subseteq Accounts
  /\ asks \in [Asks -> AskType \cup {None}]

\* docs/tradelocker-multi-account.md:11, "the user's single default analysis
\* account", is kept twice: as a flag of its row, of which an index allows one,
\* and as the selection in broker_connections for the older routes.  They never
\* disagree: no connection's selection names another account than the flagged
\* one, which has a row, wherever a handler stops between its transactions.
DefaultAgrees ==
  /\ \A a \in default : standing[a] # "none"
  /\ \A c \in Connections : selected[c] # None => selected[c] \in default /\ ConnOf[selected[c]] = c

\* docs/tradelocker-multi-account.md:25: discovery preserves the default
\* selection, and what it no longer lists is not deleted.  Nor does it undo a
\* local disabling: only an explicit selection moves a default.
DiscoveryPreserves ==
  [][ /\ \A a \in Accounts : /\ standing[a] # "none" => standing'[a] # "none"
                             /\ ~enabled[a] => ~enabled'[a]
      /\ default # {} => default' = default \/ selected' # selected ]_broker
=============================================================================
