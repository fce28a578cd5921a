--------------------------- MODULE ProfileCapital ---------------------------
(***************************************************************************)
(* The execution profiles of one account and what of its equity each may   *)
(* use: app/storage/brokers.py, the capital allocation of                  *)
(* models/execution_profile_v2.py and authorized_capital of                *)
(* services/trading_policy.py.                                             *)
(*                                                                         *)
(* A profile is native once a PATCH wrote its profile_v2_json; before that  *)
(* it has the default allocation, the full account.  The handlers run to    *)
(* their end without an await in the one API process: each is one action.   *)
(***************************************************************************)
EXTENDS Integers, FiniteSets, FiniteSetsExt

CONSTANTS
  Profiles,
  Allocations,    \* the allocations an owner may save
  Equities,       \* what the broker may report
  MaxEdits        \* bound on the owner's requests

AllocationType ==
  [mode : {"full_account", "fixed_amount", "equity_percentage"}, value : Nat,
   onCapital : BOOLEAN,     \* risk_base = allocated_capital
   shared : BOOLEAN, compounds : BOOLEAN]
Default == [mode |-> "full_account", value |-> 0, onCapital |-> FALSE,
            shared |-> FALSE, compounds |-> FALSE]

ASSUME AllocationsAreValid ==
  /\ Default \in Allocations /\ Allocations \subseteq AllocationType
  /\ \A a \in Allocations : a.mode = "equity_percentage" => a.value <= 100
ASSUME EquitiesAreAmounts == Equities \subseteq Nat \ {0} /\ MaxEdits \in Nat
ASSUME ProfilesAreFinite == IsFiniteSet(Profiles)

VARIABLES
  rows,           \* the profiles that have a row
  enabled, native,
  alloc,          \* capital_allocation, as list_profiles reports it
  edits, revived  \* history: requests so far, and whether a PUT enabled a profile

profiles == <<rows, enabled, native, alloc, edits, revived>>

ProfileInit ==
  /\ rows = Profiles   \* just created, or seeded by the migration
  /\ edits = 0 /\ revived = FALSE
  /\ enabled = [p \in Profiles |-> TRUE]
  /\ native = [p \in Profiles |-> FALSE]
  /\ alloc = [p \in Profiles |-> Default]
-----------------------------------------------------------------------------
Capped(q, x) == IF x < 0 THEN 0 ELSE IF x > q THEN q ELSE x
Granted(q, a) ==
  CASE a.mode = "fixed_amount" -> a.value
    [] a.mode = "equity_percentage" -> (q * a.value) \div 100
    [] a.mode = "full_account" -> q
SlipUnclamped(q, a, pnl) == Granted(q, a) + (IF a.compounds THEN pnl ELSE 0)   \* a slip: no min
Authorized(q, a, pnl) == Capped(q, Granted(q, a) + (IF a.compounds THEN pnl ELSE 0))

Resolves(p) == p \in rows /\ enabled[p]

\* The native enabled profiles other than p whose capital is their own.
Peers(p) == {o \in rows \ {p} : enabled[o] /\ native[o] /\ ~alloc[o].shared}

\* The check of update_profile_v2, of an allocation against the peers' ones.
ShareOf(a) == IF a.mode = "equity_percentage" THEN a.value ELSE 0
SharesOf(S) == SumFunctionOnSet([o \in Profiles |-> ShareOf(alloc[o])], S)
SlipSharesOnly(p, a) ==   \* a slip: a full account may stand beside others
  a.shared \/ ShareOf(a) + SharesOf(Peers(p)) <= 100
Allowed(p, a) ==
  \/ a.shared
  \/ /\ ShareOf(a) + SharesOf(Peers(p)) <= 100
     /\ Peers(p) # {} => /\ a.mode # "full_account"
                         /\ \A o \in Peers(p) : alloc[o].mode # "full_account"

\* validate_profile_capital: what the enabled profiles hold of an equity.
Claimed(p, q) ==
  LET own == {o \in {p} \cap rows : enabled[o] /\ ~alloc[o].shared}
  IN  SumFunctionOnSet([o \in Profiles |-> Authorized(q, alloc[o], 0)], own \cup Peers(p))
Fits(p, q) == p \in rows /\ Claimed(p, q) <= q
-----------------------------------------------------------------------------
Edit == edits < MaxEdits /\ edits' = edits + 1

CreateProfile(p) ==
  /\ p \notin rows
  /\ Edit /\ rows' = rows \cup {p}
  /\ enabled' = [enabled EXCEPT ![p] = TRUE]
  /\ native' = [native EXCEPT ![p] = FALSE]
  /\ alloc' = [alloc EXCEPT ![p] = Default]
  /\ UNCHANGED revived

\* update_profile_v2.  What the patch leaves out, enabled too, comes from
\* profile_v2_json and not from the column that a PUT wrote: the column gets
\* either value.
UpdateProfileV2(p) ==
  \E a \in Allocations, e \in BOOLEAN :
    /\ p \in rows /\ Allowed(p, a)
    /\ Edit
    /\ alloc' = [alloc EXCEPT ![p] = a]
    /\ enabled' = [enabled EXCEPT ![p] = e]
    /\ native' = [native EXCEPT ![p] = TRUE]
    /\ UNCHANGED <<rows, revived>>

\* update_profile: the column alone, without a check of the allocations.
UpdateProfile(p) ==
  /\ p \in rows
  /\ Edit /\ enabled' = [enabled EXCEPT ![p] = ~@]
  /\ revived' = (revived \/ ~enabled[p])
  /\ UNCHANGED <<rows, native, alloc>>

DeleteProfile(p) ==
  /\ p \in rows
  /\ Edit /\ rows' = rows \ {p}
  /\ UNCHANGED <<enabled, native, alloc, revived>>

ProfileStep ==
  \E p \in Profiles :
    CreateProfile(p) \/ UpdateProfileV2(p) \/ UpdateProfile(p) \/ DeleteProfile(p)
-----------------------------------------------------------------------------
ProfileTypeOK ==
  /\ rows \subseteq Profiles
  /\ enabled \in [Profiles -> BOOLEAN] /\ native \in [Profiles -> BOOLEAN]
  /\ alloc \in [Profiles -> Allocations]
  /\ edits \in 0..MaxEdits /\ revived \in BOOLEAN

\* tests/unit/test_execution_profile_v2.py:176, "multiple profiles cannot
\* overallocate equity".  The check of a patch knows no equity and the check of
\* an entry knows only the equity of its moment; they agree: shares of the
\* equity saved by any patches, in any order, never stop an entry, whatever the
\* equity.  (Fixed amounts may, and so may a PUT that enables a profile again.)
SharesFit ==
  (~revived /\ \A p \in rows : alloc[p].mode # "fixed_amount") =>
    \A p \in rows, q \in Equities : native[p] /\ enabled[p] => Fits(p, q)
=============================================================================
