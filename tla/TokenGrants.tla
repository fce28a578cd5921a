---------------------------- MODULE TokenGrants ----------------------------
(***************************************************************************)
(* What the authorization server promises about one grant: it opens once   *)
(* with the scopes the user agreed to, may be renewed with the same scopes *)
(* or fewer, and once it ends it never opens again.                        *)
(***************************************************************************)
CONSTANTS Grants, Scopes

VARIABLES phase,    \* of a grant: "unopened", "open", "ended"
          agreed    \* its scopes

gvars == <<phase, agreed>>

Init == /\ phase = [g \in Grants |-> "unopened"]
        /\ agreed = [g \in Grants |-> {}]

Open(g, S) ==
  /\ phase[g] = "unopened"
  /\ S # {}
  /\ phase' = [phase EXCEPT ![g] = "open"]
  /\ agreed' = [agreed EXCEPT ![g] = S]

Renew(g, S) ==
  /\ phase[g] = "open"
  /\ S # {} /\ S \subseteq agreed[g]
  /\ agreed' = [agreed EXCEPT ![g] = S]
  /\ UNCHANGED phase

End(g) ==
  /\ phase[g] = "open"
  /\ phase' = [phase EXCEPT ![g] = "ended"]
  /\ agreed' = [agreed EXCEPT ![g] = {}]

Next == \E g \in Grants : \/ \E S \in SUBSET Scopes : Open(g, S) \/ Renew(g, S)
                          \/ End(g)

Spec == Init /\ [][Next]_gvars
=============================================================================
