------------------------------ MODULE MCConsent ------------------------------
(* Instances for the runs of Accounts and Consent: the accounts by themselves, *)
(* or the consent flow around an account that has signed up already, may be    *)
(* confirmed, and may go.                                                      *)
EXTENDS Consent, TLC

VARIABLE focus

SignedUp(e, p) ==
  [email |-> e, password |-> p, confirmed |-> FALSE, confirm |-> "unset",
   reset |-> None, resetLive |-> FALSE, by |-> "signup"]

MCInit ==
  /\ ConsentInit
  /\ session = [s \in Sessions |-> Unused]
  /\ issued = {}
  /\ redeemed = [k \in ResetTokens |-> 0]
  /\ call = [c \in Calls |-> Free]
  /\ \/ focus = "accounts" /\ row = [i \in Ids |-> Absent]
     \/ /\ focus = "consent"
        /\ \E i \in Ids, e \in Emails, p \in Passwords :
             row = [j \in Ids |-> IF j = i THEN SignedUp(e, p) ELSE Absent]

MCNext ==
  /\ UNCHANGED focus
  /\ \/ focus = "accounts" /\ Next /\ UNCHANGED consent
     \/ /\ focus = "consent"
        /\ \/ ConsentStep /\ UNCHANGED vars
           \/ MintGrant
           \/ \E g \in Grants : RevokeGrant(g)
           \/ (Migrate \/ \E i \in Ids : Delete(i)) /\ UNCHANGED consent

MCSpec == MCInit /\ [][MCNext]_<<all, focus>>

Symmetry == Permutations(Ids) \cup Permutations(Calls) \cup Permutations(Flows)
              \cup Permutations(Grants) \cup Permutations(Codes)
=============================================================================
