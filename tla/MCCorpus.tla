------------------------------- MODULE MCCorpus -------------------------------
(* Instances of Corpus for TLC. *)
EXTENDS Corpus, TLC

CONSTANTS a, b,     \* names
          c1, c2    \* clients

\* a link to one name or none, for the runs about histories; links to every
\* name or none
LinkTo(n)    == {[raw |-> n, rel |-> r] : r \in Rels}
FewContents  == {{}, LinkTo(a)}
TwoContents  == {{}, Links}

\* everyone may write everywhere, or c2 only in one branch
FullGrants   == [c \in Clients |-> Branches]
ScopedGrants == [c \in Clients |-> IF c = c1 THEN Branches ELSE {"open"}]

\* Without reads: no base version, which is for the runs about histories.
LinksNext == \E c \in Clients : CallStep(c)
LinksSpec == Init /\ [][LinksNext]_vars

\* Addresses are interchangeable, and clients when their grants are equal.
Symmetry == Permutations(Ids)
===============================================================================
