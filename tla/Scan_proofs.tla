----------------------------- MODULE Scan_proofs -----------------------------
(***************************************************************************)
(* What the first page of a scan holds, and what it leaves out.            *)
(***************************************************************************)
EXTENDS Scan, FiniteSetTheorems, TLAPS

\* There is a page to answer with, whatever is found: all of it may fit.
LEMMA PageExists ==
    ASSUME NEW found, NEW hash, NEW least
    PROVE  found \in FirstPages(found, hash, least)
BY DEF FirstPages

\* A page that leaves a key out is full.
LEMMA PageIsFull ==
    ASSUME NEW found, NEW hash, NEW least, NEW page \in FirstPages(found, hash, least),
           NEW k \in found, k \notin page
    PROVE  Cardinality(page) >= least
BY DEF FirstPages

\* What is left out comes after all that is not.
LEMMA OmittedComeAfter ==
    ASSUME NEW found, NEW hash, \A i \in found : hash[i] \in Nat, NEW least,
           NEW page \in FirstPages(found, hash, least),
           NEW k \in found, k \notin page, NEW j \in page
    PROVE  hash[j] <= hash[k]
BY DEF FirstPages

\* What is no more than fits a page at least is all on the page.
LEMMA WholePage ==
    ASSUME NEW found, IsFiniteSet(found), NEW hash, NEW least \in Nat,
           Cardinality(found) <= least, NEW page \in FirstPages(found, hash, least)
    PROVE  page = found
<1>1. page \in SUBSET found /\ (page = found \/ Cardinality(page) >= least)
    BY DEF FirstPages
<1>2. /\ Cardinality(found) \in Nat /\ IsFiniteSet(page) /\ Cardinality(page) \in Nat
      /\ Cardinality(page) <= Cardinality(found)
      /\ Cardinality(found) = Cardinality(page) => found = page
    BY <1>1, FS_Subset, FS_CardinalityType
<1> QED
    BY <1>1, <1>2

\* Two answers differ only in how far they go, if no two keys share a place:
\* what one scan lists and another does not is the end of the longer page.
LEMMA PagesAreNested ==
    ASSUME NEW found, NEW hash, \A i \in found : hash[i] \in Nat, NEW least,
           \A j, k \in found : hash[j] = hash[k] => j = k,
           NEW one \in FirstPages(found, hash, least),
           NEW two \in FirstPages(found, hash, least)
    PROVE  one \subseteq two \/ two \subseteq one
<1> SUFFICES ASSUME NEW j \in one, j \notin two, NEW k \in two, k \notin one
             PROVE  FALSE
    OBVIOUS
<1>1. one \subseteq found /\ two \subseteq found
    BY DEF FirstPages
<1>2. hash[j] <= hash[k] /\ hash[k] <= hash[j]
    BY <1>1, OmittedComeAfter
<1> QED
    BY <1>1, <1>2

=============================================================================
