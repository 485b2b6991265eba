---------------------------- MODULE MCCatalogue ----------------------------
(* Small instances of Catalogue.                                            *)
EXTENDS Catalogue, TLC

Post(s, e) == [state |-> "live", starts |-> s, ends |-> e]

SmallPosts == {Post(0, 1), Post(1, 2), Post(2, 3)}
SmallWindows == {[from |-> 0, to |-> 9], [from |-> 1, to |-> 2]}

CatalogueSymmetry == Permutations(Keys)
=============================================================================
