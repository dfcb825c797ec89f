--------------------------- MODULE MCAuthorSplit ---------------------------
(***************************************************************************)
(* Credits of up to three contributors out of seven: three authors behind  *)
(* one wallet, two authors with two, one who cannot be paid, two groups.   *)
(* Whole is divided by every sum of their weights, nested or not.  That    *)
(* the shares they resolve to make Whole is SplitAssumption.               *)
(***************************************************************************)
EXTENDS AuthorSplit

Leaf(a, w, n) == [authorId |-> a, wallet |-> w, weight |-> n, members |-> <<>>]
Group(n, ms) == [authorId |-> "group", wallet |-> NoWallet, weight |-> n, members |-> ms]

Contributors ==
  { Leaf("ann", 1, 1), Leaf("bob", 1, 2), Leaf("bob", 2, 1), Leaf("cid", 3, 2),
    Leaf("dan", NoWallet, 3),
    Group(2, <<Leaf("ann", 1, 1), Leaf("eve", 1, 2)>>),
    Group(1, <<Leaf("dan", NoWallet, 1), Leaf("cid", 3, 3), Leaf("eve", 4, 1)>>) }

MCPrices == {1, 2, 3, 4, 12}

(* Two wallets with half of the price each.  In binary floating point      *)
(* 1/12 + 1/12 + 4/12 is 1/2 and 4/12 + 1/12 + 1/12 is just below it.      *)
TiedCredits ==
  { <<Leaf("ann", 1, 1), Leaf("bob", 1, 1), Leaf("cid", 1, 4), Leaf("eve", 2, 6)>> }

MCCredits == UNION {[1..n -> Contributors] : n \in 1..3} \cup TiedCredits

=============================================================================
