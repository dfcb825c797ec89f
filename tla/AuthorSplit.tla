---------------------------- MODULE AuthorSplit ----------------------------
(***************************************************************************)
(* Who is paid for an article: its credits, which may nest, are flattened  *)
(* to the shares of payees that PriceSplit cuts prices by (resolvePayees). *)
(* The weights of an instance divide Whole, so that shares are exact.      *)
(***************************************************************************)
EXTENDS PriceSplit, SequencesExt

CONSTANTS Credits    \* the credits graphs to try: sequences of contributors

(* A contributor is [authorId, wallet, weight, members]; one with members  *)
(* has no wallet of its own.                                               *)

RECURSIVE IsPayable(_)
IsPayable(c) ==
  IF c.members # <<>> THEN \E m \in ToSet(c.members) : IsPayable(m) ELSE c.wallet # NoWallet

SumOf(s, F(_)) == MapThenSumSet(LAMBDA i : F(s[i]), DOMAIN s)

Payable(contributors) == SelectSeq(contributors, IsPayable)

TotalWeight(contributors) == SumOf(Payable(contributors), LAMBDA c : c.weight)

(* A group passes its share down to its members.                          *)
RECURSIVE ResolveContributors(_, _)
ResolveContributors(contributors, parent) ==
  LET payable == Payable(contributors)
      share(c) == (c.weight * parent) \div TotalWeight(contributors)
  IN FlattenSeq([i \in DOMAIN payable |->
       LET c == payable[i]
       IN IF c.members # <<>> THEN ResolveContributors(c.members, share(c))
          ELSE <<[authorId |-> c.authorId, wallet |-> c.wallet, share |-> share(c)]>>])

(* The distinct keys of s in the order first seen.                         *)
Keys(s, K(_)) ==
  FoldLeft(LAMBDA seen, x : IF Contains(seen, K(x)) THEN seen ELSE Append(seen, K(x)), <<>>, s)

(* The values of s added up by key.                                        *)
AddUp(s, key, K(_), V(_)) == SumOf(SelectSeq(s, LAMBDA x : K(x) = key), V)

(* One payee for each author and wallet.                                   *)
ResolvePayees(contributors) ==
  LET raw == ResolveContributors(contributors, Whole)
      who(p) == [authorId |-> p.authorId, wallet |-> p.wallet]
      keys == Keys(raw, who)
  IN [i \in DOMAIN keys |->
       [authorId |-> keys[i].authorId, wallet |-> keys[i].wallet,
        share |-> AddUp(raw, keys[i], who, LAMBDA p : p.share)]]

(* Credits in which nobody can be paid resolve to nobody: a free read.     *)
ResolvedPayees ==
  {ResolvePayees(c) : c \in {c \in Credits : \E i \in DOMAIN c : IsPayable(c[i])}}

=============================================================================
