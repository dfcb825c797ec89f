----------------------------- MODULE PriceSplit -----------------------------
(***************************************************************************)
(* How the price of a read is cut for its payees: their shares cut it to   *)
(* whole micro-units (splitMicro), the cuts fold onto wallets, and the     *)
(* largest wallet gates the read (splitAuthorLegs); the ledger of the      *)
(* attribution service cuts the same price again (expandCuts).             *)
(*                                                                         *)
(* A share is counted in parts of Whole, which stands for the share 1.     *)
(* Shares are floating point in the code, and the product of the price     *)
(* with a share that has no exact binary form may come out just below the  *)
(* whole number it is: a set of such cuts, `low`, is chosen with the price,*)
(* and a set of low totals with the primary.                               *)
(***************************************************************************)
EXTENDS Integers, Sequences, Functions, FiniteSetsExt

CONSTANTS PayeeLists,  \* what articles' credits resolve to
          Prices,      \* prices to try, in micro-units
          Whole,       \* the share 1
          NoWallet

(* Wallets are numbers: addresses are ordered.                             *)
Payee == [authorId : STRING, wallet : Nat, share : Nat]

ASSUME SplitAssumption ==
  /\ Whole \in Nat \ {0} /\ Prices \subseteq Nat \ {0}
  /\ \A list \in PayeeLists :
       /\ list \in Seq(Payee) /\ list # <<>>
       /\ SumFunctionOnSet([i \in DOMAIN list |-> list[i].share], DOMAIN list) = Whole

VARIABLES payees, price, cuts, ledger, legs
splitVars == <<payees, price, cuts, ledger, legs>>

-----------------------------------------------------------------------------
(* Wallets.                                                                *)

(* Cuts, or shares, folded onto the wallets they go to.                    *)
FoldByWallet(list, parts) ==
  [w \in {list[i].wallet : i \in DOMAIN list} |->
     SumFunctionOnSet(parts, {i \in DOMAIN list : list[i].wallet = w})]

WalletTotals(list) == FoldByWallet(list, [i \in DOMAIN list |-> list[i].share])

(* Adding shares commutes but does not associate: the total of three or    *)
(* more depends on their order.                                            *)
MayTotalLow(list) ==
  {w \in {list[i].wallet : i \in DOMAIN list} :
     Quantify(DOMAIN list, LAMBDA i : list[i].wallet = w) >= 3}

(* The wallet of the largest total; of equals, the lowest address.  `low`  *)
(* are the wallets whose total came out below the sum it stands for.       *)
PrimaryPayee(list, low) ==
  LET totals == WalletTotals(list)
      best == {w \in DOMAIN totals : \A v \in DOMAIN totals : totals[v] <= totals[w]}
  IN Min(IF best \subseteq low THEN best ELSE best \ low)

-----------------------------------------------------------------------------
(* Cutting a price.                                                        *)

Share(micro, p) == (micro * p.share) \div Whole

(* Whether the product may come out low: it is whole, the share not dyadic.*)
MayBeLow(micro, p) ==
  /\ micro * p.share >= Whole
  /\ (micro * p.share) % Whole = 0
  /\ (1024 * p.share) % Whole # 0

Floors(micro, list, low) ==
  [i \in DOMAIN list |-> Share(micro, list[i]) - (IF i \in low THEN 1 ELSE 0)]

Left(micro, floors) == micro - SumFunctionOnSet(floors, DOMAIN floors)

(* The place of i when the floors are sorted, largest first, stably.       *)
Rank(floors, i) ==
  Quantify(DOMAIN floors, LAMBDA j : floors[j] > floors[i] \/ (floors[j] = floors[i] /\ j < i))

(* Mutant: the remainder goes to the first of them.                        *)
SplitMicroToFirst(micro, list, low) ==
  LET floors == Floors(micro, list, low)
  IN [i \in DOMAIN list |->
       floors[i] + (IF Rank(floors, i) = 0 THEN Left(micro, floors) ELSE 0)]

(* The remainder is dealt round and round, from the largest.               *)
SplitMicro(micro, list, low) ==
  LET floors == Floors(micro, list, low)
      dealt(i) == Quantify(0..(Left(micro, floors) - 1),
                           LAMBDA k : k % Len(list) = Rank(floors, i))
  IN [i \in DOMAIN list |-> floors[i] + dealt(i)]

(* Mutant: the remainder goes out in the order of the payees.              *)
ExpandCutsUnsorted(micro, list, low) ==
  LET floors == Floors(micro, list, low)
  IN [i \in DOMAIN list |-> floors[i] + (IF i - 1 < Left(micro, floors) THEN 1 ELSE 0)]

(* expandCuts deals it once.                                               *)
ExpandCuts(micro, list, low) ==
  LET floors == Floors(micro, list, low)
  IN [i \in DOMAIN list |->
       floors[i] + (IF Rank(floors, i) < Left(micro, floors) THEN 1 ELSE 0)]

(* Mutant: the last author of a wallet is what the wallet gets.            *)
LegsUnfolded(list, parts, low) ==
  LET primary == PrimaryPayee(list, low)
      last(w) == parts[Max({i \in DOMAIN list : list[i].wallet = w})]
      wallets == {list[i].wallet : i \in DOMAIN list}
  IN [primary |-> primary, amount |-> last(primary),
      coauthors |-> {[payTo |-> w, amount |-> last(w)] :
                     w \in {v \in wallets \ {primary} : last(v) > 0}}]

(* One leg for each other wallet that gets something.                      *)
CoauthorLegs(perWallet, primary) ==
  {[payTo |-> w, amount |-> perWallet[w]] :
     w \in {v \in DOMAIN perWallet \ {primary} : perWallet[v] > 0}}

(* splitAuthorLegs: a leg for the primary and the coauthors' legs.         *)
SplitAuthorLegs(list, parts, low) ==
  LET primary == PrimaryPayee(list, low)
      perWallet == FoldByWallet(list, parts)
  IN [primary |-> primary, amount |-> perWallet[primary],
      coauthors |-> CoauthorLegs(perWallet, primary)]

-----------------------------------------------------------------------------

NoLegs == [primary |-> NoWallet, amount |-> 0, coauthors |-> {}]

SplitInit ==
  /\ payees \in PayeeLists
  /\ price = 0 /\ cuts = <<>> /\ ledger = <<>> /\ legs = NoLegs

(* A 402 is built, paid, and the event it leaves is cut for the ledger.    *)
Split ==
  /\ price = 0
  /\ \E p \in Prices :
       \E low \in SUBSET {i \in DOMAIN payees : MayBeLow(p, payees[i])} :
         /\ price' = p
         /\ cuts' = SplitMicro(p, payees, low)
         /\ ledger' = ExpandCuts(p, payees, low)
  /\ \E low \in SUBSET MayTotalLow(payees) : legs' = SplitAuthorLegs(payees, cuts', low)
  /\ UNCHANGED payees

SplitSpec == SplitInit /\ [][Split]_splitVars

-----------------------------------------------------------------------------
(* Properties.                                                             *)

IsSplit == price # 0

(* The legs make the price exactly, "no dust created or lost"              *)
(* (splitAuthorLegs), though wallets are shared, cuts of nothing are       *)
(* dropped and products come out low.                                      *)
LegsMakePrice ==
  IsSplit =>
    legs.amount
      + SumFunctionOnSet([l \in legs.coauthors |-> l.amount], legs.coauthors) = price

(* No author is more than one micro-unit from the share the credits give   *)
(* (splitMicro).                                                           *)
EveryoneNearShare ==
  IsSplit => \A i \in DOMAIN payees :
               LET off == cuts[i] * Whole - price * payees[i].share
               IN -Whole <= off /\ off <= Whole

(* What the ledger says a wallet is owed is what its leg pays: two copies  *)
(* of the arithmetic, in two packages, agree (splitAuthorLegs, expandCuts).*)
LedgerMatchesLegs ==
  IsSplit =>
    LET owed == FoldByWallet(payees, ledger)
    IN owed[legs.primary] = legs.amount /\ CoauthorLegs(owed, legs.primary) = legs.coauthors

=============================================================================
