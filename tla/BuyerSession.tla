---------------------------- MODULE BuyerSession ----------------------------
(***************************************************************************)
(* One session of the buying agent's MCP server: its tool calls run        *)
(* concurrently, the two that spend take turns behind one lock, and they   *)
(* share a budget, a count of paid reads per host and a store of held      *)
(* licences (wayfarer-mcp/src/server.ts, wayfarer/src/agent.ts, decide.ts, *)
(* paidFetch.ts, buyer.ts, licenseStore.ts).                               *)
(*                                                                         *)
(* Publishers, their gates and the discovery source are outside and not    *)
(* trusted: each probe quotes any toll, each request is served, refused or *)
(* cut, and a list of candidates is any list of pages.  A toll is the      *)
(* author's leg and the total of all legs.  A licence is the page it was   *)
(* bought for, and leaves every copy of the store when it expires.         *)
(***************************************************************************)
EXTENDS Integers, Sequences, FiniteSets, FiniteSetsExt

CONSTANTS Calls,       \* tool calls the client may have open at once
          Pages, Hosts,
          HostOf,      \* the host each page is served from
          SlugOf,      \* the slug each page is listed under
          Gate,        \* the host of the configured gate
          Tolls,       \* the tolls a gate may quote: [author, total]
          Periods,     \* pages the buyer bought a licence period for
          Bound,       \* pages whose licences are bound to the buyer's key (cnf)
          Forbidden,   \* pages whose published terms do not grant ai-input
          Denied,      \* denyDomains
          Finds,       \* sets of hosts one discovery may find
          FleetDefault,\* discovery is the untouched fleet default
          Ceiling,     \* WAYFARER_BUDGET_USDC
          Tolerance,   \* WAYFARER_TOLL_TOLERANCE_BPS of each total
          Cap,         \* perDomainCap
          Approval,    \* approvalThresholdUsdc
          Budgets,     \* budgets a research call may name
          MaxPaid,     \* maxPaid
          MaxListed,   \* bound on the candidates of one discovery
          MaxCalls,    \* bound on the spending calls of the session
          None

ASSUME BuyerAssumption ==
  /\ HostOf \in [Pages -> Hosts] /\ Gate \in Hosts /\ Denied \subseteq Hosts
  /\ Finds \subseteq SUBSET Hosts
  /\ DOMAIN SlugOf = Pages
  /\ \A t \in Tolls : t.author \in Nat /\ t.total \in Nat /\ t.author <= t.total
  /\ {Periods, Bound, Forbidden} \subseteq SUBSET Pages
  /\ Ceiling \in Nat /\ Cap \in Nat
  /\ Tolerance \in [{t.total : t \in Tolls} -> Nat]
  /\ \A t \in Tolls : t.total = 0 => Tolerance[t.total] = 0
  /\ Approval \in Nat /\ MaxPaid \in Nat /\ Budgets \subseteq Nat
  /\ MaxListed \in Nat /\ MaxCalls \in Nat
  /\ FleetDefault \in BOOLEAN
  /\ None \notin Pages

VARIABLES
  spent,      \* spentUsdc
  paidByHost, \* paid reads of the session per host
  discovered, \* lastDiscoveredHosts
  paid,       \* history: reads of each host that were signed for and sent
  lost,       \* history: those of them whose call failed or threw uncounted
  held,       \* live licences in the store
  chain,      \* spendChain: the calls that wait for the lock, the holder first
  job,        \* what each call is doing
  made        \* bounds the spending calls

session == <<spent, paidByHost, discovered, paid, lost>>
sessionVars == <<session, held, chain, job, made>>

NoJob == [at |-> "idle", page |-> None, seen |-> {}, presented |-> "no",
          quote |-> 0, ceiling |-> 0, due |-> 0,
          budget |-> 0, spent |-> 0, plan |-> <<>>, pos |-> 1, got |-> {}]

SessionInit ==
  /\ spent = 0 /\ made = 0
  /\ paidByHost = [h \in Hosts |-> 0] /\ paid = paidByHost /\ lost = paidByHost
  /\ discovered = {}
  /\ held \in SUBSET Pages
  /\ chain = <<>>
  /\ job = [c \in Calls |-> NoJob]

Least(a, b) == IF a <= b THEN a ELSE b
Remaining == IF spent <= Ceiling THEN Ceiling - spent ELSE 0

\* what may be signed for a read that was quoted so much
Authorized(quote) == quote + Tolerance[quote]

-----------------------------------------------------------------------------
(* Policy: whom the session may pay, and how much.                         *)

\* the domains a page's host must be in; Hosts stands for "no list stated"
TrustedBy(hosts) == IF FleetDefault /\ hosts # {} THEN hosts \cup {Gate} ELSE Hosts

\* without a stated list the target must be the gate itself
AuthorizedOrigin(p, hosts) ==
  HostOf[p] = Gate \/ (FleetDefault /\ hosts # {})

MayReach(p, hosts) ==
  /\ AuthorizedOrigin(p, hosts)
  /\ HostOf[p] \notin Denied
  /\ HostOf[p] \in TrustedBy(hosts)

\* the price-dependent half of spendGate; count is the pays made to the host
SpendGate(p, price, count, remaining) ==
  /\ p \notin Forbidden
  /\ count < Cap
  /\ price <= remaining
  /\ price < Approval

-----------------------------------------------------------------------------
(* History: the reads a call has paid for and the session not yet counted. *)

\* the pays of a run that were sent to a host, the one under way among them
SentTo(call, h) ==
  {i \in call.got \cup (IF call.at = "bought" THEN {call.pos} ELSE {}) :
     call.plan[i].act = "pay" /\ HostOf[call.plan[i].page] = h}

Uncounted(call, h) ==
  Cardinality(SentTo(call, h)) + (IF call.at = "sent" /\ HostOf[call.page] = h THEN 1 ELSE 0)

PaysOneMore(p) == paid' = [paid EXCEPT ![HostOf[p]] = @ + 1]

\* the call fails or throws: no counter is told of what it paid for
LosesCount(c) ==
  /\ lost' = [h \in Hosts |-> lost[h] + Uncounted(job[c], h)]
  /\ UNCHANGED <<spent, paidByHost, discovered, paid>>

-----------------------------------------------------------------------------
(* The lock.                                                               *)

\* Mutant: no turns are taken.
HoldsAlways(c) == c \in Range(chain)

Holds(c) == chain # <<>> /\ Head(chain) = c

\* a call returns, or throws, and the next in line runs
Return(c) ==
  /\ job' = [job EXCEPT ![c] = NoJob]
  /\ chain' = Tail(chain)

Become(c, new) == job' = [job EXCEPT ![c] = new]

CallPay(c) ==
  /\ job[c].at = "idle" /\ made < MaxCalls
  /\ \E p \in Pages : Become(c, [NoJob EXCEPT !.at = "pay", !.page = p])
  /\ chain' = Append(chain, c)
  /\ made' = made + 1
  /\ UNCHANGED <<session, held>>

\* Mutant: the call waits for the chain without having joined it.
CallResearchUnchained(c) ==
  /\ job[c].at = "idle" /\ made < MaxCalls
  /\ \E asked \in Budgets : Become(c, [NoJob EXCEPT !.at = "research", !.budget = asked])
  /\ made' = made + 1
  /\ UNCHANGED <<session, held, chain>>

CallResearch(c) ==
  /\ job[c].at = "idle" /\ made < MaxCalls
  /\ \E asked \in Budgets : Become(c, [NoJob EXCEPT !.at = "research", !.budget = asked])
  /\ chain' = Append(chain, c)
  /\ made' = made + 1
  /\ UNCHANGED <<session, held>>

\* naulon_discover: free, outside the lock
Discover ==
  /\ discovered' \in Finds \ {discovered}
  /\ UNCHANGED <<spent, paidByHost, paid, lost, held, chain, job, made>>

-----------------------------------------------------------------------------
(* naulon_pay_and_read.                                                    *)

\* Mutant: the held licences are loaded and only then not looked at.
BeginPayUnread(c) ==
  /\ job[c].at = "pay" /\ Holds(c)
  /\ IF ~MayReach(job[c].page, discovered)
     THEN Return(c)
     ELSE /\ \E seen \in {held, {}} : Become(c, [job[c] EXCEPT !.seen = seen, !.at = "period"])
          /\ UNCHANGED chain
  /\ UNCHANGED <<session, held, made>>

\* origin check, then the held licences: one bound to the key is not presented
\* here, and a fault of the store means "pay"
BeginPay(c) ==
  /\ job[c].at = "pay" /\ Holds(c)
  /\ IF ~MayReach(job[c].page, discovered)
     THEN Return(c)
     ELSE /\ \E seen \in {held, {}} :
               Become(c, [job[c] EXCEPT !.seen = seen,
                            !.at = IF job[c].page \in seen \ Bound THEN "present" ELSE "period"])
          /\ UNCHANGED chain
  /\ UNCHANGED <<session, held, made>>

\* the held licence is served, the site cannot serve it, or the call goes on to pay
Served(c) == job[c].at = "present" /\ Return(c) /\ UNCHANGED <<session, held, made>>

Refused(c) ==
  /\ job[c].at = "present"
  /\ \E how \in {"refused", "cut"} :
       Become(c, [job[c] EXCEPT !.presented = how, !.at = "period"])
  /\ UNCHANGED <<session, held, chain, made>>

\* a purchased period ends the call whatever the publisher answers; a lookup fault does not
AskPeriod(c) ==
  /\ job[c].at = "period"
  /\ \/ job[c].page \in Periods /\ Return(c)
     \/ Become(c, [job[c] EXCEPT !.at = "probe"]) /\ UNCHANGED chain
  /\ UNCHANGED <<session, held, made>>

\* the first probe prices the read, spendGate decides
Quote(c) ==
  LET p == job[c].page IN
  /\ job[c].at = "probe"
  /\ \/ Return(c)
     \/ \E t \in Tolls :
          IF SpendGate(p, t.total, paidByHost[HostOf[p]], Remaining)
          THEN /\ Become(c, [job[c] EXCEPT !.at = "fetch", !.quote = t.total,
                                           !.ceiling = Authorized(t.total)])
               /\ UNCHANGED chain
          ELSE Return(c)
  /\ UNCHANGED <<session, held, made>>

\* buyer.fetch: probe again, refuse a toll above the ceiling, sign, send
Send(c) ==
  /\ job[c].at = "fetch"
  /\ \E t \in Tolls :
       /\ t.total <= job[c].ceiling
       /\ Become(c, [job[c] EXCEPT !.at = "sent", !.due = t.total])
  /\ PaysOneMore(job[c].page)
  /\ UNCHANGED <<spent, paidByHost, discovered, lost, held, chain, made>>

\* not gated, toll moved, payee or signer refused; or sent and not delivered
FetchFails(c) ==
  /\ job[c].at \in {"fetch", "sent"}
  /\ Return(c) /\ LosesCount(c)
  /\ UNCHANGED <<held, made>>

\* the page came back: debit, and keep the licence it carries
Delivered(c) ==
  LET p == job[c].page IN
  /\ job[c].at = "sent"
  /\ spent' = spent + job[c].due
  /\ paidByHost' = [paidByHost EXCEPT ![HostOf[p]] = @ + 1]
  /\ Become(c, [job[c] EXCEPT !.at = "keep", !.due = 0])
  /\ UNCHANGED <<discovered, paid, lost, held, chain, made>>

\* load and save the store: its fault is swallowed, and there may be no licence
Keep(c) ==
  /\ job[c].at = "keep"
  /\ held' \in {held, held \cup {job[c].page}}
  /\ Return(c)
  /\ UNCHANGED <<session, made>>

PayAndRead(c) ==
  \/ CallPay(c) \/ BeginPay(c) \/ Served(c) \/ Refused(c) \/ AskPeriod(c) \/ Quote(c)
  \/ Send(c) \/ FetchFails(c) \/ Delivered(c) \/ Keep(c)

-----------------------------------------------------------------------------
(* naulon_research: run() plans on the author's price, then buys in order.  *)

Slugs(pages) == {SlugOf[p] : p \in pages}
PagesOf(list) == {list[i].page : i \in DOMAIN list}

\* which listing of each slug was priced last
PricedLast(ps) ==
  LET I == DOMAIN ps
  IN {last \in [I -> I] :
        \A i, j \in I : /\ SlugOf[ps[last[i]]] = SlugOf[ps[i]]
                        /\ SlugOf[ps[i]] = SlugOf[ps[j]] => last[i] = last[j]}

\* the priced candidates, best first; quotedTotals has one entry per slug, the
\* one priced last (quoted is history: all totals of the slug); relevance decides
\* which are wanted
Listing(ps, ts, wanted, last) ==
  [i \in DOMAIN ps |->
     [page |-> ps[i], wanted |-> i \in wanted, author |-> ts[i].author,
      quoted |-> {ts[j].total : j \in {k \in DOMAIN ps : SlugOf[ps[k]] = SlugOf[ps[i]]}},
      quote |-> ts[last[i]].total]]

ListingsOf(n) ==
  UNION {{Listing(ps, ts, wanted, last) :
            ts \in [1..n -> Tolls], wanted \in SUBSET (1..n), last \in PricedLast(ps)} :
         ps \in [1..n -> Pages]}

Listings == UNION {ListingsOf(n) : n \in 0..MaxListed}

\* what the plan thinks it spends: the author's price of each
Planned(list, taken) == MapThenSumSet(LAMBDA j : list[j].author, taken)

\* Mutant: the plan counts its own pays and forgets the session's.
TakesFresh(list, licensed, budget, taken, i) ==
  LET before == {j \in taken : j < i}
  IN /\ SlugOf[list[i].page] \notin licensed
     /\ list[i].wanted /\ Cardinality(before) < MaxPaid
     /\ SpendGate(list[i].page, list[i].author, Cardinality(before), budget - Planned(list, before))

\* decide(), for one candidate: no held licence by slug, and every gate passed on
\* the author's price, after those taken before it
Takes(list, licensed, budget, taken, i) ==
  LET host == HostOf[list[i].page]
      before == {j \in taken : j < i}
      there == {j \in before : HostOf[list[j].page] = host}
  IN /\ SlugOf[list[i].page] \notin licensed
     /\ list[i].wanted /\ Cardinality(before) < MaxPaid
     /\ SpendGate(list[i].page, list[i].author, paidByHost[host] + Cardinality(there),
                  budget - Planned(list, before))

\* the candidates to buy: each by those before it, so there is one such set
Decide(list, licensed, budget) ==
  {taken \in SUBSET DOMAIN list :
     \A i \in DOMAIN list : i \in taken <=> Takes(list, licensed, budget, taken, i)}

\* the clamped budget, discovery, the probes, the held licences, the plan
Plan(c) ==
  /\ job[c].at = "research" /\ Holds(c)
  /\ \E list \in Listings :
       LET budget == Least(job[c].budget, Remaining)
           trusted == {HostOf[p] : p \in PagesOf(list)}
           licensed == Slugs(PagesOf(list) \cap held)
           Decision(i, taken) ==
             IF i \in taken
             THEN [page |-> list[i].page, act |-> "pay", quoted |-> list[i].quoted,
                   quote |-> list[i].quote]
             ELSE [page |-> list[i].page, quoted |-> {}, quote |-> 0,
                   act |-> IF SlugOf[list[i].page] \in licensed THEN "cache" ELSE "skip"]
       IN /\ \A p \in PagesOf(list) : MayReach(p, trusted)
          /\ \E taken \in Decide(list, licensed, budget) :
               Become(c, [job[c] EXCEPT !.at = "obtain", !.budget = budget, !.seen = held,
                                        !.plan = [i \in DOMAIN list |-> Decision(i, taken)]])
  /\ UNCHANGED <<session, held, chain, made>>

Acts == {"cache", "pay", "skip"}
Entry(c) == job[c].plan[job[c].pos]
HasEntry(c, act) == job[c].at = "obtain" /\ job[c].pos <= Len(job[c].plan) /\ Entry(c).act = act

\* the entry is passed over: to be skipped, not held after all, not served, or
\* refused before anything was signed
Skip(c) ==
  /\ \E act \in Acts : HasEntry(c, act)
  /\ Become(c, [job[c] EXCEPT !.pos = @ + 1])
  /\ UNCHANGED <<session, held, chain, made>>

Reread(c) ==
  /\ HasEntry(c, "cache") /\ Entry(c).page \in job[c].seen
  /\ Become(c, [job[c] EXCEPT !.pos = @ + 1, !.got = @ \cup {job[c].pos}])
  /\ UNCHANGED <<session, held, chain, made>>

\* Mutant: the quote and its tolerance, whatever the budget has left.
RunCeilingOfQuote(c) == Authorized(Entry(c).quote)

\* Mutant: the budget, whatever the page was quoted.
RunCeilingOfBudget(c) ==
  IF job[c].spent <= job[c].budget THEN job[c].budget - job[c].spent ELSE 0

\* what buyer.fetch may sign for: the quote and what the run has left
RunCeiling(c) ==
  Least(Authorized(Entry(c).quote),
        IF job[c].spent <= job[c].budget THEN job[c].budget - job[c].spent ELSE 0)

Buy(c) ==
  /\ HasEntry(c, "pay")
  /\ \E t \in Tolls :
       /\ t.total <= RunCeiling(c)
       /\ Become(c, [job[c] EXCEPT !.at = "bought", !.due = t.total])
  /\ PaysOneMore(Entry(c).page)
  /\ UNCHANGED <<spent, paidByHost, discovered, lost, held, chain, made>>

\* sent, and not delivered: the run goes on to the next entry and debits nothing
BuyFails(c) ==
  /\ job[c].at = "bought"
  /\ Become(c, [job[c] EXCEPT !.at = "obtain", !.due = 0, !.pos = @ + 1])
  /\ lost' = [lost EXCEPT ![HostOf[Entry(c).page]] = @ + 1]
  /\ UNCHANGED <<spent, paidByHost, discovered, paid, held, chain, made>>

\* the page came back, with or without a licence to save at once
Bought(c) ==
  LET p == Entry(c).page IN
  /\ job[c].at = "bought"
  /\ \E seen \in {job[c].seen, job[c].seen \cup {p}} :
       /\ held' = IF p \in seen THEN seen ELSE held
       /\ Become(c, [job[c] EXCEPT !.at = "obtain", !.due = 0, !.seen = seen, !.pos = @ + 1,
                                   !.spent = @ + job[c].due, !.got = @ \cup {job[c].pos}])
  /\ UNCHANGED <<session, chain, made>>

\* the page came back and saving its licence throws: so does the run
Unsaved(c) ==
  /\ job[c].at = "bought"
  /\ Return(c) /\ LosesCount(c)
  /\ UNCHANGED <<held, made>>

\* the run throws: discovery, the load, a re-read cut short, the last save
Throws(c) ==
  /\ \/ job[c].at = "research" /\ Holds(c)
     \/ HasEntry(c, "cache") /\ Entry(c).page \in job[c].seen
     \/ job[c].at = "obtain" /\ job[c].pos > Len(job[c].plan)
  /\ Return(c) /\ LosesCount(c)
  /\ UNCHANGED <<held, made>>

\* the plan's pays whose slug is among the sources count against their host
Settled(c) ==
  LET plan == job[c].plan
      slugs == {SlugOf[plan[i].page] : i \in job[c].got}
  IN [h \in Hosts |->
        Cardinality({i \in DOMAIN plan : /\ plan[i].act = "pay" /\ HostOf[plan[i].page] = h
                                         /\ SlugOf[plan[i].page] \in slugs})]

\* the last save, then the session debits the run and counts its pays
Finish(c) ==
  /\ job[c].at = "obtain" /\ job[c].pos > Len(job[c].plan)
  /\ held' = job[c].seen
  /\ spent' = spent + job[c].spent
  /\ paidByHost' = [h \in Hosts |-> paidByHost[h] + Settled(c)[h]]
  /\ Return(c)
  /\ UNCHANGED <<discovered, paid, lost, made>>

Research(c) ==
  \/ CallResearch(c) \/ Plan(c) \/ Skip(c) \/ Reread(c) \/ Buy(c) \/ BuyFails(c) \/ Bought(c)
  \/ Unsaved(c) \/ Throws(c) \/ Finish(c)

-----------------------------------------------------------------------------

\* a held licence runs out, in the store and in every copy of it
Expire(p) ==
  /\ p \in held
  /\ held' = held \ {p}
  /\ job' = [c \in Calls |-> [job[c] EXCEPT !.seen = @ \ {p}]]
  /\ UNCHANGED <<session, chain, made>>

SessionNext ==
  \/ \E c \in Calls : PayAndRead(c) \/ Research(c)
  \/ Discover
  \/ \E p \in Pages : Expire(p)

\* a call the client has made goes on: every request to a site is answered,
\* cut or given up by the HTTP client
Goes(c) ==
  \/ BeginPay(c) \/ Served(c) \/ Refused(c) \/ AskPeriod(c) \/ Quote(c) \/ Send(c)
  \/ FetchFails(c) \/ Delivered(c) \/ Keep(c)
  \/ Plan(c) \/ Skip(c) \/ Reread(c) \/ Buy(c) \/ BuyFails(c) \/ Bought(c)
  \/ Unsaved(c) \/ Throws(c) \/ Finish(c)

Fairness == \A c \in Calls : WF_sessionVars(Goes(c))

SessionSpec == SessionInit /\ [][SessionNext]_sessionVars
FairSpec == SessionSpec /\ Fairness
-----------------------------------------------------------------------------
(* Properties.                                                             *)

Spending == {"sent", "bought"}
States == {"idle", "pay", "present", "period", "probe", "fetch", "keep",
           "research", "obtain"} \cup Spending

Decisions == [page : Pages, act : Acts, quoted : SUBSET Nat, quote : Nat]

Job ==
  [at : States, page : Pages \cup {None}, seen : SUBSET Pages,
   presented : {"no", "refused", "cut"}, quote : Nat, ceiling : Nat, due : Nat,
   budget : Nat, spent : Nat, plan : Seq(Decisions), pos : Nat, got : SUBSET Nat]

SessionTypeOK ==
  /\ spent \in Nat /\ made \in 0..MaxCalls
  /\ {paidByHost, paid, lost} \subseteq [Hosts -> Nat]
  /\ discovered \subseteq Hosts /\ held \subseteq Pages
  /\ chain \in Seq(Calls)
  /\ job \in [Calls -> Job]
  /\ \A c \in Calls : /\ job[c].pos \in 1..(Len(job[c].plan) + 1)
                      /\ job[c].got \subseteq 1..Len(job[c].plan)

\* what a call has signed for, or bought, and the session has not debited yet
Exposure(c) ==
  job[c].spent + (IF job[c].at \in Spending THEN job[c].due ELSE 0)

\* the ceiling, and the tolerance of one toll that fitted under it
Within(amount) ==
  \/ amount <= Ceiling
  \/ \E t \in Tolls : t.total <= Ceiling /\ amount <= Ceiling + Tolerance[t.total]

\* What the session has debited and what any of its calls has signed for never
\* exceed the ceiling together (server.ts: "a spend that would exceed the
\* ceiling is refused") by more than the tolerance of one toll, though quotes move
\* between the check and the payment and every read may use its tolerance.
SpentWithinCeiling == \A c \in Calls : Within(spent + Exposure(c))

\* A payment is never signed for more than the quote the call got when the budget
\* was checked, plus the tolerance (the toll-moved guard).  quotedTotals is by
\* slug, so in a run the quote is that of a page listed under the same slug: a
\* page which shares its slug with no other of the run pays at most its own quote.
PaysAtMostTheQuote ==
  \A c \in Calls :
    /\ job[c].at = "sent" => job[c].due <= Authorized(job[c].quote)
    /\ job[c].at = "bought" => \E t \in Entry(c).quoted : job[c].due <= Authorized(t)

\* However its calls mix, a session pays for at most Cap reads of a host, but for
\* those whose call failed after it had sent the payment, or threw: these the
\* counter of the session never sees.
CapIsShared == \A h \in Hosts : paid[h] <= Cap + lost[h]

\* A page whose licence the call knew to be live (bound to no key, for a call of
\* naulon_pay_and_read) is paid for only after the
\* licence was presented and did not serve, or as the second listing of a page
\* the same run has just bought.
HeldIsReadFirst ==
  \A c \in Calls :
    /\ job[c].at = "sent" /\ job[c].page \in job[c].seen \ Bound => job[c].presented # "no"
    /\ job[c].at = "bought" /\ Entry(c).page \in job[c].seen =>
         \E i \in job[c].got : job[c].plan[i].page = Entry(c).page

\* A licence leaves the store only by running out: no save of one call drops
\* what another call saved (withSpendLock: "the persist is a read-modify-write").
LicencesSurvive == [][held \subseteq held' \/ \E p \in Pages : Expire(p)]_sessionVars

\* Every call returns, whatever the calls before it in the chain did
\* (withSpendLock: "never let a rejection poison the chain").
EveryCallReturns == \A c \in Calls : job[c].at # "idle" ~> job[c].at = "idle"

=============================================================================
