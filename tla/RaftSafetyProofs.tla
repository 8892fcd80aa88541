--------------------------- MODULE RaftSafetyProofs ---------------------------
(***************************************************************************)
(* What is committed stays, in a cluster whose voters are never changed    *)
(* and whose owners do not compact: the argument of Raft's section 5.4,    *)
(* from the moment a leader could count a majority for an entry to every   *)
(* log, leader and request of a later term.                                *)
(***************************************************************************)
EXTENDS RaftLogProofs

\* Node n's log is at least as new as one that ends at index j with term t.
Covers(n, j, t) == NotNewer(t, j, LastTerm(log[n]), Len(log[n]))

\* Whatever later terms have built was built on logs as new as (t, j).
LinksCover(L, j, t) == \A x \in L : x.entry.term > t => NotNewer(t, j, x.prev, x.index - 1)

Point(j, t) ==
    /\ LinksCover(Links, j, t)
    /\ \A l \in Node : role[l] = Leader /\ currentTerm[l] > t => Covers(l, j, t)
    /\ \A m \in msgs : IsAppend(m) /\ m.term > t => NotNewer(t, j, EndTerm(m), End(m))

\* Candidate c has v's vote, or will have when it is received.
Backs(v, c) ==
    \/ v \in votesGranted[c]
    \/ \E m \in msgs : Granted(m) /\ m.from = v /\ m.to = c /\ m.term = currentTerm[c]

\* Node v holds the entry and has since voted only for those whose logs are as new.
Holder(v, j, t) ==
    /\ currentTerm[v] >= t /\ Has(v, j, t)
    /\ \A c \in Node :
          role[c] = Candidate /\ currentTerm[c] > t /\ Backs(v, c) => Covers(c, j, t)

\* Leader l knows, or will, that v holds its log up to index j.
Acked(v, l, j) == \E i \in Nat : i >= j /\ Acks(v, l, i)

\* Leader l may yet count a majority for the entry of its term at index j.
Choosable(l, j) ==
    /\ role[l] = Leader /\ Has(l, j, currentTerm[l])
    /\ \E Q \in SUBSET Bootstrap :
          Majority(Q) /\ \A v \in Q : currentTerm[v] <= currentTerm[l] \/ Acked(v, l, j)

Choose ==
    \A l \in Node : \A j \in Nat : Choosable(l, j) =>
        /\ Point(j, currentTerm[l])
        /\ \A v \in Node : Acked(v, l, j) => Holder(v, j, currentTerm[l])

\* The entry of term t at index j is there to stay.
Safe(j, t, Q) == Majority(Q) /\ Point(j, t) /\ \A v \in Q : Holder(v, j, t)

CommittedSafe ==
    \A c \in committed : \E j \in Nat : \E t \in Nat : \E Q \in SUBSET Bootstrap :
        /\ 1 <= c.index /\ c.index <= j /\ Safe(j, t, Q)
        /\ \A v \in Q : log[v][c.index] = c.entry

\* What a node knows to be committed, and a leader tells, is in its log.
CommitSafe(n) ==
    commitIndex[n] > 0 =>
        \E j \in Nat : \E t \in Nat : \E Q \in SUBSET Bootstrap :
            commitIndex[n] <= j /\ Safe(j, t, Q) /\ t <= currentTerm[n] /\ Has(n, j, t)

NodeCommit == \A n \in Node : CommitSafe(n)

ToldSafe(m) ==
    /\ m.leaderCommit <= End(m)
    /\ m.leaderCommit > 0 =>
          \E j \in Nat : \E t \in Nat : \E Q \in SUBSET Bootstrap :
              /\ m.leaderCommit <= j /\ Safe(j, t, Q) /\ t <= m.term
              /\ NotNewer(t, j, EndTerm(m), End(m))

RequestCommit == \A m \in msgs : IsAppend(m) => ToldSafe(m)

CommitInv == Choose /\ CommittedSafe /\ NodeCommit /\ RequestCommit

\* A step of node n, from a state in which everything but the last is known.
Goes(n) ==
    /\ Moves(n) /\ LogInv'
    /\ VoteInv /\ StaticInv /\ VoteInv' /\ StaticInv'

-----------------------------------------------------------------------------
(* Terms along a log *)

\* An entry's term starts with one that follows an older term.
LEMMA ChainFirst ==
    ASSUME NEW L, LinkShape(L), NEW lg \in Seq(Entry), LogLinks(lg) \subseteq L,
           NEW k \in Nat, k \in DOMAIN lg
    PROVE  \E f \in Nat : /\ f >= 1 /\ f <= k /\ f \in DOMAIN lg /\ lg[f].term = lg[k].term
                          /\ Link(0, 0, lg, f).prev < lg[k].term
                          /\ Link(0, 0, lg, f) \in L
<1> DEFINE t == lg[k].term
           S == {i \in DOMAIN lg : lg[i].term = t}
<1>1. DOMAIN lg = 1 .. Len(lg) /\ Len(lg) \in Nat /\ t \in Nat /\ k >= 1
  BY EntryFields
<1>2. S \in SUBSET Nat /\ k \in S /\ \A i \in S : i \in DOMAIN lg /\ lg[i].term = t
  BY <1>1
<1>3. PICK f \in S : \A y \in S : f <= y
  <2> HIDE DEF S
  <2> QED
    BY <1>2, MinProperties
<1>4. f \in Nat /\ f \in DOMAIN lg /\ lg[f].term = t /\ f <= k /\ f >= 1
  BY <1>1, <1>2, <1>3
<1>5. Link(0, 0, lg, f) \in L
  BY <1>4 DEF LogLinks
<1>6. /\ Link(0, 0, lg, f).entry.term = t
      /\ Link(0, 0, lg, f).prev = IF f = 1 THEN 0 ELSE lg[f - 1].term
  BY <1>4 DEF Link
<1>7. t >= 1 /\ Link(0, 0, lg, f).prev <= t
  BY <1>5, <1>6 DEF LinkShape
<1>8. Link(0, 0, lg, f).prev < t
  <2>1. CASE f = 1
    BY <1>1, <1>6, <1>7, <2>1
  <2>2. CASE f # 1
    <3>1. f - 1 \in DOMAIN lg /\ f - 1 < f
      BY <1>1, <1>4, <2>2
    <3>2. f - 1 \notin S
      BY <1>3, <1>4, <3>1
    <3>3. lg[f - 1].term # t /\ lg[f - 1].term \in Nat
      BY <3>1, <3>2, EntryFields
    <3> QED
      BY <1>1, <1>6, <1>7, <2>2, <3>3
  <2> QED
    BY <2>1, <2>2
<1> QED
  BY <1>4, <1>5, <1>8

\* A log with an entry of a term has all the earlier ones of that term.
LEMMA ChainRun ==
    ASSUME NEW L, LinkShape(L), FirstLow(L), NEW lg \in Seq(Entry), LogLinks(lg) \subseteq L,
           NEW k \in Nat, k \in DOMAIN lg,
           NEW x \in L, x.entry.term = lg[k].term,
           NEW j \in Nat, x.index = j, j >= 1, j <= k
    PROVE  j \in DOMAIN lg /\ lg[j].term = lg[k].term
<1>1. DOMAIN lg = 1 .. Len(lg) /\ Len(lg) \in Nat
  OBVIOUS
<1>2. PICK f \in Nat : /\ f >= 1 /\ f <= k /\ f \in DOMAIN lg /\ lg[f].term = lg[k].term
                       /\ Link(0, 0, lg, f).prev < lg[k].term
                       /\ Link(0, 0, lg, f) \in L
  BY ChainFirst
<1>3. Link(0, 0, lg, f).index = f /\ Link(0, 0, lg, f).entry.term = lg[k].term
  BY <1>2 DEF Link
<1>4. f <= j
  BY <1>2, <1>3 DEF FirstLow
<1>5. j \in DOMAIN lg
  BY <1>1
<1>6. lg[f].term <= lg[j].term /\ lg[j].term <= lg[k].term
  BY <1>2, <1>4, <1>5, ChainMono
<1>7. lg[j].term \in Nat /\ lg[k].term \in Nat
  BY <1>5, EntryFields
<1> QED
  BY <1>2, <1>5, <1>6, <1>7

\* The same, of every entry of the log at once.
LEMMA ChainRuns ==
    ASSUME NEW L, LinkShape(L), FirstLow(L), NEW lg \in Seq(Entry), LogLinks(lg) \subseteq L
    PROVE  \A k \in DOMAIN lg : \A x \in L :
              x.entry.term = lg[k].term /\ x.index \in 1 .. k =>
                 x.index \in DOMAIN lg /\ lg[x.index].term = lg[k].term
<1> SUFFICES ASSUME NEW k \in DOMAIN lg, NEW x \in L, x.entry.term = lg[k].term, x.index \in 1 .. k
             PROVE  x.index \in DOMAIN lg /\ lg[x.index].term = lg[k].term
  OBVIOUS
<1>1. PICK j \in Nat : j = x.index /\ j >= 1 /\ j <= k
  OBVIOUS
<1>2. k \in Nat
  OBVIOUS
<1> QED
  BY <1>1, <1>2, ChainRun

\* A log as new as (t, j) has the entry of term t at j, if later terms built on it.
LEMMA ChainCovers ==
    ASSUME NEW L, LinkShape(L), FirstLow(L), NEW lg \in Seq(Entry), LogLinks(lg) \subseteq L,
           NEW j \in Nat, NEW t \in Nat, j >= 1, LinksCover(L, j, t),
           NEW x \in L, x.entry.term = t, x.index = j,
           NEW k \in Nat, k \in DOMAIN lg, NotNewer(t, j, lg[k].term, k)
    PROVE  j \in DOMAIN lg /\ lg[j].term = t
<1>1. DOMAIN lg = 1 .. Len(lg) /\ Len(lg) \in Nat /\ lg[k].term \in Nat
  BY EntryFields
<1>2. CASE lg[k].term = t
  <2>1. j <= k
    BY <1>1, <1>2 DEF NotNewer
  <2> QED
    BY <1>2, <2>1, ChainRun
<1>3. CASE t < lg[k].term
  <2> DEFINE S == {i \in DOMAIN lg : t < lg[i].term}
  <2>1. S \in SUBSET Nat /\ k \in S /\ \A i \in S : i \in DOMAIN lg /\ t < lg[i].term
    BY <1>1, <1>3
  <2>2. PICK f \in S : \A y \in S : f <= y
    <3> HIDE DEF S
    <3> QED
      BY <2>1, MinProperties
  <2>3. f \in Nat /\ f \in DOMAIN lg /\ t < lg[f].term /\ f >= 1
    BY <1>1, <2>1, <2>2
  <2>4. Link(0, 0, lg, f) \in L
    BY <2>3 DEF LogLinks
  <2>5. /\ Link(0, 0, lg, f).entry.term = lg[f].term /\ Link(0, 0, lg, f).index = f
        /\ Link(0, 0, lg, f).prev = IF f = 1 THEN 0 ELSE lg[f - 1].term
    BY <2>3 DEF Link
  <2>6. NotNewer(t, j, Link(0, 0, lg, f).prev, f - 1)
    BY <1>1, <2>3, <2>4, <2>5, EntryFields DEF LinksCover
  <2>7. t >= 1
    BY DEF LinkShape
  <2>8. CASE f = 1
    BY <2>5, <2>6, <2>7, <2>8 DEF NotNewer
  <2>9. CASE f # 1
    <3>1. f - 1 \in DOMAIN lg /\ f - 1 < f /\ f - 1 \in Nat
      BY <1>1, <2>3, <2>9
    <3>2. f - 1 \notin S
      BY <2>2, <2>3, <3>1
    <3>3. lg[f - 1].term \in Nat /\ ~ (t < lg[f - 1].term)
      BY <3>1, <3>2, EntryFields
    <3>4. lg[f - 1].term = t /\ j <= f - 1
      BY <2>5, <2>6, <2>9, <3>3 DEF NotNewer
    <3> QED
      BY <3>1, <3>4, ChainRun
  <2> QED
    BY <2>8, <2>9
<1> QED
  BY <1>1, <1>2, <1>3 DEF NotNewer

\* A log that has an entry is as new as one that ends with it.
LEMMA HasCovers ==
    ASSUME NEW L, LinkShape(L), NEW lg \in Seq(Entry), LogLinks(lg) \subseteq L,
           NEW j \in Nat, j \in DOMAIN lg
    PROVE  NotNewer(lg[j].term, j, LastTerm(lg), Len(lg))
<1>1. DOMAIN lg = 1 .. Len(lg) /\ Len(lg) \in Nat
  OBVIOUS
<1>2. Len(lg) # 0 /\ j <= Len(lg)
  BY <1>1
<1>3. Len(lg) \in DOMAIN lg /\ lg[Len(lg)].term = LastTerm(lg) /\ LastTerm(lg) \in Nat
  BY <1>2, LogEnd
<1>4. lg[j].term <= lg[Len(lg)].term
  <2> DEFINE z == Len(lg)
  <2>1. z \in DOMAIN lg /\ j <= z
    BY <1>2, <1>3
  <2> HIDE DEF z
  <2>2. lg[j].term <= lg[z].term
    BY <2>1, ChainMono
  <2> QED
    BY <2>2 DEF z
<1>5. lg[j].term \in Nat
  BY EntryFields
<1> QED
  BY <1>2, <1>3, <1>4, <1>5 DEF NotNewer

-----------------------------------------------------------------------------
(* Majorities, votes and entries *)

\* Two majorities share a voter.
LEMMA QuorumsMeet ==
    ASSUME NEW Q, NEW R, Majority(Q), Majority(R)
    PROVE  \E v \in Node : v \in Q /\ v \in R
<1>1. IsFiniteSet(Bootstrap)
  BY BootstrapAssumption, NodeAssumption, FS_Subset
<1>2. \E v \in Q : v \in R
  BY <1>1, MajoritiesMeet DEF Majority
<1> QED
  BY <1>2, BootstrapAssumption DEF Majority

\* Nobody backs a candidate of a term it has not reached.
LEMMA BacksBound ==
    TypeInv /\ VoteInv => \A v, c \in Node : Backs(v, c) => currentTerm[v] >= currentTerm[c]
<1> SUFFICES ASSUME TypeInv, VoteInv, NEW v \in Node, NEW c \in Node, Backs(v, c)
             PROVE  currentTerm[v] >= currentTerm[c]
  OBVIOUS
<1>1. currentTerm[c] \in Nat /\ currentTerm[v] \in Nat
  BY NodeTypes
<1>2. Voted(v, c, currentTerm[c])
  BY DEF Backs, Voted, Granted
<1> QED
  BY <1>1, <1>2 DEF VoteInv, VoteRemembered

\* The same of the next state.
LEMMA BacksBoundNext ==
    TypeInv' /\ VoteInv' =>
        \A v, c \in Node : Backs(v, c)' => currentTerm'[v] >= currentTerm'[c]
<1>1. (TypeInv /\ VoteInv => \A v, c \in Node : Backs(v, c) => currentTerm[v] >= currentTerm[c])'
  BY BacksBound, PTL
<1> QED
  BY <1>1

\* While a majority has not gone beyond a term, nobody has won a later one.
LEMMA NoLater ==
    ASSUME TypeInv, VoteInv, StaticInv, NEW Q, Majority(Q), NEW t \in Nat,
           \A v \in Q : currentTerm[v] <= t, NEW e \in elected
    PROVE  e.term <= t
<1>1. Majority(e.votes)
  BY DEF StaticInv, StaticWin, HasQuorum, Genesis, Stable, Majority
<1>2. PICK v \in Node : v \in Q /\ v \in e.votes
  BY <1>1, QuorumsMeet
<1>3. e.leader \in Node /\ e.term \in Nat /\ currentTerm[v] \in Nat
  BY NodeTypes DEF TypeInv, TypeOK
<1>4. Voted(v, e.leader, e.term)
  BY <1>2 DEF Voted
<1>5. e.term <= currentTerm[v]
  BY <1>3, <1>4 DEF VoteInv, VoteRemembered
<1> QED
  BY <1>2, <1>3, <1>5

\* What an entry in a log implies.
LEMMA HasFacts ==
    TypeInv /\ LogInv =>
        \A n \in Node : \A j \in Nat : \A t \in Nat : Has(n, j, t) =>
            /\ Covers(n, j, t) /\ j >= 1 /\ j <= Len(log[n])
            /\ \E x \in Links : x.index = j /\ x.entry.term = t
<1> SUFFICES ASSUME TypeInv, LogInv, NEW n \in Node, NEW j \in Nat, NEW t \in Nat, Has(n, j, t)
             PROVE  /\ Covers(n, j, t) /\ j >= 1 /\ j <= Len(log[n])
                    /\ \E x \in Links : x.index = j /\ x.entry.term = t
  OBVIOUS
<1>1. /\ log[n] \in Seq(Entry) /\ DOMAIN log[n] = 1 .. Len(log[n]) /\ Len(log[n]) \in Nat
      /\ j \in DOMAIN log[n] /\ log[n][j].term = t
  BY NodeTypes DEF Has
<1>2. LinkShape(Links) /\ LogLinks(log[n]) \subseteq Links
  BY LinksIn DEF LogInv, LinkInv
<1>3. NotNewer(t, j, LastTerm(log[n]), Len(log[n]))
  <2> DEFINE lg == log[n]
             L == Links
  <2>1. /\ lg \in Seq(Entry) /\ j \in DOMAIN lg /\ lg[j].term = t /\ LinkShape(L)
        /\ LogLinks(lg) \subseteq L
    BY <1>1, <1>2
  <2> HIDE DEF lg, L
  <2>2. NotNewer(t, j, LastTerm(lg), Len(lg))
    BY <2>1, HasCovers
  <2> QED
    BY <2>2 DEF lg
<1>4. Link(0, 0, log[n], j) \in Links
  BY <1>1, <1>2 DEF LogLinks
<1>5. Link(0, 0, log[n], j).index = j /\ Link(0, 0, log[n], j).entry.term = t
  BY <1>1 DEF Link
<1> QED
  BY <1>1, <1>3, <1>4, <1>5 DEF Covers

\* The same of the next state.
LEMMA HasFactsNext ==
    TypeInv' /\ LogInv' =>
        \A n \in Node : \A j \in Nat : \A t \in Nat : Has(n, j, t)' =>
            /\ Covers(n, j, t)' /\ j >= 1 /\ j <= Len(log'[n])
            /\ \E x \in Links' : x.index = j /\ x.entry.term = t
<1>1. (TypeInv /\ LogInv =>
          \A n \in Node : \A j \in Nat : \A t \in Nat : Has(n, j, t) =>
            /\ Covers(n, j, t) /\ j >= 1 /\ j <= Len(log[n])
            /\ \E x \in Links : x.index = j /\ x.entry.term = t)'
  BY HasFacts, PTL
<1> QED
  BY <1>1

\* Two nodes with the same term at an index have the same entries up to it.
LEMMA HasAgree ==
    TypeInv /\ LogInv =>
        \A a, b \in Node : \A j \in Nat : \A t \in Nat :
            Has(a, j, t) /\ Has(b, j, t) =>
                \A i \in 1 .. j : log[a][i] = log[b][i]
<1> SUFFICES ASSUME TypeInv, LogInv, NEW a \in Node, NEW b \in Node, NEW j \in Nat,
                    NEW t \in Nat, Has(a, j, t), Has(b, j, t)
             PROVE  \A i \in 1 .. j : log[a][i] = log[b][i]
  OBVIOUS
<1> DEFINE f == log[a]
           g == log[b]
           L == Links
<1>1. /\ LinkUnique(L) /\ f \in Seq(Entry) /\ g \in Seq(Entry) /\ LogLinks(f) \subseteq L
      /\ LogLinks(g) \subseteq L /\ j \in DOMAIN f /\ j \in DOMAIN g /\ f[j].term = g[j].term
  BY NodeTypes, LinksIn DEF LogInv, LinkInv, Has
<1> HIDE DEF f, g, L
<1>2. \A i \in 1 .. j : f[i] = g[i]
  BY <1>1, ChainAgree
<1> QED
  BY <1>2 DEF f, g

\* The same of the next state.
LEMMA HasAgreeNext ==
    TypeInv' /\ LogInv' =>
        \A a, b \in Node : \A j \in Nat : \A t \in Nat :
            Has(a, j, t)' /\ Has(b, j, t)' =>
                \A i \in 1 .. j : log'[a][i] = log'[b][i]
<1>1. (TypeInv /\ LogInv =>
          \A a, b \in Node : \A j \in Nat : \A t \in Nat :
            Has(a, j, t) /\ Has(b, j, t) =>
                \A i \in 1 .. j : log[a][i] = log[b][i])'
  BY HasAgree, PTL
<1> QED
  BY <1>1

-----------------------------------------------------------------------------
(* What later terms build on stays what they build on *)

\* A majority has the entry, or may still get it from its leader, and nothing of
\* a later term was built without it.
Guarded(j, t, Q) ==
    /\ Majority(Q) /\ Point(j, t)
    /\ \A v \in Q : \/ Holder(v, j, t)
                    \/ currentTerm[v] <= t /\ \E l \in Node : role[l] = Leader /\ currentTerm[l] = t

\* The next leader's log is as new as the entry.
LEMMA WinnerCovers ==
    ASSUME NEW n \in Node, Goes(n), NEW j \in Nat, NEW t \in Nat, NEW Q, Guarded(j, t, Q),
           role[n] # Leader, currentTerm'[n] > t, Majority(votesGranted'[n]),
           Campaign(n) \/ \E m \in msgs : Tally(n, m)
    PROVE  Covers(n, j, t)
<1>0. TypeInv /\ LogInv /\ VoteInv /\ currentTerm[n] \in Nat
  BY NodeTypes DEF Goes, Moves
<1>1. PICK v \in Node : v \in Q /\ v \in votesGranted'[n]
  BY QuorumsMeet DEF Guarded
<1>2. CASE Campaign(n)
  <2>1. v = n /\ votesGranted'[n] = {n} /\ currentTerm'[n] = currentTerm[n] + 1
    BY <1>1, <1>2 DEF Campaign
  <2>2. CASE Holder(n, j, t)
    BY <1>0, <2>2, HasFacts DEF Holder
  <2>3. CASE ~ Holder(n, j, t)
    <3>1. PICK l \in Node : role[l] = Leader /\ currentTerm[n] <= t /\ currentTerm[l] = t
      BY <1>1, <2>1, <2>3 DEF Guarded
    <3>2. l \in Bootstrap
      BY <3>1 DEF Goes, StaticInv, StaticNode, Leader, Follower
    <3>3. Majority({n}) /\ Cardinality({n}) = 1 /\ Cardinality({l}) = 1
      BY <2>1, FS_Singleton
    <3>4. Majority({l})
      BY <3>2, <3>3 DEF Majority
    <3>5. l = n
      BY <3>3, <3>4, QuorumsMeet
    <3> QED
      BY <3>1, <3>5
  <2> QED
    BY <2>2, <2>3
<1>3. CASE \E m \in msgs : Tally(n, m)
  <2>1. PICK m \in msgs : Tally(n, m)
    BY <1>3
  <2>2. /\ Granted(m) /\ m.to = n /\ m.term = currentTerm[n] /\ role[n] = Candidate
        /\ currentTerm'[n] = currentTerm[n] /\ votesGranted'[n] = votesGranted[n] \cup {m.from}
    BY <2>1 DEF Tally
  <2>3. Backs(v, n)
    BY <1>1, <2>2 DEF Backs
  <2>4. currentTerm[v] >= currentTerm[n] /\ currentTerm[v] \in Nat
    BY <1>0, <2>3, BacksBound, NodeTypes
  <2>5. Holder(v, j, t)
    BY <1>0, <1>1, <2>2, <2>4 DEF Guarded
  <2> QED
    BY <2>2, <2>3, <2>5 DEF Holder
<1> QED
  BY <1>2, <1>3

\* The entry stays what later terms build on.
LEMMA PointStays ==
    ASSUME NEW n \in Node, Goes(n), NEW j \in Nat, NEW t \in Nat, NEW Q, Guarded(j, t, Q)
    PROVE  Point(j, t)'
<1>0. /\ Moves(n) /\ Point(j, t) /\ currentTerm[n] \in Nat /\ log[n] \in Seq(Entry)
      /\ Len(log[n]) \in Nat
  BY NodeTypes DEF Goes, Guarded, Moves
<1>1. ASSUME NEW l \in Node, role'[l] = Leader, currentTerm'[l] > t
      PROVE  NotNewer(t, j, LastTerm(log'[l]), Len(log'[l]))
  <2>1. CASE role[l] = Leader
    <3>1. /\ currentTerm'[l] = currentTerm[l]
          /\ log'[l] = log[l] \/ (l = n /\ Extend(n))
      BY <1>0, <1>1, <2>1, LeaderKeeps
    <3>2. CASE log'[l] = log[l]
      BY <1>0, <1>1, <2>1, <3>1, <3>2 DEF Point, Covers
    <3>3. CASE l = n /\ Extend(n)
      BY <1>0, <1>1, <3>1, <3>3, ExtendLog DEF NotNewer
    <3> QED
      BY <3>1, <3>2, <3>3
  <2>2. CASE role[l] # Leader
    <3>1. /\ l = n /\ log'[n] = log[n] /\ role[n] # Leader /\ Majority(votesGranted'[n])
          /\ Campaign(n) \/ \E m \in msgs : Tally(n, m)
      BY <1>0, <1>1, <2>2, WhoLeads
    <3> QED
      BY <1>1, <3>1, WinnerCovers DEF Covers
  <2> QED
    BY <2>1, <2>2
<1>2. ASSUME NEW x \in Links', x.entry.term > t
      PROVE  NotNewer(t, j, x.prev, x.index - 1)
  <2>1. CASE x \in Links
    BY <1>0, <1>2, <2>1 DEF Point, LinksCover
  <2>2. CASE x \notin Links
    <3>1. /\ Extend(n) /\ x.index = Len(log'[n]) /\ x.prev = LastTerm(log[n])
          /\ x.entry.term = currentTerm[n]
      BY <1>0, <2>2, LinksGrow
    <3>2. role[n] = Leader /\ Len(log'[n]) = Len(log[n]) + 1
      BY <1>0, <3>1, ExtendLog
    <3>3. NotNewer(t, j, LastTerm(log[n]), Len(log[n]))
      BY <1>0, <1>2, <3>1, <3>2 DEF Point, Covers
    <3>4. x.index - 1 = Len(log[n])
      BY <1>0, <3>1, <3>2
    <3> QED
      BY <3>1, <3>3, <3>4
  <2> QED
    BY <2>1, <2>2
<1>3. ASSUME NEW m \in msgs', IsAppend(m), m.term > t
      PROVE  NotNewer(t, j, EndTerm(m), End(m))
  <2>1. CASE m \in msgs
    BY <1>0, <1>3, <2>1 DEF Point
  <2>2. CASE m \notin msgs
    <3>1. Sent(n, m)
      BY <1>0, <1>3, <2>2, NewMessages DEF Harmless, Granted, IsAck, IsAppend
    <3>2. /\ role'[n] = Leader /\ m.term = currentTerm'[n]
          /\ End(m) = Len(log'[n]) /\ EndTerm(m) = LastTerm(log'[n])
      BY <1>0, <3>1, SentWindow
    <3> QED
      BY <1>1, <1>3, <3>2
  <2> QED
    BY <2>1, <2>2
<1> QED
  BY <1>1, <1>2, <1>3 DEF Point, LinksCover, Covers

-----------------------------------------------------------------------------
(* Whoever holds the entry goes on holding it *)

\* A merge makes no link that was not in the logs or in flight.
LEMMA AcceptLinks ==
    ASSUME NEW n \in Node, Moves(n), NEW m \in msgs, Accept(n, m)
    PROVE  LogLinks(log'[n]) \subseteq Links
<1>1. role'[n] = Follower
  BY AcceptorFollows
<1>2. ~ Extend(n)
  BY <1>1 DEF Extend, Leads, Follower, Leader
<1> QED
  BY <1>2, LinksIn, LinksGrow

\* If the request m has no entry of its term, the term's entries start after it.
StartsAfter(m, L) ==
    \A x \in L :
        x.entry.term = m.term /\ x.prev < m.term /\ EndTerm(m) < m.term =>
            x.index = End(m) + 1 /\ x.prev = EndTerm(m)

\* A merge that ends with the request keeps the entry later terms build on.
LEMMA MergeKeeps ==
    ASSUME NEW m, m.prevLogIndex \in Nat, m.entries \in Seq(Entry), m.term \in Nat,
           End(m) \in Nat, EndTerm(m) \in Nat, EndTerm(m) <= m.term,
           NEW lg \in Seq(Entry), NEW new \in Seq(Entry), Merge(lg, m, new),
           NEW L, LinkShape(L), LinkUnique(L), FirstLow(L),
           LogLinks(lg) \subseteq L, LogLinks(new) \subseteq L,
           NEW j \in Nat, NEW t \in Nat, j \in DOMAIN lg, lg[j].term = t, m.term >= t,
           LinksCover(L, j, t),
           m.term > t => NotNewer(t, j, EndTerm(m), End(m)), StartsAfter(m, L)
    PROVE  j \in DOMAIN new /\ new[j].term = t
<1>1. /\ Len(lg) \in Nat /\ DOMAIN lg = 1 .. Len(lg) /\ j >= 1
      /\ Len(new) \in Nat /\ DOMAIN new = 1 .. Len(new)
  OBVIOUS
<1>2. CASE new = lg
  BY <1>2
<1>4. ASSUME NEW k \in Nat, k \in DOMAIN new, NotNewer(t, j, new[k].term, k)
      PROVE  j \in DOMAIN new /\ new[j].term = t
  <2>1. PICK x \in L : x.entry.term = t /\ x.index = j
    <3>1. Link(0, 0, lg, j) \in L
      BY DEF LogLinks
    <3>2. Link(0, 0, lg, j).index = j /\ Link(0, 0, lg, j).entry.term = t
      BY DEF Link
    <3> QED
      BY <3>1, <3>2
  <2> QED
    BY <1>1, <1>4, <2>1, ChainCovers
<1>5. \A k \in DOMAIN lg : \A x \in L :
          x.entry.term = lg[k].term /\ x.index \in 1 .. k =>
             x.index \in DOMAIN lg /\ lg[x.index].term = lg[k].term
  BY ChainRuns
<1>3. CASE new # lg
  <2>1. PICK cut \in Nat : Cuts(m, lg, new, cut)
    BY <1>3, MergeCases
  <2> DEFINE e == End(m)
  <2>2. /\ cut < e /\ Len(new) = e /\ e \in Nat /\ e >= 1 /\ e \in (cut + 1) .. e /\ e \in DOMAIN new
        /\ e \in DOMAIN lg => lg[e].term # new[e].term
    BY <1>1, <2>1 DEF Cuts
  <2>3. new[e].term = EndTerm(m)
    BY <2>2, MergeHolds
  <2>4. Link(0, 0, lg, j) \in L /\ Link(0, 0, new, e) \in L
    <3> HIDE DEF e
    <3> QED
      BY <2>2 DEF LogLinks
  <2>5. /\ Link(0, 0, lg, j).index = j /\ Link(0, 0, lg, j).entry.term = t
        /\ Link(0, 0, new, e).index = e /\ Link(0, 0, new, e).entry.term = EndTerm(m)
    <3> HIDE DEF e
    <3> QED
      BY <2>2, <2>3 DEF Link
  <2>6. ASSUME NotNewer(t, j, EndTerm(m), e) PROVE j \in DOMAIN new /\ new[j].term = t
    <3>1. NotNewer(t, j, new[e].term, e)
      BY <2>3, <2>6
    <3> HIDE DEF e
    <3> QED
      BY <1>4, <2>2, <3>1
  <2>7. CASE m.term > t
    BY <2>6, <2>7
  <2>8. CASE m.term = t /\ EndTerm(m) = t
    <3>1. CASE j <= e
      BY <2>6, <2>8, <3>1 DEF NotNewer
    <3>2. CASE e < j
      <4>1. e \in DOMAIN lg
        BY <1>1, <2>2, <3>2
      <4>2. lg[e].term = lg[j].term
        <5>1. Link(0, 0, new, e).entry.term = lg[j].term /\ e \in 1 .. j
          BY <1>1, <2>2, <2>5, <2>8, <3>2
        <5> HIDE DEF e
        <5> QED
          BY <1>5, <2>2, <2>4, <2>5, <5>1
      <4> QED
        BY <2>2, <2>3, <2>8, <4>1, <4>2
    <3> QED
      BY <2>2, <3>1, <3>2
  <2>9. CASE m.term = t /\ EndTerm(m) < t
    <3>1. PICK f \in Nat : /\ f >= 1 /\ f <= j /\ f \in DOMAIN lg /\ lg[f].term = lg[j].term
                           /\ Link(0, 0, lg, f).prev < lg[j].term
                           /\ Link(0, 0, lg, f) \in L
      BY ChainFirst
    <3>2. /\ Link(0, 0, lg, f).index = f /\ Link(0, 0, lg, f).entry.term = t
          /\ Link(0, 0, lg, f).prev = IF f = 1 THEN 0 ELSE lg[f - 1].term
      BY <3>1 DEF Link
    <3>3. f = e + 1 /\ Link(0, 0, lg, f).prev = EndTerm(m)
      BY <2>9, <3>1, <3>2 DEF StartsAfter
    <3>4. f - 1 = e /\ f # 1 /\ e \in DOMAIN lg
      BY <1>1, <2>2, <3>1, <3>3
    <3>5. lg[e].term = EndTerm(m)
      BY <3>2, <3>3, <3>4
    <3> QED
      BY <2>2, <2>3, <3>4, <3>5
  <2>10. EndTerm(m) = t \/ EndTerm(m) < t \/ m.term > t
    OBVIOUS
  <2> QED
    BY <2>7, <2>8, <2>9, <2>10
<1> QED
  BY <1>2, <1>3

\* An entry that later terms build on is not lost.
LEMMA HasStays ==
    ASSUME NEW n \in Node, Goes(n), NEW j \in Nat, NEW t \in Nat, Point(j, t),
           NEW v \in Node, currentTerm[v] >= t, Has(v, j, t)
    PROVE  /\ Has(v, j, t)'
           /\ \A i \in 1 .. j : log'[v][i] = log[v][i]
<1>0. /\ Moves(n) /\ TypeInv /\ LogInv /\ LinkUnique(Links)
      /\ log[v] \in Seq(Entry) /\ log'[v] \in Seq(Entry) /\ currentTerm[v] \in Nat
      /\ j \in DOMAIN log[v] /\ log[v][j].term = t /\ LogLinks(log[v]) \subseteq Links
      /\ DOMAIN log[v] = 1 .. Len(log[v]) /\ Len(log[v]) \in Nat
  BY NodeTypes, NodeTypesNext, LinksIn DEF Goes, Moves, Has, LogInv, LinkInv
<1>1. CASE log'[v] = log[v]
  BY <1>0, <1>1 DEF Has
<1>2. CASE v = n /\ Extend(n)
  <2>1. DOMAIN log[n] \subseteq DOMAIN log'[n] /\ \A k \in DOMAIN log[n] : log'[n][k] = log[n][k]
    BY <1>0, <1>2, ExtendLog
  <2>2. \A i \in 1 .. j : i \in DOMAIN log[v]
    BY <1>0
  <2> QED
    BY <1>0, <1>2, <2>1, <2>2 DEF Has
<1>3. CASE \E m \in msgs : v = n /\ Accept(n, m)
  <2>1. PICK m \in msgs : v = n /\ Accept(n, m)
    BY <1>3
  <2>2. IsAppend(m) /\ Merge(log[v], m, log'[v]) /\ m.term >= currentTerm[v]
    BY <2>1 DEF Accept
  <2>3. /\ m.prevLogIndex \in Nat /\ m.entries \in Seq(Entry) /\ m.term \in Nat
        /\ End(m) \in Nat /\ EndTerm(m) \in Nat
    BY <1>0, <2>2, AppendFields
  <2>4. EndTerm(m) <= m.term /\ StartsAfter(m, Links)
    BY <1>0, <2>2 DEF LogInv, RequestShape, StartsAfter
  <2>5. LinksCover(Links, j, t) /\ (m.term > t => NotNewer(t, j, EndTerm(m), End(m)))
    BY <2>2 DEF Point
  <2>6. LogLinks(log'[v]) \subseteq Links
    BY <1>0, <2>1, AcceptLinks
  <2>7. LinkShape(Links) /\ FirstLow(Links) /\ m.term >= t
    BY <1>0, <2>2, <2>3 DEF LogInv, LinkInv
  <2> DEFINE lg == log[v]
             new == log'[v]
             L == Links
  <2>8. /\ lg \in Seq(Entry) /\ new \in Seq(Entry) /\ Merge(lg, m, new)
        /\ LinkShape(L) /\ LinkUnique(L) /\ FirstLow(L)
        /\ LogLinks(lg) \subseteq L /\ LogLinks(new) \subseteq L
        /\ j \in DOMAIN lg /\ lg[j].term = t /\ LinksCover(L, j, t) /\ StartsAfter(m, L)
    BY <1>0, <2>2, <2>4, <2>5, <2>6, <2>7
  <2> HIDE DEF lg, new, L
  <2>9. j \in DOMAIN new /\ new[j].term = t
    BY <2>3, <2>4, <2>5, <2>7, <2>8, MergeKeeps, SMTT(60)
  <2>10. \A i \in 1 .. j : new[i] = lg[i]
    BY <2>8, <2>9, ChainAgree
  <2> QED
    BY <2>9, <2>10 DEF lg, new, Has
<1> QED
  BY <1>0, <1>1, <1>2, <1>3, LogMoves

\* Whoever holds the entry votes only for those whose logs are as new.
LEMMA HolderStays ==
    ASSUME NEW n \in Node, Goes(n), NEW j \in Nat, NEW t \in Nat, Point(j, t),
           NEW v \in Node, Holder(v, j, t)
    PROVE  Holder(v, j, t)'
<1>0. /\ Moves(n) /\ TypeInv /\ LogInv /\ TypeInv' /\ LogInv' /\ VotePast /\ VotePast'
      /\ currentTerm[v] \in Nat /\ currentTerm'[v] \in Nat /\ currentTerm'[v] >= currentTerm[v]
  BY NodeTypes, NodeTypesNext, TermsGrow DEF Goes, Moves, LogInv
<1>1. currentTerm[v] >= t /\ Has(v, j, t) /\ Covers(v, j, t)
  BY <1>0, HasFacts DEF Holder
<1>2. Has(v, j, t)' /\ currentTerm'[v] >= t
  BY <1>0, <1>1, HasStays
<1>3. ASSUME NEW c \in Node, role'[c] = Candidate, currentTerm'[c] > t, Backs(v, c)'
      PROVE  NotNewer(t, j, LastTerm(log'[c]), Len(log'[c]))
  <2>0. /\ log'[c] = log[c]
        /\ \/ role[c] = Candidate /\ currentTerm'[c] = currentTerm[c]
           \/ /\ c = n /\ role[n] # Leader /\ currentTerm'[n] = currentTerm[n] + 1
              /\ votesGranted'[n] = {n}
    BY <1>0, <1>3, WhoCampaigns
  <2>1. CASE role[c] = Candidate /\ currentTerm'[c] = currentTerm[c]
    <3>1. CASE Backs(v, c)
      BY <1>3, <2>0, <2>1, <3>1 DEF Holder, Covers
    <3>2. CASE ~ Backs(v, c)
      <4>1. v \notin votesGranted'[c]
        <5>1. SUFFICES ASSUME v \in votesGranted'[c], v \notin votesGranted[c] PROVE FALSE
          BY <3>2 DEF Backs
        <5>2. c = n
          BY <5>1 DEF Goes, Moves, PlainBy, Same
        <5>3. Acts(n) /\ currentTerm[n] \in Nat /\ currentTerm'[n] = currentTerm[n]
          BY <1>0, <2>1, <5>2, NodeTypes DEF Moves, PlainBy
        <5>4. PICK m \in msgs : Tally(n, m)
          BY <2>1, <5>1, <5>2, <5>3
             DEF Acts, Calm, Grant, Eases, Campaign, Extend, Ack, Leads, Accept, Candidate, Leader
        <5>5. m.from = v /\ Granted(m) /\ m.to = n /\ m.term = currentTerm[n]
          BY <5>1, <5>2, <5>4 DEF Tally
        <5> QED
          BY <3>2, <5>2, <5>5 DEF Backs
      <4>2. PICK m \in msgs' : /\ Granted(m) /\ m.from = v /\ m.to = c
                               /\ m.term = currentTerm'[c]
        BY <1>3, <4>1 DEF Backs
      <4>3. m \notin msgs
        BY <2>1, <3>2, <4>2 DEF Backs
      <4>4. PICK q \in msgs : Grant(n, q) /\ m.from = n /\ m.to = q.from /\ m.term = q.term
        BY <1>0, <4>2, <4>3, NewMessages, SentWindow DEF Harmless, Granted, IsAck, IsAppend
      <4>5. /\ q.type = "RequestVote"
            /\ NotNewer(LastTerm(log[v]), Len(log[v]), q.lastLogTerm, q.lastLogIndex)
        BY <4>2, <4>4 DEF Grant
      <4>6. q.lastLogIndex = Len(log[c]) /\ q.lastLogTerm = LastTerm(log[c])
        BY <1>0, <2>1, <4>2, <4>4, <4>5 DEF VotePast
      <4>7. /\ log[v] \in Seq(Entry) /\ log[c] \in Seq(Entry)
            /\ Len(log[v]) \in Nat /\ Len(log[c]) \in Nat
            /\ LastTerm(log[v]) \in Nat /\ LastTerm(log[c]) \in Nat
        BY <1>0, NodeTypes, LogEnd
      <4> QED
        BY <1>1, <2>0, <4>5, <4>6, <4>7 DEF Covers, NotNewer
    <3> QED
      BY <3>1, <3>2
  <2>2. CASE /\ c = n /\ role[n] # Leader /\ currentTerm'[n] = currentTerm[n] + 1
             /\ votesGranted'[n] = {n}
    <3>1. currentTerm[n] \in Nat
      BY <1>0, NodeTypes
    <3>2. CASE v = n
      BY <1>1, <2>0, <2>2, <3>2 DEF Covers
    <3>3. CASE v # n
      <4>1. PICK m \in msgs' : /\ Granted(m) /\ m.from = v /\ m.to = n
                               /\ m.term = currentTerm'[n]
        BY <1>3, <2>2, <3>3 DEF Backs
      <4>2. m \in msgs
        BY <1>0, <3>3, <4>1, NewMessages, SentWindow DEF Harmless, Granted, IsAck, IsAppend
      <4>3. m.term <= currentTerm[n]
        BY <1>0, <4>1, <4>2 DEF VotePast
      <4> QED
        BY <2>2, <3>1, <4>1, <4>3
    <3> QED
      BY <3>2, <3>3
  <2> QED
    BY <2>0, <2>1, <2>2
<1> QED
  BY <1>2, <1>3 DEF Holder, Covers, Has

\* What is there to stay stays.
LEMMA SafeStays ==
    ASSUME NEW n \in Node, Goes(n), NEW j \in Nat, NEW t \in Nat, NEW Q, Safe(j, t, Q)
    PROVE  Safe(j, t, Q)'
<1>1. Guarded(j, t, Q) /\ Point(j, t) /\ Majority(Q) /\ Q \subseteq Node
  BY BootstrapAssumption DEF Safe, Guarded, Majority
<1>2. Point(j, t)'
  BY <1>1, PointStays
<1>3. \A v \in Q : Holder(v, j, t)'
  BY <1>1, HolderStays DEF Safe
<1>4. Majority(Q)'
  BY <1>1 DEF Majority
<1> QED
  BY <1>2, <1>3, <1>4 DEF Safe

-----------------------------------------------------------------------------
(* What a leader may count stays safe *)

\* Whoever is still in the leader's term and has acknowledged the entry holds it.
LEMMA AckedHolds ==
    TypeInv /\ LogInv /\ VoteInv =>
        \A l, v \in Node : \A j, t \in Nat :
            /\ role[l] = Leader /\ currentTerm[l] = t /\ Has(l, j, t)
            /\ Acked(v, l, j) /\ currentTerm[v] = t
            => Holder(v, j, t)
<1> SUFFICES ASSUME TypeInv, LogInv, VoteInv, NEW l \in Node, NEW v \in Node, NEW j \in Nat,
                    NEW t \in Nat, role[l] = Leader, currentTerm[l] = t, Has(l, j, t),
                    Acked(v, l, j), currentTerm[v] = t
             PROVE  Holder(v, j, t)
  OBVIOUS
<1>1. PICK i \in Nat : i >= j /\ Acks(v, l, i)
  BY DEF Acked
<1>2. j >= 1 /\ j <= Len(log[l])
  BY HasFacts
<1>3. /\ log[l] \in Seq(Entry) /\ Len(log[l]) \in Nat /\ DOMAIN log[l] = 1 .. Len(log[l])
      /\ log[v] \in Seq(Entry) /\ Len(log[v]) \in Nat /\ DOMAIN log[v] = 1 .. Len(log[v])
  BY NodeTypes
<1>4. i # 0 /\ i <= Len(log[l]) /\ Has(v, i, log[l][i].term)
  BY <1>1, <1>2 DEF LogInv, AckSound
<1>5. PICK u \in Nat : u = log[l][i].term
  BY <1>3, <1>4, EntryFields
<1>6. Has(l, i, u) /\ Has(v, i, u)
  BY <1>3, <1>4, <1>5 DEF Has
<1>7. \A k \in 1 .. i : log[l][k] = log[v][k]
  BY <1>6, HasAgree
<1>8. Has(v, j, t)
  BY <1>1, <1>2, <1>3, <1>6, <1>7 DEF Has
<1>9. \A c \in Node : Backs(v, c) => ~ (currentTerm[c] > t)
  <2> SUFFICES ASSUME NEW c \in Node, Backs(v, c) PROVE ~ (currentTerm[c] > t)
    OBVIOUS
  <2>1. currentTerm[v] >= currentTerm[c] /\ currentTerm[c] \in Nat
    BY BacksBound, NodeTypes
  <2> QED
    BY <2>1
<1> QED
  BY <1>8, <1>9 DEF Holder

\* The same of the next state.
LEMMA AckedHoldsNext ==
    TypeInv' /\ LogInv' /\ VoteInv' =>
        \A l, v \in Node : \A j, t \in Nat :
            /\ role'[l] = Leader /\ currentTerm'[l] = t /\ Has(l, j, t)'
            /\ Acked(v, l, j)' /\ currentTerm'[v] = t
            => Holder(v, j, t)'
<1>1. (TypeInv /\ LogInv /\ VoteInv =>
        \A l, v \in Node : \A j, t \in Nat :
            /\ role[l] = Leader /\ currentTerm[l] = t /\ Has(l, j, t)
            /\ Acked(v, l, j) /\ currentTerm[v] = t
            => Holder(v, j, t))'
  BY AckedHolds, PTL
<1> QED
  BY <1>1

\* The entry a leader has just appended is nobody else's yet.
LEMMA NewestIsSafe ==
    ASSUME NEW n \in Node, Goes(n), Extend(n), NEW j \in Nat, NEW t \in Nat,
           t = currentTerm[n], j = Len(log'[n]), NEW Q, Majority(Q),
           \A v \in Q : currentTerm'[v] <= t \/ Acked(v, n, j)'
    PROVE  Point(j, t)' /\ \A v \in Node : ~ Acked(v, n, j)'
<1>0. /\ Moves(n) /\ role[n] = Leader /\ role'[n] = Leader /\ Len(log'[n]) = Len(log[n]) + 1
      /\ Len(log[n]) \in Nat /\ TypeInv' /\ LogInv'
  BY ExtendLog, NodeTypes DEF Goes, Moves
<1>1. ASSUME NEW v \in Node, Acked(v, n, j)' PROVE FALSE
  <2>1. PICK i \in Nat : i >= j /\ Acks(v, n, i)'
    BY <1>1 DEF Acked
  <2>2. i # 0
    BY <1>0, <2>1
  <2>3. ~ \E a \in msgs : Accept(n, a)
    BY <1>0, AcceptorFollows DEF Follower, Leader
  <2>4. Acks(v, n, i)
    BY <1>0, <2>1, <2>2, <2>3, AcksWere
  <2>5. i <= Len(log[n])
    BY <1>0, <2>2, <2>4 DEF Moves, LogInv, AckSound
  <2> QED
    BY <1>0, <2>1, <2>5
<1>2. \A v \in Q : v \in Node /\ currentTerm'[v] <= t
  BY <1>1, BootstrapAssumption DEF Majority
<1>3. \A e \in elected' : e.term <= t /\ e.term \in Nat
  <2>1. elected' = elected /\ \A c \in Node : currentTerm'[c] = currentTerm[c]
    BY <1>0 DEF Extend, Leads, Moves, PlainBy, Same
  <2>2. \A v \in Q : currentTerm[v] <= t
    BY <1>2, <2>1
  <2>3. \A e \in elected : e.term <= t
    BY <2>2, NoLater DEF Goes, Moves
  <2>4. \A e \in elected : e.term \in Nat
    BY DEF Goes, Moves, TypeInv, TypeOK
  <2> QED
    BY <2>1, <2>3, <2>4
<1>4. \A x \in Links' : ~ (x.entry.term > t)
  BY <1>0, <1>3 DEF LogInv, LinkElected, Won
<1>5. \A l \in Node : ~ (role'[l] = Leader /\ currentTerm'[l] > t)
  BY <1>0, <1>3 DEF LogInv, Offices, Won
<1>6. \A m \in msgs' : ~ (IsAppend(m) /\ m.term > t)
  BY <1>0, <1>3 DEF LogInv, RequestShape, Won
<1> QED
  BY <1>1, <1>4, <1>5, <1>6 DEF Point, LinksCover

\* A leader's count after a step is as good as before it.
LEMMA ChosenStays ==
    ASSUME NEW n \in Node, Goes(n), Choose, NEW l \in Node, NEW j \in Nat, NEW t \in Nat,
           t = currentTerm'[l], role'[l] = Leader, Has(l, j, t)', NEW Q, Majority(Q),
           \A v \in Q : currentTerm'[v] <= t \/ Acked(v, l, j)'
    PROVE  Point(j, t)' /\ \A v \in Node : Acked(v, l, j)' => Holder(v, j, t)'
<1>0. /\ Moves(n) /\ TypeInv /\ LogInv /\ VoteInv /\ TypeInv' /\ LogInv' /\ VoteInv'
      /\ Q \subseteq Node
  BY BootstrapAssumption DEF Goes, Moves, Majority
<1>1. j >= 1 /\ j <= Len(log'[l]) /\ \E x \in Links' : x.index = j /\ x.entry.term = t
  BY <1>0, HasFactsNext
<1>2. role[l] = Leader /\ currentTerm[l] = t
  <2>1. SUFFICES ASSUME role[l] # Leader PROVE FALSE
    BY <1>0, WhoLeads
  <2>2. /\ l = n /\ role[n] # Leader /\ log'[n] = log[n]
        /\ \A k \in Node : ~ Won(k, currentTerm'[n])
    BY <1>0, <2>1, WhoLeads
  <2>3. Has(n, j, t)
    BY <2>2 DEF Has
  <2>4. \E x \in Links : x.entry.term = t
    BY <1>0, <2>3, HasFacts
  <2> QED
    BY <1>0, <2>2, <2>4 DEF LogInv, LinkElected
<1>3. /\ log'[l] = log[l] \/ (l = n /\ Extend(n))
      /\ \A k \in DOMAIN log[l] : log'[l][k] = log[l][k]
      /\ DOMAIN log[l] = 1 .. Len(log[l]) /\ Len(log[l]) \in Nat
      /\ DOMAIN log'[l] = 1 .. Len(log'[l]) /\ Len(log'[l]) \in Nat
  BY <1>0, <1>2, LeaderKeeps, NodeTypes, NodeTypesNext
<1>4. \A v \in Node : currentTerm[v] \in Nat /\ currentTerm'[v] \in Nat /\ currentTerm'[v] >= currentTerm[v]
  BY <1>0, TermsGrow, NodeTypes, NodeTypesNext
<1>5. ASSUME NEW v \in Node, Acked(v, l, j)', ~ Acked(v, l, j)
      PROVE  currentTerm'[v] = t
  <2>1. PICK i \in Nat : i >= j /\ Acks(v, l, i)'
    BY <1>5 DEF Acked
  <2>2. i # 0 /\ ~ Acks(v, l, i)
    BY <1>1, <1>5, <2>1 DEF Acked
  <2>3. PICK a \in msgs : Accept(n, a) /\ v = n /\ a.term = currentTerm[l]
    BY <1>0, <2>1, <2>2, AcksWere
  <2> QED
    BY <1>2, <2>3 DEF Accept
<1>6. CASE Has(l, j, t)
  <2>1. \A v \in Q : currentTerm[v] <= t \/ Acked(v, l, j)
    <3> SUFFICES ASSUME NEW v \in Q PROVE currentTerm[v] <= t \/ Acked(v, l, j)
      OBVIOUS
    <3>1. v \in Node /\ (currentTerm'[v] <= t \/ Acked(v, l, j)')
      BY <1>0
    <3> QED
      BY <1>4, <1>5, <3>1
  <2>2. Choosable(l, j)
    BY <1>2, <1>6, <2>1 DEF Choosable, Majority
  <2>3. Point(j, t) /\ \A v \in Node : Acked(v, l, j) => Holder(v, j, t)
    BY <1>2, <2>2 DEF Choose
  <2>4. Guarded(j, t, Q)
    BY <1>0, <1>2, <2>1, <2>3 DEF Guarded
  <2>5. Point(j, t)'
    BY <2>4, PointStays
  <2>6. ASSUME NEW v \in Node, Acked(v, l, j)' PROVE Holder(v, j, t)'
    <3>1. CASE Acked(v, l, j)
      BY <2>3, <3>1, HolderStays
    <3>2. CASE ~ Acked(v, l, j)
      BY <1>0, <1>5, <2>6, <3>2, AckedHoldsNext
    <3> QED
      BY <3>1, <3>2
  <2> QED
    BY <2>5, <2>6
<1>7. CASE ~ Has(l, j, t)
  <2>1. j \in DOMAIN log'[l] /\ log'[l][j].term = t
    BY DEF Has
  <2>2. l = n /\ Extend(n) /\ j \notin DOMAIN log[n]
    BY <1>3, <1>7, <2>1 DEF Has
  <2>3. Len(log'[n]) = Len(log[n]) + 1
    BY <1>0, <2>2, ExtendLog
  <2>4. j = Len(log'[n])
    BY <1>1, <1>3, <2>2, <2>3
  <2> QED
    BY <1>2, <2>2, <2>4, NewestIsSafe
<1> QED
  BY <1>6, <1>7

\* So are all leaders' counts.
LEMMA ChooseStays ==
    ASSUME NEW n \in Node, Goes(n), Choose
    PROVE  Choose'
<1> SUFFICES ASSUME NEW l \in Node, NEW j \in Nat, Choosable(l, j)'
             PROVE  /\ Point(j, currentTerm[l])'
                    /\ \A v \in Node : Acked(v, l, j)' => Holder(v, j, currentTerm[l])'
  BY DEF Choose
<1>1. PICK t \in Nat : t = currentTerm'[l]
  BY NodeTypesNext DEF Goes, Moves
<1>2. /\ role'[l] = Leader /\ j \in DOMAIN log'[l] /\ log'[l][j].term = currentTerm'[l]
      /\ \E Q \in SUBSET Bootstrap :
            Majority(Q)' /\ \A v \in Q : currentTerm'[v] <= currentTerm'[l] \/ Acked(v, l, j)'
  BY DEF Choosable, Has
<1>3. PICK Q \in SUBSET Bootstrap :
            Majority(Q)' /\ \A v \in Q : currentTerm'[v] <= currentTerm'[l] \/ Acked(v, l, j)'
  BY <1>2
<1>4. Majority(Q) /\ \A v \in Q : currentTerm'[v] <= t \/ Acked(v, l, j)'
  BY <1>1, <1>3 DEF Majority
<1>5. Has(l, j, t)'
  BY <1>1, <1>2 DEF Has
<1>6. Point(j, t)' /\ \A v \in Node : Acked(v, l, j)' => Holder(v, j, t)'
  BY <1>1, <1>2, <1>4, <1>5, ChosenStays
<1>7. Point(j, currentTerm[l])'
  BY <1>1, <1>6 DEF Point, LinksCover, Covers
<1>8. ASSUME NEW v \in Node, Acked(v, l, j)' PROVE Holder(v, j, currentTerm[l])'
  <2>1. Holder(v, j, t)'
    BY <1>6, <1>8
  <2> QED
    BY <1>1, <2>1 DEF Holder, Covers, Has
<1> QED
  BY <1>7, <1>8

-----------------------------------------------------------------------------
(* What is committed *)

\* A leader commits up to an entry of its term that a majority holds.
LEMMA LeaderCommits ==
    ASSUME NEW n \in Node, Goes(n), Choose', Leads(n), commitIndex'[n] # commitIndex[n]
    PROVE  CommitSafe(n)'
<1>0. /\ TypeInv' /\ LogInv' /\ VoteInv' /\ role'[n] = Leader /\ currentTerm'[n] = currentTerm[n]
      /\ currentTerm[n] \in Nat /\ commitIndex'[n] \in Nat /\ matchIndex'[n] \in [Node -> Nat]
  BY NodeTypes, NodeTypesNext DEF Goes, Moves, Leads
<1>1. PICK k, t \in Nat : k = commitIndex'[n] /\ t = currentTerm'[n]
  BY <1>0
<1>2. k \in DOMAIN log'[n] /\ log'[n][k].term = t
  BY <1>0, <1>1 DEF Leads, Counts
<1>3. PICK Q : Majority(Q) /\ \A v \in Q : v = n \/ matchIndex'[n][v] >= k
  BY <1>1 DEF Leads, Counts
<1>4. Has(n, k, t)' /\ Majority(Q)' /\ Q \in SUBSET Bootstrap /\ Q \subseteq Node
  BY <1>2, <1>3, BootstrapAssumption DEF Has, Majority
<1>5. ASSUME NEW v \in Q, v # n PROVE Acked(v, n, k)'
  <2>1. PICK i \in Nat : i = matchIndex'[n][v] /\ i >= k
    BY <1>0, <1>3, <1>4, <1>5
  <2>2. Acks(v, n, i)'
    BY <2>1 DEF Acks
  <2> QED
    BY <2>1, <2>2 DEF Acked
<1>6. Choosable(n, k)'
  <2>1. \A v \in Q : currentTerm'[v] <= currentTerm'[n] \/ Acked(v, n, k)'
    BY <1>0, <1>5
  <2>2. (Has(n, k, currentTerm[n]))'
    BY <1>1, <1>2 DEF Has
  <2> QED
    BY <1>0, <1>4, <2>1, <2>2 DEF Choosable
<1>7. /\ Point(k, currentTerm[n])'
      /\ \A v \in Node : Acked(v, n, k)' => Holder(v, k, currentTerm[n])'
  BY <1>6 DEF Choose
<1>8. Point(k, t)'
  BY <1>1, <1>7 DEF Point, LinksCover, Covers
<1>9. ASSUME NEW v \in Q PROVE Holder(v, k, t)'
  <2>1. CASE v # n
    <3>1. Holder(v, k, currentTerm[n])'
      BY <1>4, <1>5, <1>7, <2>1
    <3> QED
      BY <1>1, <3>1 DEF Holder, Covers, Has
  <2>2. CASE v = n
    <3>1. ASSUME NEW c \in Node, Backs(n, c)' PROVE ~ (currentTerm'[c] > t)
      <4>1. currentTerm'[n] >= currentTerm'[c] /\ currentTerm'[c] \in Nat
        BY <1>0, <3>1, BacksBoundNext, NodeTypesNext
      <4> QED
        BY <1>1, <4>1
    <3> QED
      BY <1>0, <1>1, <1>4, <2>2, <3>1 DEF Holder
  <2> QED
    BY <2>1, <2>2
<1>10. Safe(k, t, Q)'
  BY <1>4, <1>8, <1>9 DEF Safe
<1>11. commitIndex'[n] <= k /\ t <= currentTerm'[n]
  BY <1>0, <1>1
<1> QED
  BY <1>4, <1>10, <1>11 DEF CommitSafe

\* A follower commits up to what its leader told it of, in the log they then share.
LEMMA FollowerCommits ==
    ASSUME NEW n \in Node, Goes(n), RequestCommit, NEW a \in msgs, Accept(n, a),
           commitIndex'[n] # commitIndex[n]
    PROVE  CommitSafe(n)'
<1>0. /\ Moves(n) /\ TypeInv /\ LogInv /\ TypeInv' /\ LogInv' /\ IsAppend(a)
      /\ Merge(log[n], a, log'[n]) /\ currentTerm'[n] = a.term
      /\ commitIndex'[n] <= a.leaderCommit /\ commitIndex'[n] \in Nat
      /\ log[n] \in Seq(Entry) /\ log'[n] \in Seq(Entry)
  BY NodeTypes, NodeTypesNext DEF Goes, Moves, Accept
<1>1. SUFFICES ASSUME commitIndex'[n] > 0
               PROVE  \E j \in Nat : \E t \in Nat : \E Q \in SUBSET Bootstrap :
                         /\ commitIndex'[n] <= j /\ Safe(j, t, Q)'
                         /\ t <= currentTerm'[n] /\ Has(n, j, t)'
  BY DEF CommitSafe
<1>2. /\ a.prevLogIndex \in Nat /\ a.entries \in Seq(Entry) /\ a.leaderCommit \in Nat
      /\ End(a) \in Nat /\ EndTerm(a) \in Nat
  BY <1>0, AppendFields
<1>3. a.leaderCommit > 0 /\ a.leaderCommit <= End(a) /\ End(a) > 0
  BY <1>0, <1>1, <1>2 DEF RequestCommit, ToldSafe
<1>4. PICK j \in Nat, t \in Nat, Q \in SUBSET Bootstrap :
         /\ a.leaderCommit <= j /\ Safe(j, t, Q) /\ t <= a.term
         /\ NotNewer(t, j, EndTerm(a), End(a))
  BY <1>0, <1>3 DEF RequestCommit, ToldSafe
<1>5. Safe(j, t, Q)'
  BY <1>4, SafeStays
<1>6. PICK v \in Node : v \in Q
  BY <1>4, QuorumsMeet DEF Safe
<1>7. j >= 1 /\ \E x \in Links : x.index = j /\ x.entry.term = t
  BY <1>0, <1>4, <1>6, HasFacts DEF Safe, Holder
<1>8. End(a) \in DOMAIN log'[n] /\ log'[n][End(a)].term = EndTerm(a)
  BY <1>0, <1>2, <1>3, MergeHolds
<1>9. j \in DOMAIN log'[n] /\ log'[n][j].term = t
  <2> DEFINE new == log'[n]
             L == Links
             e == End(a)
  <2>1. /\ LinkShape(L) /\ FirstLow(L) /\ new \in Seq(Entry) /\ LogLinks(new) \subseteq L
        /\ LinksCover(L, j, t) /\ e \in Nat /\ e \in DOMAIN new /\ NotNewer(t, j, new[e].term, e)
    BY <1>0, <1>2, <1>4, <1>8, AcceptLinks DEF LogInv, LinkInv, Safe, Point
  <2>2. PICK x \in L : x.index = j /\ x.entry.term = t
    BY <1>7
  <2> HIDE DEF new, L, e
  <2>3. j \in DOMAIN new /\ new[j].term = t
    BY <1>7, <2>1, <2>2, ChainCovers
  <2> QED
    BY <2>3 DEF new
<1>10. commitIndex'[n] <= j
  BY <1>0, <1>2, <1>4
<1> QED
  BY <1>0, <1>4, <1>5, <1>9, <1>10 DEF Has

\* What a node knows to be committed is in its log after the step.
LEMMA NodeCommitStays ==
    ASSUME NEW n \in Node, Goes(n), Choose', NodeCommit, RequestCommit
    PROVE  NodeCommit'
<1>0. Moves(n) /\ Acts(n) /\ \A c \in Node \ {n} : Same(c)
  BY DEF Goes, Moves, PlainBy
<1> SUFFICES ASSUME NEW c \in Node PROVE CommitSafe(c)'
  BY DEF NodeCommit
<1>1. /\ commitIndex[c] \in Nat /\ commitIndex'[c] \in Nat /\ currentTerm[c] \in Nat
      /\ currentTerm'[c] \in Nat /\ currentTerm'[c] >= currentTerm[c]
  BY <1>0, NodeTypes, NodeTypesNext, TermsGrow DEF Moves
<1>2. CASE commitIndex'[c] = 0
  BY <1>2 DEF CommitSafe
<1>3. CASE commitIndex'[c] = commitIndex[c] /\ commitIndex'[c] # 0
  <2>1. PICK j \in Nat, t \in Nat, Q \in SUBSET Bootstrap :
            commitIndex[c] <= j /\ Safe(j, t, Q) /\ t <= currentTerm[c] /\ Has(c, j, t)
    BY <1>1, <1>3 DEF NodeCommit, CommitSafe
  <2>2. Safe(j, t, Q)'
    BY <2>1, SafeStays
  <2>3. Has(c, j, t)'
    BY <1>1, <2>1, HasStays DEF Safe
  <2>4. commitIndex'[c] <= j /\ t <= currentTerm'[c]
    BY <1>1, <1>3, <2>1
  <2> QED
    BY <2>2, <2>3, <2>4 DEF CommitSafe
<1>4. CASE commitIndex'[c] # commitIndex[c] /\ commitIndex'[c] # 0
  <2>1. c = n
    BY <1>0, <1>4 DEF Same
  <2>2. Leads(n) \/ \E a \in msgs : Accept(n, a)
    BY <1>0, <1>4, <2>1 DEF Acts, Calm, Grant, Eases, Campaign, Tally, Extend, Ack
  <2> QED
    BY <1>4, <2>1, <2>2, LeaderCommits, FollowerCommits
<1> QED
  BY <1>2, <1>3, <1>4

\* What is committed stays committed, and what is added was safe to add.
LEMMA CommittedSafeStays ==
    ASSUME NEW n \in Node, Goes(n), NodeCommit', CommittedSafe
    PROVE  CommittedSafe'
<1>0. Moves(n) /\ Acts(n) /\ TypeInv' /\ LogInv' /\ commitIndex[n] \in Nat /\ commitIndex'[n] \in Nat
  BY NodeTypes, NodeTypesNext DEF Goes, Moves, PlainBy
<1> SUFFICES ASSUME NEW c \in committed'
             PROVE  \E j \in Nat : \E t \in Nat : \E Q \in SUBSET Bootstrap :
                       /\ 1 <= c.index /\ c.index <= j /\ Safe(j, t, Q)'
                       /\ \A v \in Q : log'[v][c.index] = c.entry
  BY DEF CommittedSafe
<1>1. CASE c \in committed
  <2>1. PICK j \in Nat, t \in Nat, Q \in SUBSET Bootstrap :
            /\ 1 <= c.index /\ c.index <= j /\ Safe(j, t, Q)
            /\ \A v \in Q : log[v][c.index] = c.entry
    BY <1>1 DEF CommittedSafe
  <2>2. Safe(j, t, Q)'
    BY <2>1, SafeStays
  <2>3. c.index \in Nat
    BY <1>1 DEF Moves, Goes, TypeInv, TypeOK
  <2>4. ASSUME NEW v \in Q PROVE log'[v][c.index] = c.entry
    <3>1. v \in Node /\ currentTerm[v] >= t /\ Has(v, j, t) /\ Point(j, t)
      BY <2>1, BootstrapAssumption DEF Safe, Holder
    <3>2. \A i \in 1 .. j : log'[v][i] = log[v][i]
      BY <3>1, HasStays
    <3> QED
      BY <2>1, <2>3, <3>2
  <2> QED
    BY <2>1, <2>2, <2>4
<1>2. CASE c \notin committed
  <2>1. Records(n)
    BY <1>0, <1>2 DEF Acts, Calm, Grant, Eases, Campaign, Tally, Extend, Ack, Leads, Accept
  <2>2. PICK i \in (commitIndex[n] + 1) .. commitIndex'[n] : c = [index |-> i, entry |-> log'[n][i]]
    BY <1>2, <2>1 DEF Records
  <2>3. c.index = i /\ c.entry = log'[n][i] /\ i \in Nat /\ i >= 1 /\ i <= commitIndex'[n]
    BY <1>0, <2>2
  <2>4. PICK j \in Nat, t \in Nat, Q \in SUBSET Bootstrap :
            commitIndex'[n] <= j /\ Safe(j, t, Q)' /\ t <= currentTerm'[n] /\ Has(n, j, t)'
    BY <1>0, <2>3 DEF NodeCommit, CommitSafe
  <2>5. i \in 1 .. j
    BY <1>0, <2>3, <2>4
  <2>6. ASSUME NEW v \in Q PROVE log'[v][i] = log'[n][i]
    <3>1. v \in Node /\ Has(v, j, t)'
      BY <2>4, BootstrapAssumption DEF Safe, Holder
    <3> QED
      BY <1>0, <2>4, <2>5, <3>1, HasAgreeNext
  <2> QED
    BY <2>3, <2>4, <2>5, <2>6
<1> QED
  BY <1>1, <1>2

\* What a leader tells of is in the part of its log the request ends with.
LEMMA RequestCommitStays ==
    ASSUME NEW n \in Node, Goes(n), NodeCommit', RequestCommit
    PROVE  RequestCommit'
<1>0. /\ Moves(n) /\ TypeInv' /\ LogInv' /\ commitIndex'[n] \in Nat /\ Len(log'[n]) \in Nat
  BY NodeTypesNext DEF Goes, Moves
<1> SUFFICES ASSUME NEW m \in msgs', IsAppend(m)
             PROVE  /\ m.leaderCommit <= End(m)
                    /\ m.leaderCommit > 0 =>
                          \E j \in Nat : \E t \in Nat : \E Q \in SUBSET Bootstrap :
                              /\ m.leaderCommit <= j /\ Safe(j, t, Q)' /\ t <= m.term
                              /\ NotNewer(t, j, EndTerm(m), End(m))
  BY DEF RequestCommit, ToldSafe
<1>1. CASE m \in msgs
  BY <1>1, SafeStays DEF RequestCommit, ToldSafe
<1>2. CASE m \notin msgs
  <2>1. Sent(n, m)
    BY <1>0, <1>2, NewMessages DEF Harmless, Granted, IsAck, IsAppend
  <2>2. /\ m.term = currentTerm'[n] /\ m.leaderCommit = commitIndex'[n]
        /\ End(m) = Len(log'[n]) /\ EndTerm(m) = LastTerm(log'[n])
    BY <1>0, <2>1, SentWindow
  <2>3. CASE commitIndex'[n] = 0
    BY <1>0, <2>2, <2>3
  <2>4. CASE commitIndex'[n] # 0
    <3>1. PICK j \in Nat, t \in Nat, Q \in SUBSET Bootstrap :
              commitIndex'[n] <= j /\ Safe(j, t, Q)' /\ t <= currentTerm'[n] /\ Has(n, j, t)'
      BY <1>0, <2>4 DEF NodeCommit, CommitSafe
    <3>2. Covers(n, j, t)' /\ j <= Len(log'[n])
      BY <1>0, <3>1, HasFactsNext
    <3>3. NotNewer(t, j, EndTerm(m), End(m))
      BY <2>2, <3>2 DEF Covers
    <3>4. m.leaderCommit <= End(m)
      BY <1>0, <2>2, <3>1, <3>2
    <3> QED
      BY <2>2, <3>1, <3>3, <3>4
  <2> QED
    BY <2>3, <2>4
<1> QED
  BY <1>1, <1>2

-----------------------------------------------------------------------------
(* The invariant *)

\* The invariant holds at the start, when nobody leads and nothing is committed.
LEMMA InitCommit == Init => CommitInv
<1> SUFFICES ASSUME Init PROVE CommitInv
  OBVIOUS
<1>1. Choose
  BY DEF Init, Choose, Choosable, Leader, Follower
<1>2. CommittedSafe /\ NodeCommit /\ RequestCommit
  BY DEF Init, CommittedSafe, NodeCommit, CommitSafe, RequestCommit
<1> QED
  BY <1>1, <1>2 DEF CommitInv

\* Every step preserves it.
LEMMA CommitInductive ==
    ASSUME Plain
    PROVE  PlainInv /\ CommitInv /\ [Next]_vars => CommitInv'
<1>1. PlainInv /\ CommitInv /\ Next => CommitInv'
  <2> SUFFICES ASSUME PlainInv, CommitInv, Next PROVE CommitInv'
    OBVIOUS
  <2>1. PlainInv'
    BY PlainInductive
  <2>2. PICK n \in Node : Moves(n)
    BY PlainMoves
  <2>3. Goes(n)
    BY <2>1, <2>2 DEF Goes, PlainInv
  <2>4. Choose'
    BY <2>3, ChooseStays DEF CommitInv
  <2>5. NodeCommit'
    BY <2>3, <2>4, NodeCommitStays DEF CommitInv
  <2>6. CommittedSafe' /\ RequestCommit'
    BY <2>3, <2>5, CommittedSafeStays, RequestCommitStays DEF CommitInv
  <2> QED
    BY <2>4, <2>5, <2>6 DEF CommitInv
<1>2. CommitInv /\ UNCHANGED vars => CommitInv'
  <2> SUFFICES ASSUME CommitInv, UNCHANGED vars PROVE CommitInv'
    OBVIOUS
  <2>1. /\ \A l \in Node : \A j \in Nat : Choosable(l, j)' <=> Choosable(l, j)
        /\ \A v, l \in Node : \A j \in Nat : Acked(v, l, j)' <=> Acked(v, l, j)
    BY DEF Choosable, Has, Majority, Acked, Acks, vars, electionVars, leaderVars
  <2>2. \A j, t : Point(j, t)' <=> Point(j, t)
    BY DEF Point, LinksCover, Links, Covers, vars, electionVars
  <2>3. \A v, j, t : Holder(v, j, t)' <=> Holder(v, j, t)
    BY DEF Holder, Has, Covers, Backs, vars, electionVars
  <2>4. \A j, t, Q : Safe(j, t, Q)' <=> Safe(j, t, Q)
    BY <2>2, <2>3 DEF Safe, Majority
  <2>5. Choose'
    <3>1. \A l \in Node : \A j \in Nat : Choosable(l, j)' =>
             /\ Point(j, currentTerm[l])
             /\ \A v \in Node : Acked(v, l, j)' => Holder(v, j, currentTerm[l])
      BY <2>1 DEF CommitInv, Choose
    <3>2. \A l \in Node : \A j \in Nat : Point(j, currentTerm[l]) => Point(j, currentTerm[l])'
      BY DEF Point, LinksCover, Links, Covers, vars, electionVars
    <3>3. \A l, v \in Node : \A j \in Nat :
             Holder(v, j, currentTerm[l]) => Holder(v, j, currentTerm[l])'
      BY DEF Holder, Has, Covers, Backs, vars, electionVars
    <3> QED
      BY <3>1, <3>2, <3>3 DEF Choose
  <2>6. CommittedSafe'
    BY <2>4 DEF CommitInv, CommittedSafe, vars
  <2>7. NodeCommit'
    BY <2>4 DEF CommitInv, NodeCommit, CommitSafe, Has, vars, electionVars
  <2>8. RequestCommit'
    BY <2>4 DEF CommitInv, RequestCommit, ToldSafe, vars
  <2> QED
    BY <2>5, <2>6, <2>7, <2>8 DEF CommitInv
<1> QED
  BY <1>1, <1>2

\* The invariant holds from the start on.
LEMMA CommitAlways == ASSUME Plain PROVE Spec => [](PlainInv /\ CommitInv)
<1>1. Spec => []PlainInv
  BY PlainAlways
<1>2. PlainInv /\ CommitInv /\ [Next]_vars => PlainInv' /\ CommitInv'
  BY PlainInductive, CommitInductive
<1> QED
  BY <1>1, <1>2, InitCommit, PTL DEF Spec

-----------------------------------------------------------------------------
(* What follows *)

\* The majorities that hold two committed entries meet.
LEMMA OnceCommitted == PlainInv /\ CommitInv => StateMachineSafety
<1> SUFFICES ASSUME PlainInv, CommitInv, NEW c \in committed, NEW d \in committed,
                    c.index = d.index
             PROVE  c = d
  BY DEF StateMachineSafety
<1>1. PICK Q : Majority(Q) /\ \A v \in Q : log[v][c.index] = c.entry
  BY DEF CommitInv, CommittedSafe, Safe
<1>2. PICK R : Majority(R) /\ \A v \in R : log[v][d.index] = d.entry
  BY DEF CommitInv, CommittedSafe, Safe
<1>3. PICK v \in Node : v \in Q /\ v \in R
  BY <1>1, <1>2, QuorumsMeet
<1>4. c.entry = d.entry
  BY <1>1, <1>2, <1>3
<1>5. c \in [index : Nat, entry : Entry] /\ d \in [index : Nat, entry : Entry]
  BY DEF PlainInv, TypeInv, TypeOK
<1> QED
  BY <1>4, <1>5

\* Nothing committed is ever contradicted: in a cluster whose voters are never
\* changed and whose owners do not compact, what drain_committed hands out at an
\* index is the same entry on every node, at any two times.
THEOREM CommittedOnce == ASSUME Plain PROVE Spec => []StateMachineSafety
BY OnceCommitted, CommitAlways, PTL

\* In such a cluster the leader of the newest term has every entry ever committed in
\* its log: on_request_vote grants nothing to a candidate with an older log, and
\* maybe_advance_commit counts nothing of an earlier term.
THEOREM LeadersAreComplete == ASSUME Plain PROVE Spec => []LeaderCompleteness
<1>1. PlainInv /\ CommitInv => LeaderCompleteness
  <2> SUFFICES ASSUME PlainInv, CommitInv, NEW n \in Node, role[n] = Leader,
                      \A p \in Node : currentTerm[p] <= currentTerm[n], NEW c \in committed
               PROVE  Holds(n, c.index) /\ EntryAt(n, c.index) = c.entry
    BY DEF LeaderCompleteness
  <2>0. /\ TypeInv /\ PlainState /\ LogInv /\ c.index \in Nat /\ currentTerm[n] \in Nat
        /\ log[n] \in Seq(Entry) /\ Len(log[n]) \in Nat /\ DOMAIN log[n] = 1 .. Len(log[n])
    BY NodeTypes DEF PlainInv, TypeInv, TypeOK
  <2>1. PICK j \in Nat, t \in Nat, Q \in SUBSET Bootstrap :
            /\ 1 <= c.index /\ c.index <= j /\ Safe(j, t, Q)
            /\ \A v \in Q : log[v][c.index] = c.entry
    BY DEF CommitInv, CommittedSafe
  <2>2. PICK v \in Node : v \in Q
    BY <2>1, QuorumsMeet DEF Safe
  <2>3. currentTerm[v] >= t /\ Has(v, j, t) /\ Point(j, t) /\ log[v][c.index] = c.entry
    BY <2>1, <2>2 DEF Safe, Holder
  <2>4. t <= currentTerm[n]
    <3>1. currentTerm[v] \in Nat /\ currentTerm[v] <= currentTerm[n]
      BY <2>0, NodeTypes
    <3> QED
      BY <2>0, <2>3, <3>1
  <2>5. j >= 1 /\ \E x \in Links : x.index = j /\ x.entry.term = t
    BY <2>0, <2>3, HasFacts
  <2>6. Has(n, j, t)
    <3>1. CASE t = currentTerm[n]
      BY <2>0, <2>5, <3>1 DEF LogInv, LeaderHolds
    <3>2. CASE t # currentTerm[n]
      <4>1. Covers(n, j, t)
        BY <2>0, <2>3, <2>4, <3>2 DEF Point
      <4> DEFINE lg == log[n]
                 L == Links
                 e == Len(lg)
      <4>2. /\ LinkShape(L) /\ FirstLow(L) /\ lg \in Seq(Entry) /\ LogLinks(lg) \subseteq L
            /\ LinksCover(L, j, t) /\ e \in Nat
        BY <2>0, <2>3, LinksIn DEF LogInv, LinkInv, Point
      <4>3. PICK x \in L : x.index = j /\ x.entry.term = t
        BY <2>5
      <4>4. x.entry.term >= 1
        BY <4>2, <4>3 DEF LinkShape
      <4>5. e # 0
        BY <2>0, <2>5, <4>1, <4>3, <4>4, LogEnd DEF Covers, NotNewer
      <4>6. e \in DOMAIN lg /\ NotNewer(t, j, lg[e].term, e)
        BY <2>0, <4>1, <4>5, LogEnd DEF Covers
      <4> HIDE DEF lg, L, e
      <4>7. j \in DOMAIN lg /\ lg[j].term = t
        BY <2>5, <4>2, <4>3, <4>6, ChainCovers
      <4> QED
        BY <4>7 DEF lg, Has
    <3> QED
      BY <3>1, <3>2
  <2>7. c.index \in 1 .. j /\ log[n][c.index] = log[v][c.index]
    BY <2>0, <2>1, <2>3, <2>6, HasAgree
  <2>8. c.index \in 1 .. Len(log[n])
    BY <2>0, <2>1, <2>6 DEF Has
  <2> QED
    BY <2>0, <2>3, <2>7, <2>8, PlainReads
<1> QED
  BY <1>1, CommitAlways, PTL

\* In such a cluster no node counts as committed what its log does not have, even
\* right after recover or the truncation of a conflicting tail.
THEOREM CommittedIsHeld == ASSUME Plain PROVE Spec => []CommittedIsPresent
<1>1. PlainInv /\ CommitInv => CommittedIsPresent
  <2> SUFFICES ASSUME PlainInv, CommitInv, NEW n \in Node
               PROVE  commitIndex[n] <= LastLogIndex(n)
    BY DEF CommittedIsPresent
  <2>1. /\ TypeInv /\ PlainState /\ LogInv /\ commitIndex[n] \in Nat /\ Len(log[n]) \in Nat
        /\ LastLogIndex(n) = Len(log[n])
    BY NodeTypes, PlainReads DEF PlainInv
  <2>2. CASE commitIndex[n] = 0
    BY <2>1, <2>2
  <2>3. CASE commitIndex[n] # 0
    <3>1. PICK j \in Nat, t \in Nat : commitIndex[n] <= j /\ Has(n, j, t)
      BY <2>1, <2>3 DEF CommitInv, NodeCommit, CommitSafe
    <3>2. j <= Len(log[n])
      BY <2>1, <3>1, HasFacts
    <3> QED
      BY <2>1, <3>1, <3>2
  <2> QED
    BY <2>2, <2>3
<1> QED
  BY <1>1, CommitAlways, PTL

=============================================================================
