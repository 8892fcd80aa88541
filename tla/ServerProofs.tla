---------------------------- MODULE ServerProofs ----------------------------
(***************************************************************************)
(* Proofs about one kurogane-node process: what it has told anyone is on   *)
(* its disk, its answers are vouched for by its log, compaction keeps up   *)
(* and the transport reaches only servers that were registered, wherever   *)
(* the process dies.                                                       *)
(***************************************************************************)
EXTENDS Server, Basics

(* Types *)

Item ==
    [index : Nat, term : Nat, owner : Call \cup {"peer", "config"}, config : Membership \cup {Nil}]
Vote == Peer \cup {Self, Nil}

File ==
    [term : Nat, vote : Vote, log : Seq(Item), boundary : Nat, base : Membership,
     learners : SUBSET {Learner}]

Effect ==
    [kind : {"HardState"}, term : Nat, vote : Vote]
      \cup [kind : {"Log"}, from : Nat, entries : Seq(Item)]
      \cup [kind : {"Snapshot"}, boundary : Nat, base : Membership]
      \cup [kind : {"Learners"}, learners : SUBSET {Learner}]
      \cup [kind : {"Send"}]

Queued ==
    [kind : {"Event"}]
      \cup [kind : Kinds \cup {"FirstTerm", "SecondTerm", "Result"}, call : Call]

Verdict ==
    [kind : {"Indeterminate", "Unavailable", "Removed", "Accepted", "Lost"}]
      \cup [kind : {"NotLeader"}, hint : Peer \cup {Nil}]
      \cup [kind : {"Learner"}, connected : BOOLEAN]
      \cup [kind : {"Applied"}, entry : Item]

CallState ==
    [pc : {"Unmade", "Start", "FirstTerm", "Wait", "SecondTerm", "Result", "Done"},
     kind : Kinds \cup {Nil}, asked : BOOLEAN, index : Nat, term : Nat, before : Nat \cup {Nil},
     expected : Nat \cup {Nil}, answer : Verdict \cup {Nil}]

NodeState ==
    [role : {"Follower", "Candidate", "Leader"}, term : Nat, vote : Vote, log : Seq(Item),
     boundary : Nat, base : Membership, commit : Nat, results : UNION {[S -> Item] : S \in SUBSET Nat},
     learners : SUBSET {Learner}]

ServerTypeOK ==
    /\ node \in NodeState /\ disk \in File
    /\ hint \in Peer \cup {Nil}
    /\ queue \in Seq(Queued) /\ effects \in Seq(Effect)
    /\ reply \in Answers \cup {Nil}
    /\ alive \in BOOLEAN /\ watch \in Nat
    /\ call \in [Call -> CallState]
    /\ decided \in Nat
    /\ promise \in [term : Nat, vote : Vote, upTo : Nat]

-----------------------------------------------------------------------------
(* The invariant *)

\* What of a node is on its disk when nothing is left to dispatch.
Durable(n) ==
    [term |-> n.term, vote |-> n.vote, log |-> n.log, boundary |-> n.boundary,
     base |-> n.base, learners |-> n.learners]

Wrote(d, e) == IF e.kind = "Send" THEN d ELSE Flushed(d, e)

\* The file d takes back nothing of what was sent, pr.
Keeps(d, pr) ==
    \/ d.term > pr.term
    \/ /\ d.term = pr.term
       /\ pr.vote \in {Nil, d.vote}
       /\ pr.upTo <= LastIndex(d)

\* What has been sent of pr and n once n sends: Promised, for any replica and any
\* promise.
Telling(n, pr) ==
    LET now == [term |-> n.term, vote |-> n.vote,
                upTo |-> IF n.role = "Leader" THEN LastIndex(n) ELSE 0]
    IN  IF pr.term = n.term THEN [now EXCEPT !.upTo = Max({@, pr.upTo})] ELSE now

\* The file p[0] becomes p[k] with the k-th of the effects es.  No file on the way
\* takes back what was sent before, pr, and none that comes after a message of es
\* what has been sent with it, more.
Path(p, es, pr, more) ==
    /\ p \in [0 .. Len(es) -> File]
    /\ \A k \in 0 .. Len(es) : Keeps(p[k], pr)
    /\ \A k \in 1 .. Len(es) : p[k] = Wrote(p[k - 1], es[k])
    /\ \A j, k \in 1 .. Len(es) : j <= k /\ es[j].kind = "Send" => Keeps(p[k], more)

NoSends(es) == \A k \in DOMAIN es : es[k].kind # "Send"

\* Dispatching es turns the file d into f, and a crash in between does no harm.
Leads(d, es, f, pr, more) == \E p : Path(p, es, pr, more) /\ p[0] = d /\ p[Len(es)] = f

\* The same, for effects that send nothing new.
Reaches(d, es, f, pr) == Leads(d, es, f, pr, pr)

\* The results kept are those of entries counted committed; the ones that are
\* still held are the entries.
ResultsSound(n) ==
    \A i \in DOMAIN n.results :
        i <= n.commit /\ (i > n.boundary => n.results[i] = EntryOf(n, i))

Bounds(n) == n.boundary <= n.commit /\ n.commit <= LastIndex(n)

\* r is what a handler in state s asked for, and is waiting for.
Pending(r, s) ==
    /\ s.asked
    /\ s.pc \in {"Start", "FirstTerm", "SecondTerm", "Result"}
    /\ r = [kind |-> IF s.pc = "Start" THEN s.kind ELSE s.pc, call |-> r.call]

QueueSound ==
    /\ ~ alive => queue = <<>>
    /\ \A k \in DOMAIN queue : queue[k].kind # "Event" => Pending(queue[k], call[queue[k].call])
    /\ \A j, k \in DOMAIN queue :
          queue[j].kind # "Event" /\ queue[k].kind # "Event" /\ queue[j].call = queue[k].call
            => j = k

ReplySound ==
    /\ reply = Nil => effects = <<>>
    /\ reply # Nil /\ reply.to = Self => reply.acked <= LastIndex(node)
    /\ reply # Nil /\ reply.to \in Call =>
          /\ reply.kind = "Learner" => Learner \in node.learners
          /\ alive => /\ call[reply.to].asked /\ call[reply.to].pc = "Start"
                      /\ \A k \in DOMAIN queue : queue[k].kind # "Event" => queue[k].call # reply.to

CallSound(c) ==
    /\ call[c].pc = "Start" => call[c].kind \in Kinds
    /\ call[c].pc \in {"SecondTerm", "Result"} => call[c].index <= node.commit
    /\ call[c].pc = "Result" /\ call[c].index \in DOMAIN node.results =>
          node.results[call[c].index].term = call[c].expected
    /\ call[c].answer # Nil => call[c].pc = "Done"

\* What is left to dispatch makes the file what the memory is.
FileSound == Leads(disk, effects, Durable(node), promise, Telling(node, promise))

NodeSound ==
    /\ Bounds(node) /\ node.commit - node.boundary < Threshold
    /\ ResultsSound(node) /\ watch <= node.commit
    /\ node.commit <= decided \/ node.commit <= node.boundary

CallsSound == \A c \in Call : CallSound(c)

LearnersKnown == disk.learners \subseteq registered /\ clients \subseteq Peer \cup registered

ServerInv ==
    /\ ServerTypeOK
    /\ FileSound /\ NodeSound /\ QueueSound /\ ReplySound /\ CallsSound
    /\ AnswerIsVouchedFor /\ LearnersKnown

-----------------------------------------------------------------------------
(* Dispatching effects one by one *)

\* Lists of effects as they are written, as lists built by Append.
LEMMA ListsByAppend ==
    ASSUME NEW S, NEW es \in Seq(S), NEW a \in S, NEW b \in S
    PROVE  /\ es \o <<a>> = Append(es, a) /\ es \o <<a, b>> = Append(Append(es, a), b)
           /\ es \o <<>> = es /\ <<>> \o es = es
           /\ <<>> \in Seq(S) /\ <<a>> = Append(<<>>, a) /\ <<a, b>> = Append(Append(<<>>, a), b)
           /\ Append(es, a) \in Seq(S) /\ Append(Append(es, a), b) \in Seq(S)
<1>1. es \o <<a>> = Append(es, a)
  BY AppendIsConcat
<1>2. <<>> \in Seq(S) /\ <<a>> \in Seq(S) /\ <<b>> \in Seq(S) /\ <<a, b>> \in Seq(S)
  OBVIOUS
<1>3. <<a, b>> = <<a>> \o <<b>>
  <2>1. <<a, b>> = Append(<<a>>, b)
    OBVIOUS
  <2> QED
    BY <1>2, <2>1, AppendIsConcat
<1>4. es \o <<a, b>> = (es \o <<a>>) \o <<b>>
  BY <1>2, <1>3, ConcatAssociative
<1>5. Append(es, a) \in Seq(S) /\ Append(Append(es, a), b) \in Seq(S)
  OBVIOUS
<1>6. (es \o <<a>>) \o <<b>> = Append(Append(es, a), b)
  BY <1>1, <1>5, AppendIsConcat
<1>7. <<a>> = Append(<<>>, a) /\ <<a, b>> = Append(Append(<<>>, a), b)
  OBVIOUS
<1>8. es \o <<>> = es /\ <<>> \o es = es
  BY ConcatEmptySeq
<1> QED
  BY <1>1, <1>2, <1>4, <1>5, <1>6, <1>7, <1>8

\* Nothing to dispatch.
LEMMA LeadsNow ==
    ASSUME NEW pr, NEW more, NEW d \in File, Keeps(d, pr)
    PROVE  Leads(d, <<>>, d, pr, more)
<1> DEFINE p == [k \in {0} |-> d]
<1>1. Len(<<>>) = 0 /\ 0 .. 0 = {0} /\ 1 .. 0 = {}
  OBVIOUS
<1>2. Path(p, <<>>, pr, more) /\ p[0] = d
  BY <1>1 DEF Path
<1> QED
  BY <1>1, <1>2 DEF Leads

\* One more effect at the end.
LEMMA LeadsMore ==
    ASSUME NEW pr, NEW more, NEW d, NEW f, NEW es \in Seq(Effect), Leads(d, es, f, pr, more),
           NEW e \in Effect, NEW g \in File, g = Wrote(f, e), Keeps(g, pr),
           NoSends(Append(es, e)) \/ Keeps(g, more)
    PROVE  Leads(d, Append(es, e), g, pr, more)
<1>1. PICK p : Path(p, es, pr, more) /\ p[0] = d /\ p[Len(es)] = f
  BY DEF Leads
<1> DEFINE fs == Append(es, e)
           n == Len(es)
           q == [k \in 0 .. n + 1 |-> IF k = n + 1 THEN g ELSE p[k]]
<1>2. /\ n \in Nat /\ Len(fs) = n + 1 /\ fs[n + 1] = e /\ \A k \in 1 .. n : fs[k] = es[k]
      /\ DOMAIN fs = 1 .. n + 1
  OBVIOUS
<1>3. /\ p \in [0 .. n -> File] /\ \A k \in 0 .. n : Keeps(p[k], pr)
      /\ \A k \in 1 .. n : p[k] = Wrote(p[k - 1], es[k])
      /\ \A j, k \in 1 .. n : j <= k /\ es[j].kind = "Send" => Keeps(p[k], more)
  BY <1>1 DEF Path
<1> HIDE DEF fs, n
<1>4. q \in [0 .. n + 1 -> File]
  BY <1>2, <1>3
<1>5. \A k \in 0 .. n + 1 : Keeps(q[k], pr)
  <2> SUFFICES ASSUME NEW k \in 0 .. n + 1 PROVE Keeps(q[k], pr)
    OBVIOUS
  <2>1. CASE k = n + 1
    BY <1>2, <2>1
  <2>2. CASE k # n + 1
    <3>1. k \in 0 .. n /\ q[k] = p[k]
      BY <1>2, <2>2
    <3> QED
      BY <1>3, <3>1
  <2> QED
    BY <2>1, <2>2
<1>6. \A k \in 1 .. n + 1 : q[k] = Wrote(q[k - 1], fs[k])
  <2> SUFFICES ASSUME NEW k \in Nat, k \in 1 .. n + 1 PROVE q[k] = Wrote(q[k - 1], fs[k])
    BY <1>2
  <2>1. k - 1 \in 0 .. n /\ q[k - 1] = p[k - 1]
    BY <1>2
  <2>2. CASE k = n + 1
    <3>1. k - 1 = n /\ p[n] = f
      BY <1>1, <1>2, <2>2 DEF n
    <3>2. q[k] = g /\ q[k - 1] = f /\ fs[k] = e
      BY <1>2, <2>1, <2>2, <3>1
    <3> QED
      BY <3>2
  <2>3. CASE k # n + 1
    <3>1. k \in 1 .. n /\ q[k] = p[k]
      BY <1>2, <2>3
    <3> QED
      BY <1>2, <1>3, <2>1, <3>1
  <2> QED
    BY <2>2, <2>3
<1>7. \A j, k \in 1 .. n + 1 : j <= k /\ fs[j].kind = "Send" => Keeps(q[k], more)
  <2> SUFFICES ASSUME NEW j \in 1 .. n + 1, NEW k \in 1 .. n + 1, j <= k, fs[j].kind = "Send"
               PROVE  Keeps(q[k], more)
    OBVIOUS
  <2>1. CASE k = n + 1
    <3>1. ~ NoSends(fs)
      BY <1>2 DEF NoSends
    <3> QED
      BY <1>2, <2>1, <3>1 DEF fs
  <2>2. CASE k # n + 1
    <3>1. j \in 1 .. n /\ k \in 1 .. n /\ q[k] = p[k]
      BY <1>2, <2>2
    <3> QED
      BY <1>2, <1>3, <3>1
  <2> QED
    BY <2>1, <2>2
<1>8. q[0] = d /\ q[n + 1] = g
  BY <1>1, <1>2
<1> HIDE DEF q
<1>9. Path(q, fs, pr, more)
  BY <1>2, <1>4, <1>5, <1>6, <1>7 DEF Path
<1> QED
  BY <1>2, <1>8, <1>9 DEF Leads, fs

\* The first effect is dispatched.  If it is a message, what has been sent now is
\* kept to the end.
LEMMA LeadsLess ==
    ASSUME NEW pr, NEW more, NEW d, NEW f, NEW es \in Seq(Effect), es # <<>>,
           Leads(d, es, f, pr, more)
    PROVE  LET g == Wrote(d, Head(es))
           IN  /\ g \in File /\ Keeps(g, pr) /\ Leads(g, Tail(es), f, pr, more)
               /\ Head(es).kind = "Send" => Keeps(g, more) /\ Leads(g, Tail(es), f, more, more)
<1>1. PICK p : Path(p, es, pr, more) /\ p[0] = d /\ p[Len(es)] = f
  BY DEF Leads
<1> DEFINE fs == Tail(es)
           n == Len(es)
           q == [k \in 0 .. n - 1 |-> p[k + 1]]
<1>2. /\ n \in Nat /\ n >= 1 /\ Len(fs) = n - 1 /\ \A k \in 1 .. n - 1 : fs[k] = es[k + 1]
      /\ Head(es) = es[1]
  OBVIOUS
<1>3. /\ p \in [0 .. n -> File] /\ \A k \in 0 .. n : Keeps(p[k], pr)
      /\ \A k \in 1 .. n : p[k] = Wrote(p[k - 1], es[k])
      /\ \A j, k \in 1 .. n : j <= k /\ es[j].kind = "Send" => Keeps(p[k], more)
  BY <1>1 DEF Path
<1>4. q[n - 1] = f
  <2>1. n - 1 \in 0 .. n - 1 /\ (n - 1) + 1 = n
    BY <1>2
  <2> QED
    BY <1>1, <2>1
<1> HIDE DEF fs, n
<1>5. q[0] = p[1] /\ p[1] = Wrote(d, Head(es)) /\ p[1] \in File /\ Keeps(p[1], pr)
  BY <1>1, <1>2, <1>3
<1>6. q \in [0 .. n - 1 -> File] /\ \A k \in 0 .. n - 1 : Keeps(q[k], pr)
  <2> SUFFICES ASSUME NEW k \in 0 .. n - 1 PROVE p[k + 1] \in File /\ Keeps(p[k + 1], pr)
    OBVIOUS
  <2>1. k + 1 \in 0 .. n
    BY <1>2
  <2> QED
    BY <1>3, <2>1
<1>7. \A k \in 1 .. n - 1 : q[k] = Wrote(q[k - 1], fs[k])
  <2> SUFFICES ASSUME NEW k \in Nat, k \in 1 .. n - 1 PROVE q[k] = Wrote(q[k - 1], fs[k])
    BY <1>2
  <2>1. k \in 0 .. n - 1 /\ k - 1 \in 0 .. n - 1 /\ k + 1 \in 1 .. n /\ (k - 1) + 1 = k /\ (k + 1) - 1 = k
    BY <1>2
  <2>2. q[k] = p[k + 1] /\ q[k - 1] = p[k]
    BY <2>1
  <2>3. p[k + 1] = Wrote(p[k], es[k + 1])
    BY <1>3, <2>1
  <2> QED
    BY <1>2, <2>2, <2>3
<1>8. \A j, k \in 1 .. n - 1 : j <= k /\ fs[j].kind = "Send" => Keeps(q[k], more)
  <2> SUFFICES ASSUME NEW j \in 1 .. n - 1, NEW k \in 1 .. n - 1, j <= k, fs[j].kind = "Send"
               PROVE  Keeps(q[k], more)
    OBVIOUS
  <2>1. j + 1 \in 1 .. n /\ k + 1 \in 1 .. n /\ j + 1 <= k + 1 /\ q[k] = p[k + 1]
    BY <1>2
  <2>2. es[j + 1].kind = "Send"
    BY <1>2
  <2> QED
    BY <1>3, <2>1, <2>2
<1>9. ASSUME Head(es).kind = "Send" PROVE \A k \in 0 .. n - 1 : Keeps(q[k], more)
  <2> SUFFICES ASSUME NEW k \in 0 .. n - 1 PROVE Keeps(q[k], more)
    OBVIOUS
  <2>1. 1 \in 1 .. n /\ k + 1 \in 1 .. n /\ 1 <= k + 1 /\ q[k] = p[k + 1]
    BY <1>2
  <2> QED
    BY <1>2, <1>3, <1>9, <2>1
<1> HIDE DEF q
<1>10. Path(q, fs, pr, more)
  BY <1>2, <1>6, <1>7, <1>8 DEF Path
<1>11. Leads(q[0], fs, f, pr, more)
  BY <1>2, <1>4, <1>10 DEF Leads
<1>12. ASSUME Head(es).kind = "Send" PROVE Keeps(q[0], more) /\ Leads(q[0], fs, f, more, more)
  <2>1. 0 \in 0 .. n - 1
    BY <1>2
  <2>2. Path(q, fs, more, more)
    BY <1>2, <1>6, <1>7, <1>8, <1>9, <1>12 DEF Path
  <2> QED
    BY <1>2, <1>4, <1>9, <1>12, <2>1, <2>2 DEF Leads
<1> QED
  BY <1>5, <1>11, <1>12 DEF fs

\* What is reached takes back nothing.
LEMMA LeadsEnd ==
    ASSUME NEW pr, NEW more, NEW d, NEW f, NEW es \in Seq(Effect), Leads(d, es, f, pr, more)
    PROVE  f \in File /\ Keeps(f, pr) /\ d \in File /\ Keeps(d, pr)
<1>1. PICK p : Path(p, es, pr, more) /\ p[0] = d /\ p[Len(es)] = f
  BY DEF Leads
<1>2. Len(es) \in 0 .. Len(es) /\ 0 \in 0 .. Len(es)
  OBVIOUS
<1> QED
  BY <1>1, <1>2 DEF Path

\* With nothing to dispatch the file is what it is to become.
LEMMA LeadsNone ==
    ASSUME NEW pr, NEW more, NEW d, NEW f, Leads(d, <<>>, f, pr, more)
    PROVE  d = f /\ d \in File /\ Keeps(d, pr)
<1>1. Len(<<>>) = 0 /\ 0 .. 0 = {0}
  OBVIOUS
<1> QED
  BY <1>1 DEF Leads, Path

\* Effects without messages send nothing, whatever would be sent.
LEMMA LeadsQuietly ==
    ASSUME NEW pr, NEW more, NEW other, NEW d, NEW f, NEW es \in Seq(Effect), NoSends(es),
           Leads(d, es, f, pr, more)
    PROVE  Leads(d, es, f, pr, other)
<1>1. PICK p : Path(p, es, pr, more) /\ p[0] = d /\ p[Len(es)] = f
  BY DEF Leads
<1>2. \A j \in 1 .. Len(es) : es[j].kind # "Send"
  BY DEF NoSends
<1>3. Path(p, es, pr, other)
  BY <1>1, <1>2 DEF Path
<1> QED
  BY <1>1, <1>3 DEF Leads

\* Where nothing new is sent.
LEMMA ReachesNow ==
    ASSUME NEW pr, NEW d \in File, Keeps(d, pr)
    PROVE  Reaches(d, <<>>, d, pr)
BY LeadsNow DEF Reaches

\* The same, with one more effect.
LEMMA ReachesMore ==
    ASSUME NEW pr, NEW d, NEW f, NEW es \in Seq(Effect), Reaches(d, es, f, pr), NEW e \in Effect,
           NEW g \in File, g = Wrote(f, e), Keeps(g, pr)
    PROVE  Reaches(d, Append(es, e), g, pr)
BY LeadsMore DEF Reaches

\* The same, at the end.
LEMMA ReachesEnd ==
    ASSUME NEW pr, NEW d, NEW f, NEW es \in Seq(Effect), Reaches(d, es, f, pr)
    PROVE  f \in File /\ Keeps(f, pr)
BY LeadsEnd DEF Reaches

-----------------------------------------------------------------------------
(* What a request makes of the replica *)

\* The replica between two requests.
Rested ==
    /\ ServerTypeOK /\ Keeps(Durable(node), promise)
    /\ Bounds(node) /\ ResultsSound(node)
    /\ node.commit <= decided \/ node.commit <= node.boundary

\* The parts of a node.
LEMMA NodeParts ==
    ASSUME NEW n \in NodeState
    PROVE  /\ n.term \in Nat /\ n.vote \in Vote /\ n.log \in Seq(Item) /\ n.boundary \in Nat
           /\ n.base \in Membership /\ n.commit \in Nat /\ n.learners \in SUBSET {Learner}
           /\ DOMAIN n.results \subseteq Nat /\ \A i \in DOMAIN n.results : n.results[i] \in Item
           /\ Len(n.log) \in Nat /\ DOMAIN n.log = 1 .. Len(n.log)
           /\ LastIndex(n) = n.boundary + Len(n.log) /\ LastIndex(n) \in Nat
           /\ Durable(n) \in File
<1>1. /\ n.term \in Nat /\ n.vote \in Vote /\ n.log \in Seq(Item) /\ n.boundary \in Nat
      /\ n.base \in Membership /\ n.commit \in Nat /\ n.learners \in SUBSET {Learner}
      /\ n.results \in UNION {[S -> Item] : S \in SUBSET Nat}
  BY DEF NodeState
<1>2. DOMAIN n.results \subseteq Nat /\ \A i \in DOMAIN n.results : n.results[i] \in Item
  BY <1>1
<1>3. Len(n.log) \in Nat /\ DOMAIN n.log = 1 .. Len(n.log)
  BY <1>1
<1> QED
  BY <1>1, <1>2, <1>3 DEF LastIndex, Durable, File

\* An entry that is held is an entry of the log.
LEMMA EntryHeld ==
    ASSUME NEW n \in NodeState, NEW i \in Nat, i > n.boundary, i <= LastIndex(n)
    PROVE  EntryOf(n, i) = n.log[i - n.boundary] /\ EntryOf(n, i) \in Item
<1>1. i - n.boundary \in DOMAIN n.log /\ n.log \in Seq(Item)
  BY NodeParts
<1> QED
  BY <1>1 DEF EntryOf

\* The active configuration is that of an entry of the log, or of the snapshot.
LEMMA CurrentConfigType ==
    ASSUME NEW n \in NodeState
    PROVE  CurrentConfig(n) \in Membership
<1> DEFINE held == {i \in n.boundary + 1 .. LastIndex(n) : EntryOf(n, i).config # Nil}
           S == {n.boundary} \cup held
<1>1. n.boundary \in Nat /\ LastIndex(n) \in Nat /\ n.base \in Membership
      /\ n.boundary <= LastIndex(n)
  BY NodeParts
<1>2. \A i \in held : i \in Nat /\ i > n.boundary /\ i <= LastIndex(n) /\ EntryOf(n, i).config # Nil
  BY <1>1
<1> HIDE DEF held
<1>3. S \in SUBSET Nat /\ S # {} /\ \A i \in S : i <= LastIndex(n)
  BY <1>1, <1>2
<1>4. ConfigIndex(n) = Max(S)
  BY DEF ConfigIndex, held
<1> HIDE DEF S
<1>5. ConfigIndex(n) \in S
  BY <1>1, <1>3, <1>4, MaxProperties
<1>6. CASE ConfigIndex(n) = n.boundary
  BY <1>1, <1>6 DEF CurrentConfig
<1>7. CASE ConfigIndex(n) # n.boundary
  <2>1. ConfigIndex(n) \in held
    BY <1>5, <1>7 DEF S
  <2>2. PICK i \in Nat : i = ConfigIndex(n) /\ i > n.boundary /\ i <= LastIndex(n)
                        /\ EntryOf(n, i).config # Nil
    BY <1>2, <2>1
  <2>3. EntryOf(n, i) \in Item
    BY <2>2, EntryHeld
  <2>4. EntryOf(n, i).config \in Membership
    BY <2>2, <2>3 DEF Item
  <2> QED
    BY <1>7, <2>2, <2>4 DEF CurrentConfig
<1> QED
  BY <1>6, <1>7

\* A node that commits more has the same file, and results of what it committed.
LEMMA CommittingSound ==
    ASSUME NEW n \in NodeState, Bounds(n), ResultsSound(n),
           NEW c \in Nat, n.commit <= c, c <= LastIndex(n)
    PROVE  LET m == Committing(n, c)
           IN  /\ m \in NodeState /\ Durable(m) = Durable(n)
               /\ m.boundary = n.boundary /\ m.log = n.log /\ m.commit = c
               /\ LastIndex(m) = LastIndex(n) /\ Bounds(m) /\ ResultsSound(m)
               /\ m.term = n.term /\ m.role = n.role
               /\ \A i \in DOMAIN m.results : i <= n.commit =>
                     i \in DOMAIN n.results /\ m.results[i] = n.results[i]
<1> DEFINE new == {i \in (n.commit + 1) .. c : EntryOf(n, i).config = Nil}
           kept == n.results
           res == [i \in new \cup DOMAIN kept |-> IF i \in new THEN EntryOf(n, i) ELSE kept[i]]
           m == Committing(n, c)
<1>1. /\ n.boundary \in Nat /\ n.commit \in Nat /\ LastIndex(n) \in Nat /\ n.log \in Seq(Item)
      /\ DOMAIN kept \subseteq Nat /\ \A i \in DOMAIN kept : kept[i] \in Item
      /\ n.boundary <= n.commit
  BY NodeParts DEF Bounds
<1>2. \A i \in new : i \in Nat /\ i > n.commit /\ i <= c /\ EntryOf(n, i) \in Item
  BY <1>1, EntryHeld
<1>3. /\ DOMAIN res = new \cup DOMAIN kept
      /\ \A i \in new : res[i] = EntryOf(n, i)
      /\ \A i \in DOMAIN kept \ new : res[i] = kept[i]
  OBVIOUS
<1>4. res \in [DOMAIN res -> Item] /\ DOMAIN res \in SUBSET Nat
  <2>1. \A i \in DOMAIN res : res[i] \in Item /\ i \in Nat
    <3> HIDE DEF new, kept, res
    <3> QED
      BY <1>1, <1>2, <1>3
  <2>2. res = [i \in DOMAIN res |-> res[i]]
    OBVIOUS
  <2> HIDE DEF res
  <2> QED
    BY <2>1, <2>2
<1>5. m = [n EXCEPT !.commit = c, !.results = res]
  BY DEF Committing
<1> HIDE DEF new, kept, res, m
<1>6. /\ m \in NodeState /\ m.boundary = n.boundary /\ m.log = n.log /\ m.commit = c
      /\ m.results = res /\ m.term = n.term /\ m.vote = n.vote /\ m.learners = n.learners
      /\ m.base = n.base /\ m.role = n.role
  BY <1>4, <1>5 DEF NodeState
<1>7. Durable(m) = Durable(n) /\ LastIndex(m) = LastIndex(n) /\ Bounds(m)
  BY <1>1, <1>6 DEF Durable, LastIndex, Bounds
<1>8. \A i : EntryOf(m, i) = EntryOf(n, i)
  BY <1>6, <1>7 DEF EntryOf
<1>9. \A i \in DOMAIN kept : i <= n.commit /\ (i > n.boundary => kept[i] = EntryOf(n, i))
  BY DEF ResultsSound, kept
<1>10. ResultsSound(m)
  <2> SUFFICES ASSUME NEW i \in DOMAIN res
               PROVE  i <= c /\ (i > n.boundary => res[i] = EntryOf(n, i))
    BY <1>6, <1>8 DEF ResultsSound
  <2> QED
    BY <1>1, <1>2, <1>3, <1>9
<1>11. \A i \in DOMAIN res : i <= n.commit => i \in DOMAIN kept /\ res[i] = kept[i]
  BY <1>1, <1>2, <1>3
<1> QED
  BY <1>6, <1>7, <1>10, <1>11 DEF m, kept

-----------------------------------------------------------------------------
(* What each effect writes *)

\* The hard state.
LEMMA WritesHardState ==
    ASSUME NEW d \in File, NEW n \in NodeState
    PROVE  LET e == PersistHardState(n)
           IN  /\ e \in Effect /\ e.kind # "Send"
               /\ Wrote(d, e) = [d EXCEPT !.term = n.term, !.vote = n.vote]
               /\ Wrote(d, e) \in File /\ LastIndex(Wrote(d, e)) = LastIndex(d)
<1> DEFINE e == PersistHardState(n)
           f == [d EXCEPT !.term = n.term, !.vote = n.vote]
<1>1. n.term \in Nat /\ n.vote \in Vote
  BY NodeParts
<1>2. e = [kind |-> "HardState", term |-> n.term, vote |-> n.vote]
  BY DEF PersistHardState
<1>3. e \in Effect /\ e.kind = "HardState" /\ e.term = n.term /\ e.vote = n.vote
  BY <1>1, <1>2 DEF Effect
<1>4. Wrote(d, e) = f
  <2> HIDE DEF e
  <2> QED
    BY <1>3 DEF Wrote, Flushed
<1>5. f \in File /\ f.log = d.log /\ f.boundary = d.boundary
  BY <1>1 DEF File
<1> QED
  BY <1>3, <1>4, <1>5 DEF LastIndex

\* A cut of the log and what follows it.
LEMMA WritesLog ==
    ASSUME NEW d \in File, NEW from \in Nat, from > d.boundary, from <= LastIndex(d) + 1,
           NEW es \in Seq(Item)
    PROVE  LET e == PersistLog(from, es)
               lg == SubSeq(d.log, 1, from - 1 - d.boundary) \o es
           IN  /\ e \in Effect /\ e.kind # "Send"
               /\ Wrote(d, e) = [d EXCEPT !.log = lg]
               /\ Wrote(d, e) \in File /\ lg \in Seq(Item) /\ Len(lg) = from - 1 - d.boundary + Len(es)
               /\ LastIndex(Wrote(d, e)) = from - 1 + Len(es)
<1> DEFINE e == PersistLog(from, es)
           k == from - 1 - d.boundary
           lg == SubSeq(d.log, 1, k) \o es
           f == [d EXCEPT !.log = lg]
<1>1. /\ d.boundary \in Nat /\ d.log \in Seq(Item) /\ Len(d.log) \in Nat
      /\ LastIndex(d) = d.boundary + Len(d.log) /\ Len(es) \in Nat
  BY DEF File, LastIndex
<1>2. k \in Nat /\ k <= Len(d.log) /\ from - d.boundary - 1 = k
  BY <1>1
<1>3. Min({k, Len(d.log)}) = k
  <2>1. k \in Int /\ Len(d.log) \in Int
    BY <1>1, <1>2
  <2> HIDE DEF k
  <2>2. Min({k, Len(d.log)}) \in {k, Len(d.log)} /\ Min({k, Len(d.log)}) <= k
    BY <2>1, PairExtrema
  <2>3. Min({k, Len(d.log)}) <= Len(d.log)
    BY <2>1, PairExtrema
  <2> QED
    BY <1>2, <2>1, <2>2, <2>3
<1>4. e = [kind |-> "Log", from |-> from, entries |-> es]
  BY DEF PersistLog
<1>5. e \in Effect /\ e.kind = "Log" /\ e.from = from /\ e.entries = es
  BY <1>4 DEF Effect
<1>6. Wrote(d, e) = f
  <2>1. Flushed(d, e) = [d EXCEPT !.log = SubSeq(d.log, 1, Min({e.from - d.boundary - 1, Len(d.log)})) \o e.entries]
    <3> HIDE DEF e
    <3> QED
      BY <1>5 DEF Flushed
  <2> QED
    BY <1>2, <1>3, <1>5, <2>1 DEF Wrote
<1>7. SubSeq(d.log, 1, k) \in Seq(Item) /\ Len(SubSeq(d.log, 1, k)) = k
  <2> HIDE DEF k
  <2> QED
    BY <1>1, <1>2, PrefixType
<1>8. lg \in Seq(Item) /\ Len(lg) = k + Len(es)
  <2> HIDE DEF k
  <2> QED
    BY <1>2, <1>7, ConcatProperties
<1>9. f \in File /\ f.log = lg /\ f.boundary = d.boundary
  <2> HIDE DEF lg
  <2> QED
    BY <1>8 DEF File
<1>10. LastIndex(f) = from - 1 + Len(es)
  <2> HIDE DEF lg, f, k
  <2>1. LastIndex(f) = d.boundary + (k + Len(es))
    BY <1>8, <1>9 DEF LastIndex
  <2>2. d.boundary + k = from - 1
    BY <1>1 DEF k
  <2>3. d.boundary \in Int /\ k \in Int /\ Len(es) \in Int /\ from - 1 \in Int
    BY <1>1, <1>2
  <2>4. \A x, y, z, w \in Int : x + y = w => x + (y + z) = w + z
    OBVIOUS
  <2> HIDE DEF k
  <2> QED
    BY <2>1, <2>2, <2>3, <2>4
<1>11. /\ e \in Effect /\ e.kind # "Send" /\ Wrote(d, e) = f /\ Wrote(d, e) \in File /\ lg \in Seq(Item)
       /\ Len(lg) = k + Len(es) /\ LastIndex(Wrote(d, e)) = from - 1 + Len(es)
  <2> HIDE DEF e, k, lg, f
  <2> QED
    BY <1>5, <1>6, <1>8, <1>9, <1>10
<1> QED
  BY <1>11

\* A boundary, and the log above it, after which the file starts there.
LEMMA WritesSnapshot ==
    ASSUME NEW d \in File, NEW b \in Nat, NEW k \in Membership, NEW es \in Seq(Item)
    PROVE  LET e == PersistSnapshot(b, k)
               w == PersistLog(b + 1, es)
               f == Wrote(d, e)
               g == Wrote(f, w)
           IN  /\ e \in Effect /\ e.kind # "Send" /\ w \in Effect /\ w.kind # "Send"
               /\ f \in File /\ f.term = d.term /\ f.vote = d.vote /\ LastIndex(f) = b + Len(d.log)
               /\ g \in File /\ g.term = d.term /\ g.vote = d.vote /\ g.log = es
               /\ g.boundary = b /\ g.base = k /\ g.learners = d.learners
               /\ LastIndex(g) = b + Len(es)
<1> DEFINE e == PersistSnapshot(b, k)
           w == PersistLog(b + 1, es)
           f == [d EXCEPT !.boundary = b, !.base = k]
           g == [d EXCEPT !.boundary = b, !.base = k, !.log = es]
<1>1. d.log \in Seq(Item) /\ Len(d.log) \in Nat /\ Len(es) \in Nat
  BY DEF File
<1>2. e \in Effect /\ e.kind = "Snapshot" /\ e.boundary = b /\ e.base = k
  BY DEF Effect, PersistSnapshot
<1>3. f \in File /\ f.boundary = b /\ f.log = d.log /\ LastIndex(f) = b + Len(d.log)
  BY DEF File, LastIndex
<1>4. Wrote(d, e) = f
  <2> HIDE DEF e
  <2> QED
    BY <1>2 DEF Wrote, Flushed
<1>5. PICK i \in Nat : i = b + 1
  OBVIOUS
<1>6. i > f.boundary /\ i <= LastIndex(f) + 1 /\ i - 1 - f.boundary = 0 /\ i - 1 = b
  <2> HIDE DEF f
  <2> QED
    BY <1>1, <1>3, <1>5
<1>7. w \in Effect /\ w.kind # "Send" /\ Wrote(f, w) = [f EXCEPT !.log = es] /\ Wrote(f, w) \in File
      /\ LastIndex(Wrote(f, w)) = b + Len(es)
  <2>1. w = PersistLog(i, es)
    BY <1>5
  <2> HIDE DEF f, w
  <2>2. /\ w \in Effect /\ w.kind # "Send" /\ Wrote(f, w) \in File
        /\ Wrote(f, w) = [f EXCEPT !.log = SubSeq(f.log, 1, i - 1 - f.boundary) \o es]
        /\ LastIndex(Wrote(f, w)) = i - 1 + Len(es)
    BY <1>3, <1>6, <2>1, WritesLog, SMTT(30)
  <2>3. SubSeq(f.log, 1, 0) \o es = es
    BY SubSeqEmpty, ConcatEmptySeq
  <2> QED
    BY <1>6, <2>2, <2>3
<1>8. g = [f EXCEPT !.log = es]
  BY DEF File
<1>9. Wrote(f, w) = g
  BY <1>7, <1>8
<1>10. /\ f.term = d.term /\ f.vote = d.vote
       /\ g.term = d.term /\ g.vote = d.vote /\ g.log = es /\ g.boundary = b
       /\ g.base = k /\ g.learners = d.learners
  BY DEF File
<1> HIDE DEF e, f, g, w
<1>11. /\ e \in Effect /\ e.kind # "Send" /\ w \in Effect /\ w.kind # "Send"
       /\ Wrote(d, e) = f /\ Wrote(f, w) = g /\ f \in File /\ g \in File
       /\ LastIndex(f) = b + Len(d.log) /\ LastIndex(g) = b + Len(es)
  BY <1>2, <1>3, <1>4, <1>7, <1>9
<1> QED
  BY <1>10, <1>11 DEF e, w

\* Files are the same when their fields are.
LEMMA SameFile ==
    ASSUME NEW f \in File, NEW g \in File, f.term = g.term, f.vote = g.vote, f.log = g.log,
           f.boundary = g.boundary, f.base = g.base, f.learners = g.learners
    PROVE  f = g
BY DEF File

\* The learners; and a message, which writes nothing.
LEMMA WritesLearners ==
    ASSUME NEW d \in File, NEW S \in SUBSET {Learner}
    PROVE  /\ PersistLearners(S) \in Effect /\ PersistLearners(S).kind # "Send"
           /\ Wrote(d, PersistLearners(S)) = [d EXCEPT !.learners = S]
           /\ Wrote(d, PersistLearners(S)) \in File
           /\ LastIndex(Wrote(d, PersistLearners(S))) = LastIndex(d)
           /\ Send \in Effect /\ Send.kind = "Send" /\ Wrote(d, Send) = d
<1> DEFINE e == PersistLearners(S)
           f == [d EXCEPT !.learners = S]
<1>1. e \in Effect /\ e.kind = "Learners" /\ e.learners = S
  BY DEF Effect, PersistLearners
<1>2. Wrote(d, e) = f
  <2> HIDE DEF e
  <2> QED
    BY <1>1 DEF Wrote, Flushed
<1>3. f \in File /\ LastIndex(f) = LastIndex(d)
  BY DEF File, LastIndex
<1>4. Send \in Effect /\ Send.kind = "Send" /\ Wrote(d, Send) = d
  BY DEF Effect, Send, Wrote
<1> QED
  BY <1>1, <1>2, <1>3, <1>4

\* A list of two, built by Append.
LEMMA PairByAppend ==
    ASSUME NEW S, NEW a \in S, NEW b \in S
    PROVE  Append(<<a>>, b) = <<a, b>>
<1>1. <<a, b>> = Append(<<a>>, b)
  OBVIOUS
<1> QED
  BY <1>1

-----------------------------------------------------------------------------
(* What a request makes of the replica, and of its file *)

\* The results of n for what is counted committed now are the same as now.
ResultsKept(n) ==
    \A i \in DOMAIN n.results :
        i <= node.commit => i \in DOMAIN node.results /\ n.results[i] = node.results[i]

\* The replica may become n, with effects es.
Sound(n, es) ==
    /\ n \in NodeState /\ es \in Seq(Effect)
    /\ Reaches(Durable(node), es, Durable(n), promise)
    /\ Bounds(n) /\ ResultsSound(n) /\ ResultsKept(n) /\ node.commit <= n.commit

\* An outcome: a sound change, and possibly a message after it.
OutcomeSound(o) ==
    /\ o \in [node : NodeState, effects : Seq(Effect), hint : Peer \cup {Nil}, acked : Nat]
    /\ \E es \in Seq(Effect) :
          Sound(o.node, es) /\ NoSends(es) /\ (o.effects = es \/ o.effects = Append(es, Send))
    /\ o.acked <= LastIndex(o.node)

\* One more effect that is not a message.
LEMMA NoMoreSends ==
    ASSUME NEW es \in Seq(Effect), NoSends(es), NEW e \in Effect, e.kind # "Send"
    PROVE  NoSends(Append(es, e)) /\ NoSends(<<>>)
<1>1. /\ Len(es) \in Nat /\ DOMAIN es = 1 .. Len(es)
      /\ DOMAIN Append(es, e) = 1 .. Len(es) + 1 /\ Len(Append(es, e)) = Len(es) + 1
      /\ Append(es, e)[Len(es) + 1] = e /\ \A k \in DOMAIN es : Append(es, e)[k] = es[k]
  OBVIOUS
<1>2. \A k \in DOMAIN Append(es, e) : k = Len(es) + 1 \/ k \in DOMAIN es
  BY <1>1
<1>3. DOMAIN <<>> = {}
  OBVIOUS
<1> QED
  BY <1>1, <1>2, <1>3 DEF NoSends

\* The replica as it is, with nothing to dispatch.
LEMMA RestingSound ==
    ASSUME Rested
    PROVE  Sound(node, <<>>)
<1>1. node \in NodeState /\ Durable(node) \in File /\ Keeps(Durable(node), promise)
  BY NodeParts DEF Rested, ServerTypeOK
<1>2. Reaches(Durable(node), <<>>, Durable(node), promise)
  BY <1>1, ReachesNow
<1>3. node.commit <= node.commit
  BY <1>1, NodeParts
<1>4. <<>> \in Seq(Effect)
  OBVIOUS
<1> QED
  BY <1>1, <1>2, <1>3, <1>4 DEF Rested, Sound, ResultsKept

\* A sound change without messages is a sound outcome.
LEMMA QuietOutcome ==
    ASSUME NEW n, NEW es, Sound(n, es), NoSends(es), NEW h \in Peer \cup {Nil}, NEW a \in Nat,
           a <= LastIndex(n)
    PROVE  OutcomeSound([node |-> n, effects |-> es, hint |-> h, acked |-> a])
<1>1. n \in NodeState /\ es \in Seq(Effect)
  BY DEF Sound
<1> QED
  BY <1>1 DEF OutcomeSound

\* So is one with a message at the end.
LEMMA SendingOutcome ==
    ASSUME Rested, NEW n, NEW es, Sound(n, es), NoSends(es)
    PROVE  OutcomeSound(Outcome(n, Append(es, Send)))
<1>1. n \in NodeState /\ es \in Seq(Effect)
  BY DEF Sound
<1>2. Append(es, Send) \in Seq(Effect)
  BY <1>1 DEF Send, Effect
<1>3. hint \in Peer \cup {Nil} /\ 0 \in Nat /\ 0 <= LastIndex(n)
  BY <1>1, NodeParts DEF Rested, ServerTypeOK
<1> QED
  BY <1>1, <1>2, <1>3 DEF OutcomeSound, Outcome

\* Another term or another vote: what was sent is not taken back.
LEMMA AdoptedSound ==
    ASSUME Rested, NEW r \in {"Follower", "Candidate", "Leader"}, NEW t \in Nat, NEW v \in Vote,
           t > node.term \/ (t = node.term /\ node.vote = Nil)
    PROVE  LET n == [node EXCEPT !.role = r, !.term = t, !.vote = v]
           IN  Sound(n, <<PersistHardState(n)>>) /\ NoSends(<<PersistHardState(n)>>)
<1> DEFINE n == [node EXCEPT !.role = r, !.term = t, !.vote = v]
           e == PersistHardState(n)
           d == Durable(node)
<1>1. node \in NodeState /\ Keeps(d, promise) /\ Reaches(d, <<>>, d, promise) /\ d \in File
  BY RestingSound, NodeParts DEF Rested, ServerTypeOK, Sound
<1>2. /\ n \in NodeState /\ n.term = t /\ n.vote = v /\ n.log = node.log /\ n.results = node.results
      /\ n.boundary = node.boundary /\ n.commit = node.commit /\ n.learners = node.learners
      /\ n.base = node.base
  BY <1>1 DEF NodeState
<1> HIDE DEF n
<1>3. e \in Effect /\ e.kind # "Send" /\ Wrote(d, e) = [d EXCEPT !.term = n.term, !.vote = n.vote]
  BY <1>1, <1>2, WritesHardState
<1>4. Wrote(d, e) = Durable(n)
  BY <1>2, <1>3 DEF Durable
<1>5. Durable(n) \in File /\ LastIndex(Durable(n)) = LastIndex(d)
  BY <1>2, NodeParts DEF Durable, LastIndex
<1>6. promise.term \in Nat /\ node.term \in Nat
  BY <1>1, NodeParts DEF Rested, ServerTypeOK
<1>7. Keeps(Durable(n), promise)
  <2>1. Durable(n).term = t /\ Durable(n).vote = v /\ d.term = node.term /\ d.vote = node.vote
    BY <1>2 DEF Durable
  <2> HIDE DEF d
  <2> QED
    BY <1>1, <1>5, <1>6, <2>1 DEF Keeps
<1> HIDE DEF e, d
<1>8. Reaches(d, Append(<<>>, e), Durable(n), promise)
  <2>1. <<>> \in Seq(Effect)
    OBVIOUS
  <2> QED
    BY <1>1, <1>3, <1>4, <1>5, <1>7, <2>1, ReachesMore
<1>9. Append(<<>>, e) = <<e>> /\ <<e>> \in Seq(Effect) /\ NoSends(<<e>>)
  <2>1. <<>> \in Seq(Effect) /\ NoSends(<<>>)
    BY DEF NoSends
  <2>2. Append(<<>>, e) = <<e>> /\ <<e>> \in Seq(Effect)
    BY <1>3
  <2>3. NoSends(Append(<<>>, e))
    BY <1>3, <2>1, NoMoreSends
  <2> QED
    BY <2>2, <2>3
<1>10. Bounds(n) /\ ResultsSound(n) /\ ResultsKept(n) /\ node.commit <= n.commit
  <2>1. \A i : EntryOf(n, i) = EntryOf(node, i)
    BY <1>2 DEF EntryOf, LastIndex
  <2>2. LastIndex(n) = LastIndex(node) /\ node.commit \in Nat
    BY <1>1, <1>2, NodeParts DEF LastIndex
  <2> QED
    BY <1>2, <2>1, <2>2 DEF Rested, Bounds, ResultsSound, ResultsKept
<1> QED
  BY <1>2, <1>8, <1>9, <1>10 DEF Sound, e, d, n

\* A leader of term t lacks nothing up to Settled(t) of what this node has
\* counted committed, compacted, or said in term t that it holds.
LEMMA SettledBound ==
    ASSUME Rested, NEW t \in Nat
    PROVE  /\ Settled(t) \in Nat
           /\ node.commit <= Settled(t) /\ node.boundary <= Settled(t) /\ decided <= Settled(t)
           /\ promise.term = t => promise.upTo <= Settled(t)
<1> DEFINE own == {i \in node.boundary + 1 .. LastIndex(node) : EntryTerm(i) = t}
           sent == IF promise.term = t THEN {promise.upTo} ELSE {}
           S == {decided, node.boundary} \cup own \cup sent
           b == decided + LastIndex(node) + promise.upTo
<1>1. /\ decided \in Nat /\ promise.upTo \in Nat /\ node.boundary \in Nat /\ node.commit \in Nat
      /\ LastIndex(node) \in Nat /\ node.boundary <= LastIndex(node)
      /\ node.commit <= decided \/ node.commit <= node.boundary
  <2>1. node \in NodeState
    BY DEF Rested, ServerTypeOK
  <2> QED
    BY <2>1, NodeParts DEF Rested, ServerTypeOK, Bounds
<1>2. \A x \in own : x \in Nat /\ x <= LastIndex(node)
  BY <1>1
<1>3. \A x \in sent : x = promise.upTo
  OBVIOUS
<1>4. promise.term = t => promise.upTo \in sent
  OBVIOUS
<1> HIDE DEF own, sent
<1>5. S \in SUBSET Nat /\ decided \in S /\ node.boundary \in S /\ b \in Nat /\ \A y \in S : y <= b
  <2>1. /\ b \in Nat /\ decided <= b /\ node.boundary <= b /\ LastIndex(node) <= b
        /\ promise.upTo <= b
    BY <1>1
  <2> HIDE DEF b
  <2>2. \A y \in S : y \in Nat /\ y <= b
    <3> SUFFICES ASSUME NEW y \in S PROVE y \in Nat /\ y <= b
      OBVIOUS
    <3>1. y \in own \/ y \in sent \/ y \in {decided, node.boundary}
      OBVIOUS
    <3>2. CASE y \in own
      BY <1>1, <1>2, <2>1, <3>2
    <3>3. CASE y \in sent
      BY <1>1, <1>3, <2>1, <3>3
    <3>4. CASE y \in {decided, node.boundary}
      BY <1>1, <2>1, <3>4
    <3> QED
      BY <3>1, <3>2, <3>3, <3>4
  <2> QED
    BY <2>1, <2>2
<1>6. Settled(t) = Max(S)
  BY DEF Settled, own, sent
<1>7. promise.term = t => promise.upTo \in S
  BY <1>4
<1> HIDE DEF S, b
<1>8. Max(S) \in S /\ \A y \in S : y <= Max(S)
  BY <1>5, MaxProperties
<1>9. Settled(t) \in Nat
  BY <1>5, <1>6, <1>8
<1> QED
  BY <1>1, <1>5, <1>6, <1>7, <1>8, <1>9

\* The terms a message of a leader may have.
LEMMA LedTerms ==
    ASSUME Rested, NEW t \in PeerLedTerms
    PROVE  t \in Nat /\ t >= node.term
<1>1. node.term \in Nat /\ MaxTerm \in Nat
  <2>1. node \in NodeState
    BY DEF Rested, ServerTypeOK
  <2> QED
    BY <2>1, NodeParts, ServerAssumption
<1>2. Max({node.term, 1}) \in {node.term, 1} /\ Max({node.term, 1}) >= node.term
  <2>1. node.term \in Int /\ 1 \in Int
    BY <1>1
  <2> QED
    BY <2>1, PairExtrema
<1>3. t \in Max({node.term, 1}) .. MaxTerm
  BY DEF PeerLedTerms
<1> QED
  BY <1>1, <1>2, <1>3

\* A message of a newer term is adopted before anything else is done.
LEMMA ObservedSound ==
    ASSUME Rested, NEW t \in Nat, t >= node.term
    PROVE  LET o == Observed(t)
           IN  /\ Sound(o.node, o.effects) /\ NoSends(o.effects)
               /\ o.node.term = t /\ (t = node.term => o.node.vote = node.vote)
               /\ o.node.log = node.log /\ o.node.boundary = node.boundary
               /\ o.node.commit = node.commit /\ o.node.results = node.results
<1>1. node \in NodeState /\ Sound(node, <<>>) /\ node.term \in Nat
  BY RestingSound, NodeParts DEF Sound
<1>2. CASE t > node.term
  <2> DEFINE n == [node EXCEPT !.role = "Follower", !.term = t, !.vote = Nil]
  <2>1. Observed(t) = [node |-> n, effects |-> <<PersistHardState(n)>>]
    BY <1>2 DEF Observed, Adopted
  <2>2. Sound(n, <<PersistHardState(n)>>) /\ NoSends(<<PersistHardState(n)>>)
    <3>1. Nil \in Vote
      BY DEF Vote
    <3> QED
      BY <1>2, <3>1, AdoptedSound
  <2>3. /\ n.term = t /\ n.log = node.log /\ n.boundary = node.boundary
        /\ n.commit = node.commit /\ n.results = node.results
    BY <1>1 DEF NodeState
  <2>4. t # node.term
    BY <1>1, <1>2
  <2> HIDE DEF n
  <2> QED
    BY <2>1, <2>2, <2>3, <2>4
<1>3. CASE ~ (t > node.term)
  <2> DEFINE n == [node EXCEPT !.role = "Follower"]
  <2>1. Observed(t) = [node |-> n, effects |-> <<>>] /\ t = node.term
    BY <1>1, <1>3 DEF Observed
  <2>2. /\ n \in NodeState /\ n.term = node.term /\ n.vote = node.vote /\ n.log = node.log
        /\ n.boundary = node.boundary /\ n.commit = node.commit /\ n.results = node.results
        /\ n.learners = node.learners /\ n.base = node.base
    BY <1>1 DEF NodeState
  <2> HIDE DEF n
  <2>3. Durable(n) = Durable(node) /\ \A i : EntryOf(n, i) = EntryOf(node, i)
    BY <2>2 DEF Durable, EntryOf, LastIndex
  <2>4. Sound(n, <<>>)
    BY <1>1, <2>2, <2>3 DEF Sound, Bounds, LastIndex, ResultsSound, ResultsKept
  <2>5. NoSends(<<>>)
    BY DEF NoSends
  <2> QED
    BY <2>1, <2>2, <2>4, <2>5
<1> QED
  BY <1>2, <1>3

\* The log is cut above what is counted committed, and above what was said in
\* this term to be held, and goes on with e.
LEMMA CutSound ==
    ASSUME Rested, NEW n, NEW es, Sound(n, es), NoSends(es), NEW i \in Nat, NEW e \in Item,
           n.commit < i, i <= LastIndex(n) + 1, promise.term = n.term => promise.upTo <= i
    PROVE  LET m == [n EXCEPT !.log = SubSeq(n.log, 1, i - 1 - n.boundary) \o <<e>>]
               fs == Append(es, PersistLog(i, <<e>>))
           IN  Sound(m, fs) /\ NoSends(fs) /\ LastIndex(m) = i
<1> DEFINE k == i - 1 - n.boundary
           lg == SubSeq(n.log, 1, k) \o <<e>>
           m == [n EXCEPT !.log = lg]
           w == PersistLog(i, <<e>>)
           d == Durable(n)
<1>1. /\ n \in NodeState /\ es \in Seq(Effect) /\ Reaches(Durable(node), es, d, promise)
      /\ Bounds(n) /\ ResultsSound(n) /\ ResultsKept(n) /\ node.commit <= n.commit
  BY DEF Sound
<1>2. /\ n.boundary \in Nat /\ n.commit \in Nat /\ n.log \in Seq(Item) /\ Len(n.log) \in Nat
      /\ LastIndex(n) = n.boundary + Len(n.log) /\ d \in File /\ n.term \in Nat
      /\ n.boundary <= n.commit /\ n.commit <= LastIndex(n)
  BY <1>1, NodeParts DEF Bounds
<1>3. k \in Nat /\ k <= Len(n.log) /\ n.boundary + k = i - 1
  BY <1>2
<1>4. lg \in Seq(Item) /\ Len(lg) = k + 1 /\ \A x \in 1 .. k : lg[x] = n.log[x]
  <2>1. <<e>> \in Seq(Item) /\ Len(<<e>>) = 1
    OBVIOUS
  <2> HIDE DEF k
  <2> QED
    BY <1>2, <1>3, <2>1, CutThen
<1>5. d.log = n.log /\ d.boundary = n.boundary /\ LastIndex(d) = LastIndex(n)
      /\ d.term = n.term /\ d.vote = n.vote
  BY DEF Durable, LastIndex
<1>6. /\ w \in Effect /\ w.kind # "Send" /\ Wrote(d, w) = [d EXCEPT !.log = lg]
      /\ Wrote(d, w) \in File
  <2>1. i > d.boundary /\ i <= LastIndex(d) + 1 /\ i - 1 - d.boundary = k
    BY <1>2, <1>5
  <2>2. <<e>> \in Seq(Item)
    OBVIOUS
  <2> HIDE DEF k, d
  <2>3. /\ w \in Effect /\ w.kind # "Send" /\ Wrote(d, w) \in File
        /\ Wrote(d, w) = [d EXCEPT !.log = SubSeq(d.log, 1, i - 1 - d.boundary) \o <<e>>]
    BY <1>2, <2>1, <2>2, WritesLog, ZenonT(30)
  <2> QED
    BY <1>5, <2>1, <2>3
<1> HIDE DEF k, lg
<1>7. /\ m \in NodeState /\ m.log = lg /\ m.boundary = n.boundary /\ m.commit = n.commit
      /\ m.results = n.results /\ m.term = n.term /\ m.vote = n.vote /\ m.learners = n.learners
      /\ m.base = n.base
  BY <1>1, <1>4 DEF NodeState
<1> HIDE DEF m
<1>8. Wrote(d, w) = Durable(m)
  BY <1>6, <1>7 DEF Durable
<1>9. LastIndex(m) = i /\ LastIndex(Durable(m)) = i
  <2>1. LastIndex(m) = n.boundary + (k + 1) /\ LastIndex(Durable(m)) = n.boundary + (k + 1)
    BY <1>4, <1>7 DEF LastIndex, Durable
  <2> QED
    BY <1>2, <1>3, <2>1, SMTT(30)
<1>10. Keeps(Durable(m), promise)
  <2>1. Keeps(d, promise)
    BY <1>1, <1>2, ReachesEnd
  <2>2. Durable(m).term = n.term /\ Durable(m).vote = n.vote
    BY <1>7 DEF Durable
  <2>3. i >= promise.upTo \/ promise.term # n.term
    <3>1. promise.upTo \in Nat
      BY DEF Rested, ServerTypeOK
    <3> QED
      BY <3>1
  <2> HIDE DEF d
  <2> QED
    BY <1>5, <1>9, <2>1, <2>2, <2>3 DEF Keeps
<1>11. Reaches(Durable(node), Append(es, w), Durable(m), promise)
  <2> HIDE DEF d, w
  <2>1. Durable(m) = Wrote(d, w) /\ Durable(m) \in File
    BY <1>6, <1>8
  <2> QED
    BY <1>1, <1>6, <1>10, <2>1, ReachesMore
<1>12. Append(es, w) \in Seq(Effect) /\ NoSends(Append(es, w))
  <2> HIDE DEF w
  <2> QED
    BY <1>1, <1>6, NoMoreSends
<1>13. Bounds(m)
  BY <1>2, <1>7, <1>9 DEF Bounds
<1>14. ResultsSound(m)
  <2> SUFFICES ASSUME NEW j \in DOMAIN n.results
               PROVE  j <= n.commit /\ (j > n.boundary => n.results[j] = EntryOf(m, j))
    BY <1>7 DEF ResultsSound
  <2>1. j \in Nat /\ j <= n.commit /\ (j > n.boundary => n.results[j] = EntryOf(n, j))
    BY <1>1, NodeParts DEF ResultsSound
  <2>2. ASSUME j > n.boundary PROVE EntryOf(m, j) = EntryOf(n, j)
    <3>1. j - n.boundary \in 1 .. k
      BY <1>2, <1>3, <2>1, <2>2, SMTT(30)
    <3>2. EntryOf(m, j) = lg[j - n.boundary]
      BY <1>2, <1>7, <1>9, <2>1, <2>2 DEF EntryOf
    <3>3. EntryOf(n, j) = n.log[j - n.boundary]
      BY <1>2, <2>1, <2>2 DEF EntryOf
    <3> QED
      BY <1>4, <3>1, <3>2, <3>3
  <2> QED
    BY <2>1, <2>2
<1>15. ResultsKept(m) /\ node.commit <= m.commit
  BY <1>1, <1>7 DEF ResultsKept
<1> QED
  BY <1>7, <1>9, <1>11, <1>12, <1>13, <1>14, <1>15 DEF Sound, lg, k, m, w

\* A snapshot of boundary b, and no log.
LEMMA InstalledSound ==
    ASSUME Rested, NEW n, NEW es, Sound(n, es), NoSends(es), NEW b \in Nat,
           NEW k \in Membership, n.commit <= b, promise.term = n.term => promise.upTo <= b
    PROVE  LET m == [n EXCEPT !.log = <<>>, !.boundary = b, !.base = k, !.commit = b,
                              !.results = <<>>]
               fs == es \o <<PersistSnapshot(b, k), PersistLog(b + 1, <<>>)>>
           IN  Sound(m, fs) /\ NoSends(fs) /\ LastIndex(m) = b
<1> DEFINE m == [n EXCEPT !.log = <<>>, !.boundary = b, !.base = k, !.commit = b, !.results = <<>>]
           v == PersistSnapshot(b, k)
           w == PersistLog(b + 1, <<>>)
           d == Durable(n)
           f == Wrote(d, v)
           g == Wrote(f, w)
<1>1. /\ n \in NodeState /\ es \in Seq(Effect) /\ Reaches(Durable(node), es, d, promise)
      /\ Bounds(n) /\ node.commit <= n.commit
  BY DEF Sound
<1>2. n.commit \in Nat /\ d \in File /\ n.term \in Nat /\ node.commit \in Nat
  <2>1. node \in NodeState
    BY DEF Rested, ServerTypeOK
  <2> QED
    BY <1>1, <2>1, NodeParts
<1>3. /\ v \in Effect /\ v.kind # "Send" /\ w \in Effect /\ w.kind # "Send"
      /\ f \in File /\ f.term = d.term /\ f.vote = d.vote /\ LastIndex(f) = b + Len(d.log)
      /\ g \in File /\ g.term = d.term /\ g.vote = d.vote /\ g.log = <<>>
      /\ g.boundary = b /\ g.base = k /\ g.learners = d.learners /\ LastIndex(g) = b
  <2>1. PICK none \in Seq(Item) : none = <<>>
    <3>1. <<>> \in Seq(Item)
      OBVIOUS
    <3> QED
      BY <3>1
  <2>2. Len(none) = 0 /\ PersistLog(b + 1, none) = w /\ b + 0 = b
    BY <2>1
  <2> HIDE DEF d
  <2> DEFINE x == PersistLog(b + 1, none)
             h == Wrote(f, x)
  <2>3. /\ v \in Effect /\ v.kind # "Send" /\ x \in Effect /\ x.kind # "Send"
        /\ f \in File /\ f.term = d.term /\ f.vote = d.vote /\ LastIndex(f) = b + Len(d.log)
        /\ h \in File /\ h.term = d.term /\ h.vote = d.vote /\ h.log = none
        /\ h.boundary = b /\ h.base = k /\ h.learners = d.learners /\ LastIndex(h) = b + Len(none)
    BY <1>2, WritesSnapshot, ZenonT(60)
  <2>4. x = w /\ h = g
    BY <2>2
  <2> HIDE DEF v, w, x, f, g, h
  <2> QED
    BY <2>1, <2>2, <2>3, <2>4
<1>4. <<>> \in Seq(Item) /\ Len(<<>>) = 0 /\ <<>> \in [{} -> Item] /\ DOMAIN <<>> = {}
  OBVIOUS
<1>5. /\ m \in NodeState /\ m.log = <<>> /\ m.boundary = b /\ m.commit = b /\ m.results = <<>>
      /\ m.base = k /\ m.term = n.term /\ m.vote = n.vote /\ m.learners = n.learners
  <2>1. <<>> \in UNION {[S -> Item] : S \in SUBSET Nat}
    BY <1>4
  <2> QED
    BY <1>1, <1>4, <2>1 DEF NodeState
<1> HIDE DEF m
<1>6. g = Durable(m)
  <2>1. Durable(m) \in File
    BY <1>5, NodeParts
  <2>2. /\ g.term = Durable(m).term /\ g.vote = Durable(m).vote /\ g.log = Durable(m).log
        /\ g.boundary = Durable(m).boundary /\ g.base = Durable(m).base /\ g.learners = Durable(m).learners
    <3> HIDE DEF g
    <3> QED
      BY <1>3, <1>5 DEF Durable
  <2> HIDE DEF g
  <2> QED
    BY <1>3, <2>1, <2>2, SameFile
<1>7. LastIndex(m) = b /\ LastIndex(g) = b
  BY <1>3, <1>4, <1>5 DEF LastIndex
<1>8. Keeps(f, promise) /\ Keeps(g, promise)
  <2>1. Keeps(d, promise)
    BY <1>1, <1>2, ReachesEnd
  <2>2. f.term = n.term /\ f.vote = n.vote /\ g.term = n.term /\ g.vote = n.vote
        /\ d.term = n.term /\ d.vote = n.vote
    <3> HIDE DEF f, g
    <3> QED
      BY <1>3 DEF Durable
  <2>3. promise.upTo <= b \/ promise.term # n.term
    OBVIOUS
  <2>4. Len(d.log) \in Nat /\ promise.upTo \in Nat
    BY <1>2 DEF File, Rested, ServerTypeOK
  <2> HIDE DEF d, f, g
  <2>5. \/ promise.upTo <= LastIndex(f) /\ promise.upTo <= LastIndex(g)
        \/ promise.term # n.term
    BY <1>3, <1>7, <2>3, <2>4
  <2> QED
    BY <2>1, <2>2, <2>5 DEF Keeps
<1>9. Reaches(Durable(node), Append(Append(es, v), w), g, promise)
  <2>1. f = Wrote(d, v) /\ g = Wrote(f, w)
    OBVIOUS
  <2> HIDE DEF d, v, w, f, g
  <2>2. Reaches(Durable(node), Append(es, v), f, promise)
    BY <1>1, <1>3, <1>8, <2>1, ReachesMore
  <2>3. Append(es, v) \in Seq(Effect)
    BY <1>1, <1>3
  <2> QED
    BY <1>3, <1>8, <2>1, <2>2, <2>3, ReachesMore
<1>10. /\ es \o <<v, w>> = Append(Append(es, v), w) /\ es \o <<v, w>> \in Seq(Effect)
       /\ NoSends(es \o <<v, w>>)
  <2> HIDE DEF v, w
  <2>1. es \o <<v, w>> = Append(Append(es, v), w) /\ Append(es, v) \in Seq(Effect)
        /\ Append(Append(es, v), w) \in Seq(Effect)
    BY <1>1, <1>3, ListsByAppend
  <2>2. NoSends(Append(es, v))
    BY <1>1, <1>3, NoMoreSends
  <2>3. NoSends(Append(Append(es, v), w))
    BY <1>3, <2>1, <2>2, NoMoreSends
  <2> QED
    BY <2>1, <2>3
<1>11. Bounds(m) /\ ResultsSound(m) /\ ResultsKept(m) /\ node.commit <= m.commit
  BY <1>1, <1>2, <1>4, <1>5, <1>7 DEF Bounds, ResultsSound, ResultsKept
<1>12. Sound(m, es \o <<v, w>>)
  <2> HIDE DEF v, w, g
  <2> QED
    BY <1>5, <1>6, <1>9, <1>10, <1>11 DEF Sound
<1> QED
  BY <1>7, <1>10, <1>12 DEF m, v, w

\* What a leader of term t may make of the log.
LEMMA MergedSound ==
    ASSUME Rested, NEW t \in Nat, t >= node.term, NEW m \in MergedLogs(t)
    PROVE  LET n == [Observed(t).node EXCEPT !.log = m.log]
               es == Observed(t).effects \o m.effects
           IN  Sound(n, es) /\ NoSends(es)
<1> DEFINE o == Observed(t)
           n == [o.node EXCEPT !.log = m.log]
           es == o.effects \o m.effects
<1>1. /\ Sound(o.node, o.effects) /\ NoSends(o.effects) /\ o.node.term = t
      /\ o.node.log = node.log /\ o.node.boundary = node.boundary /\ o.node.commit = node.commit
  BY ObservedSound
<1>2. o.node \in NodeState /\ o.effects \in Seq(Effect)
  BY <1>1 DEF Sound
<1>3. node \in NodeState /\ LastIndex(o.node) = LastIndex(node)
  BY <1>1 DEF Rested, ServerTypeOK, LastIndex
<1>4. CASE m = [log |-> node.log, effects |-> <<>>]
  <2> HIDE DEF o
  <2>1. n = o.node
    BY <1>1, <1>2, <1>4 DEF NodeState
  <2>2. es = o.effects
    BY <1>2, <1>4, ConcatEmptySeq
  <2> HIDE DEF n, es
  <2>3. Sound(n, es) /\ NoSends(es)
    BY <1>1, <2>1, <2>2
  <2> QED
    BY <2>3 DEF n, es, o
<1>5. ASSUME NEW i \in Settled(t) + 1 .. Min({LastIndex(node) + 1, MaxIndex}),
             NEW e \in PeerEntries(i, t),
             m = [log |-> SubSeq(node.log, 1, i - 1 - node.boundary) \o <<e>>,
                  effects |-> <<PersistLog(i, <<e>>)>>]
      PROVE  Sound(n, es) /\ NoSends(es)
  <2>1. /\ Settled(t) \in Nat /\ node.commit <= Settled(t)
        /\ promise.term = t => promise.upTo <= Settled(t)
    BY SettledBound
  <2>2. LastIndex(node) + 1 \in Int /\ MaxIndex \in Int /\ node.commit \in Nat
    BY <1>3, NodeParts, ServerAssumption
  <2>3. Min({LastIndex(node) + 1, MaxIndex}) <= LastIndex(node) + 1
        /\ Min({LastIndex(node) + 1, MaxIndex}) \in Int
    <3>1. Min({LastIndex(node) + 1, MaxIndex}) \in {LastIndex(node) + 1, MaxIndex}
          /\ Min({LastIndex(node) + 1, MaxIndex}) <= LastIndex(node) + 1
      BY <2>2, PairExtrema
    <3> QED
      BY <2>2, <3>1
  <2>4. i \in Nat /\ i <= LastIndex(node) + 1 /\ i > Settled(t)
    BY <2>1, <2>2, <2>3
  <2>5. o.node.commit < i /\ i <= LastIndex(o.node) + 1
        /\ (promise.term = o.node.term => promise.upTo <= i)
    <3>1. promise.upTo \in Nat
      BY DEF Rested, ServerTypeOK
    <3> QED
      BY <1>1, <1>3, <2>1, <2>2, <2>4, <3>1
  <2>6. e \in Item
    <3>1. \A c \in Call : call[c].term \in Nat
      BY DEF Rested, ServerTypeOK, CallState
    <3> QED
      BY <2>4, <3>1, ServerAssumption DEF PeerEntries, Item
  <2> DEFINE w == PersistLog(i, <<e>>)
  <2>7. /\ n = [o.node EXCEPT !.log = SubSeq(o.node.log, 1, i - 1 - o.node.boundary) \o <<e>>]
        /\ es = o.effects \o <<w>>
    <3> HIDE DEF o
    <3> QED
      BY <1>1, <1>5
  <2>8. w \in Effect
    BY <2>4, <2>6 DEF PersistLog, Effect
  <2>9. es = Append(o.effects, w)
    <3> HIDE DEF w, o, es
    <3> QED
      BY <1>2, <2>7, <2>8, AppendIsConcat
  <2> HIDE DEF n, es, o
  <2>10. LET k == [o.node EXCEPT !.log = SubSeq(o.node.log, 1, i - 1 - o.node.boundary) \o <<e>>]
             fs == Append(o.effects, PersistLog(i, <<e>>))
         IN  Sound(k, fs) /\ NoSends(fs)
    BY <1>1, <2>4, <2>5, <2>6, CutSound
  <2> QED
    BY <2>7, <2>9, <2>10
<1>6. \/ m = [log |-> node.log, effects |-> <<>>]
      \/ \E i \in Settled(t) + 1 .. Min({LastIndex(node) + 1, MaxIndex}) :
           \E e \in PeerEntries(i, t) :
             m = [log |-> SubSeq(node.log, 1, i - 1 - node.boundary) \o <<e>>,
                  effects |-> <<PersistLog(i, <<e>>)>>]
  BY DEF MergedLogs
<1> HIDE DEF n, es
<1>7. Sound(n, es) /\ NoSends(es)
  BY <1>4, <1>5, <1>6 DEF n, es
<1> QED
  BY <1>7 DEF n, es

\* An entry of the leader's own, which nothing was said of yet.
LEMMA OwnEntrySound ==
    ASSUME Rested, NEW owner \in Call \cup {"peer", "config"}, NEW config \in Membership \cup {Nil},
           NEW n, NEW es, Sound(n, es), NoSends(es)
    PROVE  LET e == OwnEntry(n, owner, config)
               m == [n EXCEPT !.log = Append(@, e)]
               fs == Append(es, PersistLog(e.index, <<e>>))
           IN  /\ Sound(m, fs) /\ NoSends(fs)
               /\ PersistLog(e.index, <<e>>) \in Effect /\ PersistLog(e.index, <<e>>).kind # "Send"
<1> DEFINE i == LastIndex(n) + 1
           e == [index |-> i, term |-> n.term, owner |-> owner, config |-> config]
           m == [n EXCEPT !.log = Append(n.log, e)]
           w == PersistLog(i, <<e>>)
           fs == Append(es, w)
<1>1. n \in NodeState /\ Bounds(n) /\ es \in Seq(Effect)
      /\ Reaches(Durable(node), es, Durable(n), promise)
  BY DEF Sound
<1>2. /\ n.boundary \in Nat /\ n.log \in Seq(Item) /\ Len(n.log) \in Nat
      /\ LastIndex(n) = n.boundary + Len(n.log) /\ LastIndex(n) \in Nat
      /\ n.term \in Nat /\ n.commit \in Nat /\ n.commit <= LastIndex(n)
  BY <1>1, NodeParts DEF Bounds
<1>3. i \in Nat /\ e \in Item /\ e.index = i /\ e = OwnEntry(n, owner, config)
  BY <1>2 DEF Item, OwnEntry
<1>4. promise.term = n.term => promise.upTo <= i
  <2>1. Keeps(Durable(n), promise)
    BY <1>1, ReachesEnd
  <2>2. promise.term \in Nat /\ promise.upTo \in Nat
    BY DEF Rested, ServerTypeOK
  <2>3. Durable(n).term = n.term /\ LastIndex(Durable(n)) = LastIndex(n)
    BY DEF Durable, LastIndex
  <2> QED
    BY <1>2, <2>1, <2>2, <2>3 DEF Keeps
<1>5. SubSeq(n.log, 1, i - 1 - n.boundary) \o <<e>> = Append(n.log, e)
  <2>1. i - 1 - n.boundary = Len(n.log)
    BY <1>2
  <2>2. SubSeq(n.log, 1, Len(n.log)) = n.log
    BY <1>2
  <2> HIDE DEF e, i
  <2>3. Append(n.log, e) = n.log \o <<e>>
    BY <1>2, <1>3, AppendIsConcat
  <2> QED
    BY <2>1, <2>2, <2>3
<1>6. n.commit < i /\ i <= LastIndex(n) + 1
  BY <1>2
<1> HIDE DEF i, e
<1>7. LET k == [n EXCEPT !.log = SubSeq(n.log, 1, i - 1 - n.boundary) \o <<e>>]
          gs == Append(es, PersistLog(i, <<e>>))
      IN  Sound(k, gs) /\ NoSends(gs)
  BY <1>3, <1>4, <1>6, CutSound
<1>8. Sound(m, fs) /\ NoSends(fs)
  BY <1>5, <1>7
<1>9. w \in Effect /\ w.kind # "Send"
  BY <1>3 DEF PersistLog, Effect
<1> HIDE DEF m, w, fs
<1>10. /\ m = [n EXCEPT !.log = Append(@, OwnEntry(n, owner, config))]
       /\ w = PersistLog(OwnEntry(n, owner, config).index, <<OwnEntry(n, owner, config)>>)
       /\ fs = Append(es, w)
  BY <1>3 DEF m, w, fs
<1> QED
  BY <1>8, <1>9, <1>10

\* More is counted committed.
LEMMA CommittedSound ==
    ASSUME NEW n, NEW es, Sound(n, es), Rested, NEW c \in Nat, n.commit <= c, c <= LastIndex(n)
    PROVE  Sound(Committing(n, c), es) /\ LastIndex(Committing(n, c)) = LastIndex(n)
<1> DEFINE m == Committing(n, c)
<1>1. /\ n \in NodeState /\ es \in Seq(Effect) /\ Reaches(Durable(node), es, Durable(n), promise)
      /\ Bounds(n) /\ ResultsSound(n) /\ ResultsKept(n) /\ node.commit <= n.commit
      /\ node \in NodeState
  BY DEF Sound, Rested, ServerTypeOK
<1>2. /\ m \in NodeState /\ Durable(m) = Durable(n) /\ m.commit = c
      /\ LastIndex(m) = LastIndex(n) /\ Bounds(m) /\ ResultsSound(m)
      /\ \A i \in DOMAIN m.results : i <= n.commit =>
            i \in DOMAIN n.results /\ m.results[i] = n.results[i]
  BY <1>1, CommittingSound
<1>3. n.commit \in Nat /\ node.commit \in Nat /\ DOMAIN m.results \subseteq Nat
  BY <1>1, <1>2, NodeParts
<1> HIDE DEF m
<1>4. ResultsKept(m)
  <2> SUFFICES ASSUME NEW i \in DOMAIN m.results, i <= node.commit
               PROVE  i \in DOMAIN node.results /\ m.results[i] = node.results[i]
    BY DEF ResultsKept
  <2>1. i \in Nat /\ i <= n.commit
    BY <1>1, <1>3
  <2> QED
    BY <1>1, <1>2, <2>1 DEF ResultsKept
<1>5. node.commit <= m.commit
  BY <1>1, <1>2, <1>3
<1>6. Sound(m, es)
  BY <1>1, <1>2, <1>4, <1>5 DEF Sound
<1> QED
  BY <1>2, <1>6 DEF m

\* Another role.
LEMMA RoleSound ==
    ASSUME NEW n, NEW es, Sound(n, es), NEW r \in {"Follower", "Candidate", "Leader"}
    PROVE  Sound([n EXCEPT !.role = r], es)
<1> DEFINE m == [n EXCEPT !.role = r]
<1>1. n \in NodeState
  BY DEF Sound
<1>2. /\ m \in NodeState /\ m.term = n.term /\ m.vote = n.vote /\ m.log = n.log
      /\ m.boundary = n.boundary /\ m.commit = n.commit /\ m.results = n.results
      /\ m.learners = n.learners /\ m.base = n.base
  BY <1>1 DEF NodeState
<1> HIDE DEF m
<1>3. Durable(m) = Durable(n) /\ \A i : EntryOf(m, i) = EntryOf(n, i)
  BY <1>2 DEF Durable, EntryOf, LastIndex
<1>4. Sound(m, es)
  BY <1>1, <1>2, <1>3 DEF Sound, Bounds, LastIndex, ResultsSound, ResultsKept
<1> QED
  BY <1>4 DEF m

\* The newest entry that a majority has is counted committed, or it was already.
LEMMA CountedSound ==
    ASSUME Rested, NEW n, NEW es, Sound(n, es), NEW m \in Counted(n)
    PROVE  Sound(m, es)
<1>1. n.commit \in Nat /\ LastIndex(n) \in Nat
  <2>1. n \in NodeState
    BY DEF Sound
  <2> QED
    BY <2>1, NodeParts
<1>2. m = n \/ \E c \in n.commit + 1 .. LastIndex(n) : m = Committing(n, c)
  BY DEF Counted
<1>3. ASSUME NEW c \in n.commit + 1 .. LastIndex(n) PROVE Sound(Committing(n, c), es)
  <2>1. c \in Nat /\ n.commit <= c /\ c <= LastIndex(n)
    BY <1>1
  <2> QED
    BY <2>1, CommittedSound
<1> QED
  BY <1>2, <1>3

\* The change r of the replica, after the effects es.
AfterSound(r, es) ==
    Sound(r.node, es \o r.effects) /\ NoSends(es \o r.effects) /\ r.effects \in Seq(Effect)

\* A joint configuration is left by an entry that is written like any other.
LEMMA FollowedUpSound ==
    ASSUME Rested, NEW n, NEW es, Sound(n, es), NoSends(es), NEW r \in FollowedUp(n)
    PROVE  AfterSound(r, es)
<1> DEFINE k == [CurrentConfig(n) EXCEPT !.oldVoters = Nil]
           e == OwnEntry(n, "config", k)
           w == PersistLog(e.index, <<e>>)
           j == [n EXCEPT !.log = Append(@, e)]
<1>1. n \in NodeState /\ es \in Seq(Effect)
  BY DEF Sound
<1>2. k \in Membership
  <2>1. CurrentConfig(n) \in Membership
    BY <1>1, CurrentConfigType
  <2> QED
    BY <2>1 DEF Membership
<1>3. Sound(j, Append(es, w)) /\ NoSends(Append(es, w)) /\ w \in Effect
  <2> HIDE DEF k
  <2> QED
    BY <1>2, OwnEntrySound
<1>4. \/ r = [node |-> n, effects |-> <<>>]
      \/ \E m \in Counted(j) : r = [node |-> m, effects |-> <<w>>]
  <2> HIDE DEF w, j
  <2> QED
    BY DEF FollowedUp, w, j
<1> HIDE DEF w, j
<1>5. es \o <<>> = es /\ es \o <<w>> = Append(es, w) /\ <<>> \in Seq(Effect) /\ <<w>> \in Seq(Effect)
  <2>1. <<w>> \in Seq(Effect) /\ <<>> \in Seq(Effect)
    BY <1>3
  <2> QED
    BY <1>1, <1>3, <2>1, ConcatEmptySeq, AppendIsConcat
<1>6. CASE r = [node |-> n, effects |-> <<>>]
  BY <1>5, <1>6 DEF AfterSound
<1>7. ASSUME NEW m \in Counted(j), r = [node |-> m, effects |-> <<w>>] PROVE AfterSound(r, es)
  <2>1. Sound(m, Append(es, w))
    BY <1>3, <1>7, CountedSound
  <2> QED
    BY <1>3, <1>5, <1>7, <2>1 DEF AfterSound
<1> QED
  BY <1>4, <1>6, <1>7

\* advance_commit_index, after effects that send nothing.
LEMMA AdvancedSound ==
    ASSUME Rested, NEW n, NEW es, Sound(n, es), NoSends(es), NEW r \in Advanced(n)
    PROVE  AfterSound(r, es)
<1>1. PICK m \in Counted(n) : \E q \in FollowedUp(m) : r = [q EXCEPT !.node = Retired(@)]
  BY DEF Advanced
<1>2. PICK q \in FollowedUp(m) : r = [q EXCEPT !.node = Retired(@)]
  BY <1>1
<1>3. Sound(m, es)
  BY CountedSound
<1>4. AfterSound(q, es)
  BY <1>3, FollowedUpSound
<1>5. r.node = Retired(q.node) /\ r.effects = q.effects
  <2>1. \/ q = [node |-> m, effects |-> <<>>]
        \/ \E x, y : q = [node |-> x, effects |-> y]
    BY DEF FollowedUp
  <2>2. PICK x, y : q = [node |-> x, effects |-> y]
    BY <2>1
  <2> QED
    BY <1>2, <2>2
<1>6. Sound(Retired(q.node), es \o q.effects)
  BY <1>4, RoleSound DEF AfterSound, Retired
<1> QED
  BY <1>4, <1>5, <1>6 DEF AfterSound

\* What is sent after it.
LEMMA ReplicatedSound ==
    ASSUME Rested, NEW r, AfterSound(r, <<>>), NEW o \in ReplicatedTo(r)
    PROVE  OutcomeSound(o)
<1>1. Sound(r.node, r.effects) /\ NoSends(r.effects) /\ r.effects \in Seq(Effect)
      /\ r.node \in NodeState
  <2>1. <<>> \o r.effects = r.effects
    BY ConcatEmptySeq DEF AfterSound
  <2> QED
    BY <2>1 DEF AfterSound, Sound
<1>2. hint \in Peer \cup {Nil} /\ 0 <= LastIndex(r.node)
  BY <1>1, NodeParts DEF Rested, ServerTypeOK
<1>3. OutcomeSound(Outcome(r.node, r.effects))
  BY <1>1, <1>2, QuietOutcome DEF Outcome
<1>4. OutcomeSound(Outcome(r.node, Append(r.effects, Send)))
  BY <1>1, SendingOutcome
<1>5. r.effects \o <<>> = r.effects /\ r.effects \o <<Send>> = Append(r.effects, Send)
  <2>1. Send \in Effect
    BY DEF Send, Effect
  <2> QED
    BY <1>1, <2>1, ConcatEmptySeq, AppendIsConcat
<1>6. o = Outcome(r.node, r.effects \o <<>>) \/ o = Outcome(r.node, r.effects \o <<Send>>)
  BY DEF ReplicatedTo
<1> QED
  BY <1>3, <1>4, <1>5, <1>6

\* The replica as it is, quietly or with a message.
LEMMA UnchangedOutcomes ==
    ASSUME Rested
    PROVE  OutcomeSound(Outcome(node, <<>>)) /\ OutcomeSound(Outcome(node, <<Send>>))
<1>1. Sound(node, <<>>) /\ NoSends(<<>>) /\ hint \in Peer \cup {Nil} /\ 0 <= LastIndex(node)
  <2>1. node \in NodeState
    BY DEF Rested, ServerTypeOK
  <2>2. LastIndex(node) \in Nat
    BY <2>1, NodeParts
  <2> QED
    BY <2>2, RestingSound DEF NoSends, Rested, ServerTypeOK
<1>2. OutcomeSound(Outcome(node, <<>>))
  BY <1>1, QuietOutcome DEF Outcome
<1>3. Append(<<>>, Send) = <<Send>>
  OBVIOUS
<1>4. OutcomeSound(Outcome(node, Append(<<>>, Send)))
  BY <1>1, SendingOutcome
<1> QED
  BY <1>2, <1>3, <1>4

\* A vote, or a term, is written before it is sent.
LEMMA TickSound ==
    ASSUME Rested, NEW o \in TickOutcomes
    PROVE  OutcomeSound(o)
<1> DEFINE n == [node EXCEPT !.role = "Candidate", !.term = node.term + 1, !.vote = Self]
           e == PersistHardState(n)
           m(r) == [n EXCEPT !.role = r]
<1>1. OutcomeSound(Outcome(node, <<>>)) /\ OutcomeSound(Outcome(node, <<Send>>))
  BY UnchangedOutcomes
<1>2. ASSUME NEW r \in {"Candidate", "Leader"}
      PROVE  OutcomeSound(Outcome(m(r), <<e, Send>>))
  <2>1. node \in NodeState
    BY DEF Rested, ServerTypeOK
  <2>2. node.term \in Nat /\ Self \in Vote
    BY <2>1, NodeParts DEF Vote
  <2>3. PICK t \in Nat : t = node.term + 1 /\ t > node.term
    BY <2>2
  <2>4. n = [node EXCEPT !.role = "Candidate", !.term = t, !.vote = Self]
    BY <2>3
  <2>5. Sound(n, <<e>>) /\ NoSends(<<e>>)
    BY <2>2, <2>3, <2>4, AdoptedSound
  <2> HIDE DEF n, e
  <2>6. Sound(m(r), <<e>>)
    BY <2>5, RoleSound
  <2> HIDE DEF m
  <2>7. OutcomeSound(Outcome(m(r), Append(<<e>>, Send)))
    BY <2>5, <2>6, SendingOutcome
  <2>8. Append(<<e>>, Send) = <<e, Send>>
    <3>1. <<e>> \in Seq(Effect)
      BY <2>5 DEF Sound
    <3>2. e \in Effect
      BY <3>1
    <3>3. Send \in Effect
      BY DEF Send, Effect
    <3> HIDE DEF e
    <3> QED
      BY <3>2, <3>3, PairByAppend
  <2> QED
    BY <2>7, <2>8
<1>3. \/ o = Outcome(node, <<>>) \/ o = Outcome(node, <<Send>>)
      \/ \E r \in {"Candidate", "Leader"} : o = Outcome(m(r), <<e, Send>>)
  <2> HIDE DEF e
  <2> QED
    BY DEF TickOutcomes, e
<1> HIDE DEF m, e
<1> QED
  BY <1>1, <1>2, <1>3

\* A newer term; a vote that wins; a match that commits, or that does not.
LEMMA PeerResponseSound ==
    ASSUME Rested, NEW o \in PeerResponseOutcomes
    PROVE  OutcomeSound(o)
<1>1. node \in NodeState /\ node.term \in Nat /\ hint \in Peer \cup {Nil}
  <2>1. node \in NodeState
    BY DEF Rested, ServerTypeOK
  <2> QED
    BY <2>1, NodeParts DEF Rested, ServerTypeOK
<1>2. ASSUME NEW t \in node.term + 1 .. MaxTerm
      PROVE  OutcomeSound(Outcome(Adopted(t, Nil), <<PersistHardState(Adopted(t, Nil))>>))
  <2>1. t \in Nat /\ t > node.term /\ Nil \in Vote
    BY <1>1, ServerAssumption DEF Vote
  <2>2. Adopted(t, Nil) = [node EXCEPT !.role = "Follower", !.term = t, !.vote = Nil]
    BY <2>1 DEF Adopted
  <2>3. Sound(Adopted(t, Nil), <<PersistHardState(Adopted(t, Nil))>>)
        /\ NoSends(<<PersistHardState(Adopted(t, Nil))>>)
    BY <2>1, <2>2, AdoptedSound
  <2>4. 0 <= LastIndex(Adopted(t, Nil))
    BY <2>3, NodeParts DEF Sound
  <2> QED
    BY <1>1, <2>3, <2>4, QuietOutcome DEF Outcome
<1>3. Sound(node, <<>>) /\ NoSends(<<>>)
  BY RestingSound DEF NoSends
<1>4. OutcomeSound(Outcome([node EXCEPT !.role = "Leader"], <<Send>>))
  <2> DEFINE n == [node EXCEPT !.role = "Leader"]
  <2>1. Sound(n, <<>>)
    BY <1>3, RoleSound
  <2> HIDE DEF n
  <2>2. OutcomeSound(Outcome(n, Append(<<>>, Send)))
    BY <1>3, <2>1, SendingOutcome
  <2>3. Append(<<>>, Send) = <<Send>>
    OBVIOUS
  <2>4. OutcomeSound(Outcome(n, <<Send>>))
    BY <2>2, <2>3
  <2> QED
    BY <2>4 DEF n
<1>5. ASSUME NEW r \in Advanced(node), o \in ReplicatedTo(r) PROVE OutcomeSound(o)
  BY <1>3, <1>5, AdvancedSound, ReplicatedSound
<1>6. \/ \E t \in node.term + 1 .. MaxTerm :
            o = Outcome(Adopted(t, Nil), <<PersistHardState(Adopted(t, Nil))>>)
      \/ o = Outcome([node EXCEPT !.role = "Leader"], <<Send>>)
      \/ o = Outcome(node, <<Send>>)
      \/ \E r \in Advanced(node) : o \in ReplicatedTo(r)
  BY DEF PeerResponseOutcomes
<1> QED
  BY <1>2, <1>4, <1>5, <1>6, UnchangedOutcomes

\* A vote is given to a newer term's candidate, or where none was given yet.
LEMMA VoteSound ==
    ASSUME Rested, NEW o \in VoteOutcomes
    PROVE  OutcomeSound(o)
<1>1. PICK w \in [term : node.term .. MaxTerm, vote : Peer \cup {Nil}] :
        /\ o = Outcome(Adopted(w.term, w.vote), <<PersistHardState(Adopted(w.term, w.vote))>>)
        /\ w.term = node.term => node.vote = Nil
  BY DEF VoteOutcomes
<1> DEFINE t == w.term
           v == w.vote
           r == IF t > node.term THEN "Follower" ELSE node.role
           n == Adopted(t, v)
<1>2. node \in NodeState /\ hint \in Peer \cup {Nil}
  BY DEF Rested, ServerTypeOK
<1>3. node.term \in Nat /\ t \in node.term .. MaxTerm /\ v \in Vote
  BY <1>2, NodeParts DEF Vote
<1>4. t \in Nat /\ (t > node.term \/ (t = node.term /\ node.vote = Nil))
  <2>1. MaxTerm \in Nat
    BY ServerAssumption
  <2> HIDE DEF t
  <2>2. t \in Nat /\ (t > node.term \/ t = node.term)
    BY <1>3, <2>1
  <2> QED
    BY <1>1, <2>2 DEF t
<1>5. r \in {"Follower", "Candidate", "Leader"}
  BY <1>2 DEF NodeState
<1>6. n = [node EXCEPT !.role = r, !.term = t, !.vote = v]
  BY DEF Adopted
<1> HIDE DEF t, v, r, n
<1>7. Sound(n, <<PersistHardState(n)>>) /\ NoSends(<<PersistHardState(n)>>)
  BY <1>3, <1>4, <1>5, <1>6, AdoptedSound
<1>8. 0 <= LastIndex(n)
  BY <1>7, NodeParts DEF Sound
<1>9. OutcomeSound(Outcome(n, <<PersistHardState(n)>>))
  BY <1>2, <1>7, <1>8, QuietOutcome DEF Outcome
<1> QED
  BY <1>1, <1>9 DEF n, t, v

\* The hint after a leader's message.
LEMMA HintType ==
    ASSUME Rested, NEW p \in Peer, NEW t
    PROVE  UpdateLeaderHint(p, t) \in Peer \cup {Nil}
BY DEF Rested, ServerTypeOK, UpdateLeaderHint

\* Entries of a leader are merged, and some of the log may be committed.
LEMMA AppendEntriesSound ==
    ASSUME Rested, NEW o \in AppendEntriesOutcomes
    PROVE  OutcomeSound(o)
<1>1. PICK t \in PeerLedTerms, p \in Peer : \E m \in MergedLogs(t) :
        LET n == [Observed(t).node EXCEPT !.log = m.log]
        IN  \E c \in n.commit .. LastIndex(n),
               a \in IF m.effects = <<>> THEN 0 .. LastIndex(n) ELSE {LastIndex(n)} :
              o = [node |-> Committing(n, c), effects |-> Observed(t).effects \o m.effects,
                   hint |-> UpdateLeaderHint(p, t), acked |-> a]
  <2> DEFINE Merged(t, p, m) ==
               LET n == [Observed(t).node EXCEPT !.log = m.log]
               IN  {[node |-> Committing(n, c), effects |-> Observed(t).effects \o m.effects,
                     hint |-> UpdateLeaderHint(p, t),
                     acked |-> a] :
                       c \in n.commit .. LastIndex(n),
                       a \in IF m.effects = <<>> THEN 0 .. LastIndex(n) ELSE {LastIndex(n)}}
             All(t, p) == UNION {Merged(t, p, m) : m \in MergedLogs(t)}
  <2>1. AppendEntriesOutcomes = UNION {All(t, p) : t \in PeerLedTerms, p \in Peer}
    BY DEF AppendEntriesOutcomes
  <2> HIDE DEF Merged
  <2>2. PICK t \in PeerLedTerms, p \in Peer : o \in All(t, p)
    <3> HIDE DEF All
    <3> QED
      BY <2>1
  <2>3. PICK m \in MergedLogs(t) : o \in Merged(t, p, m)
    BY <2>2
  <2> DEFINE n == [Observed(t).node EXCEPT !.log = m.log]
             A == IF m.effects = <<>> THEN 0 .. LastIndex(n) ELSE {LastIndex(n)}
             es == Observed(t).effects \o m.effects
             h == UpdateLeaderHint(p, t)
             C == n.commit .. LastIndex(n)
             one(c, a) == [node |-> Committing(n, c), effects |-> es, hint |-> h, acked |-> a]
  <2>4. Merged(t, p, m) = {one(c, a) : c \in C, a \in A}
    BY DEF Merged
  <2> HIDE DEF n, A, es, h, C, one
  <2>5. \E c \in C, a \in A : o = one(c, a)
    BY <2>3, <2>4
  <2> QED
    BY <2>5 DEF n, A, es, h, C, one
<1>2. PICK m \in MergedLogs(t) :
        LET n == [Observed(t).node EXCEPT !.log = m.log]
        IN  \E c \in n.commit .. LastIndex(n),
               a \in IF m.effects = <<>> THEN 0 .. LastIndex(n) ELSE {LastIndex(n)} :
              o = [node |-> Committing(n, c), effects |-> Observed(t).effects \o m.effects,
                   hint |-> UpdateLeaderHint(p, t), acked |-> a]
  BY <1>1
<1> DEFINE n == [Observed(t).node EXCEPT !.log = m.log]
           es == Observed(t).effects \o m.effects
           h == UpdateLeaderHint(p, t)
<1>3. t \in Nat /\ t >= node.term
  BY LedTerms
<1>4. Sound(n, es) /\ NoSends(es)
  BY <1>3, MergedSound
<1>5. h \in Peer \cup {Nil}
  BY HintType
<1>6. PICK c \in n.commit .. LastIndex(n),
           a \in IF m.effects = <<>> THEN 0 .. LastIndex(n) ELSE {LastIndex(n)} :
        o = [node |-> Committing(n, c), effects |-> es, hint |-> h, acked |-> a]
  BY <1>2
<1> HIDE DEF n, es, h
<1>7. n.commit \in Nat /\ LastIndex(n) \in Nat
  BY <1>4, NodeParts DEF Sound
<1>8. c \in Nat /\ n.commit <= c /\ c <= LastIndex(n) /\ a \in Nat /\ a <= LastIndex(n)
  BY <1>7
<1>9. Sound(Committing(n, c), es) /\ LastIndex(Committing(n, c)) = LastIndex(n)
  BY <1>4, <1>8, CommittedSound
<1> QED
  BY <1>4, <1>5, <1>6, <1>8, <1>9, QuietOutcome

\* A snapshot replaces the log.
LEMMA InstallSnapshotSound ==
    ASSUME Rested, NEW o \in InstallSnapshotOutcomes
    PROVE  OutcomeSound(o)
<1>1. PICK t \in PeerLedTerms, p \in Peer :
        \E b \in Settled(t) + 1 .. MaxIndex, k \in {Genesis} \cup Received : o = Installed(t, p, b, k)
  <2> DEFINE All(t, p) == {Installed(t, p, b, k) : b \in Settled(t) + 1 .. MaxIndex, k \in {Genesis} \cup Received}
  <2>1. PICK t \in PeerLedTerms, p \in Peer : o \in All(t, p)
    <3>1. InstallSnapshotOutcomes = UNION {All(t, p) : t \in PeerLedTerms, p \in Peer}
      BY DEF InstallSnapshotOutcomes
    <3> HIDE DEF All
    <3> QED
      BY <3>1
  <2> QED
    BY <2>1
<1>2. PICK b \in Settled(t) + 1 .. MaxIndex, k \in {Genesis} \cup Received : o = Installed(t, p, b, k)
  BY <1>1
<1> DEFINE n == Observed(t).node
           es == Observed(t).effects
           h == UpdateLeaderHint(p, t)
           m == [n EXCEPT !.log = <<>>, !.boundary = b, !.base = k, !.commit = b, !.results = <<>>]
           fs == es \o <<PersistSnapshot(b, k), PersistLog(b + 1, <<>>)>>
<1>3. t \in Nat /\ t >= node.term /\ b \in Nat /\ b > Settled(t)
  <2>1. t \in Nat /\ t >= node.term
    BY LedTerms
  <2>2. Settled(t) \in Nat
    BY <2>1, SettledBound
  <2> QED
    BY <2>1, <2>2, ServerAssumption
<1>4. Sound(n, es) /\ NoSends(es) /\ n.term = t /\ n.commit = node.commit
  BY <1>3, ObservedSound
<1>5. n.commit <= b /\ (promise.term = n.term => promise.upTo <= b)
  <2>1. /\ Settled(t) \in Nat /\ node.commit <= Settled(t)
        /\ promise.term = t => promise.upTo <= Settled(t)
    BY <1>3, SettledBound
  <2>2. node.commit \in Nat /\ promise.upTo \in Nat
    <3>1. node \in NodeState /\ promise.upTo \in Nat
      BY DEF Rested, ServerTypeOK
    <3> QED
      BY <3>1, NodeParts
  <2> HIDE DEF n
  <2> QED
    BY <1>3, <1>4, <2>1, <2>2
<1>6. Sound(m, fs) /\ NoSends(fs) /\ LastIndex(m) = b
  <2>1. k \in Membership
    <3>1. Genesis \in Membership
      BY DEF Genesis, Membership
    <3>2. Received \subseteq Membership
      BY ServerAssumption
    <3> QED
      BY <3>1, <3>2
  <2> HIDE DEF n, es
  <2> QED
    BY <1>3, <1>4, <1>5, <2>1, InstalledSound
<1>7. h \in Peer \cup {Nil}
  BY HintType
<1>8. o = [node |-> m, effects |-> fs, hint |-> h, acked |-> b]
  BY <1>2 DEF Installed
<1>9. b <= b
  BY <1>3
<1> HIDE DEF m, fs, h
<1> QED
  BY <1>3, <1>6, <1>7, <1>8, <1>9, QuietOutcome

\* Any request of a peer.
LEMMA PeerRequestSound ==
    ASSUME Rested, NEW o \in PeerRequestOutcomes
    PROVE  OutcomeSound(o)
BY UnchangedOutcomes, VoteSound, AppendEntriesSound, InstallSnapshotSound DEF PeerRequestOutcomes

\* Other learners.
LEMMA LearnersSound ==
    ASSUME Rested, NEW S \in SUBSET {Learner}
    PROVE  LET n == [node EXCEPT !.learners = S]
               es == <<PersistLearners(S)>>
           IN  Sound(n, es) /\ NoSends(es) /\ n.learners = S
<1> DEFINE n == [node EXCEPT !.learners = S]
           e == PersistLearners(S)
           d == Durable(node)
<1>1. node \in NodeState /\ Sound(node, <<>>) /\ Reaches(d, <<>>, d, promise) /\ d \in File
      /\ Keeps(d, promise)
  BY RestingSound, NodeParts DEF Sound, Rested
<1>2. /\ n \in NodeState /\ n.term = node.term /\ n.vote = node.vote /\ n.log = node.log
      /\ n.boundary = node.boundary /\ n.commit = node.commit /\ n.results = node.results
      /\ n.learners = S /\ n.base = node.base
  BY <1>1 DEF NodeState
<1> HIDE DEF n
<1>3. e \in Effect /\ e.kind # "Send" /\ Wrote(d, e) = [d EXCEPT !.learners = S]
  BY <1>1, WritesLearners
<1>4. Wrote(d, e) = Durable(n)
  BY <1>2, <1>3 DEF Durable
<1>5. Durable(n) \in File /\ Keeps(Durable(n), promise)
  <2>1. Durable(n).term = d.term /\ Durable(n).vote = d.vote /\ LastIndex(Durable(n)) = LastIndex(d)
    BY <1>2 DEF Durable, LastIndex
  <2> HIDE DEF d
  <2> QED
    BY <1>1, <1>2, <2>1, NodeParts DEF Keeps
<1>6. <<e>> = Append(<<>>, e) /\ <<e>> \in Seq(Effect) /\ NoSends(<<e>>)
  <2> HIDE DEF e
  <2>1. <<>> \in Seq(Effect) /\ NoSends(<<>>)
    BY DEF NoSends
  <2>2. <<e>> = Append(<<>>, e) /\ <<e>> \in Seq(Effect)
    BY <1>3
  <2>3. NoSends(Append(<<>>, e))
    BY <1>3, <2>1, NoMoreSends
  <2> QED
    BY <2>2, <2>3
<1>7. Reaches(d, <<e>>, Durable(n), promise)
  <2> HIDE DEF e, d
  <2>1. <<>> \in Seq(Effect)
    OBVIOUS
  <2>2. Reaches(d, Append(<<>>, e), Durable(n), promise)
    BY <1>1, <1>3, <1>4, <1>5, <2>1, ReachesMore
  <2> QED
    BY <1>6, <2>2
<1>8. \A i : EntryOf(n, i) = EntryOf(node, i)
  BY <1>2 DEF EntryOf, LastIndex
<1>9. Sound(n, <<e>>)
  <2> HIDE DEF e
  <2> QED
    BY <1>1, <1>2, <1>6, <1>7, <1>8 DEF Sound, Bounds, LastIndex, ResultsSound, ResultsKept
<1> QED
  BY <1>2, <1>6, <1>9 DEF n

\* The leader's own entry, in the log and on its way to the file, and what is
\* committed with it.
LEMMA AppendedOutcome ==
    ASSUME Rested, NEW n, NEW first, Sound(n, first), NoSends(first),
           NEW owner \in Call \cup {"peer", "config"}, NEW config \in Membership \cup {Nil},
           NEW o \in Appended(n, first, owner, config)
    PROVE  OutcomeSound(o)
<1> DEFINE e == OwnEntry(n, owner, config)
           m == [n EXCEPT !.log = Append(@, e)]
           w == PersistLog(e.index, <<e>>)
           es == Append(first, w)
<1>1. Sound(m, es) /\ NoSends(es) /\ w \in Effect
  BY OwnEntrySound
<1>2. first \in Seq(Effect)
  BY DEF Sound
<1>3. PICK r \in Advanced(m) : o = Outcome(r.node, (first \o <<w>>) \o r.effects)
  <2> HIDE DEF w, m
  <2> QED
    BY DEF Appended, w, m
<1> HIDE DEF m, w
<1>4. first \o <<w>> = es
  BY <1>1, <1>2, AppendIsConcat
<1>5. AfterSound(r, es)
  BY <1>1, AdvancedSound
<1>6. o = Outcome(r.node, es \o r.effects)
  BY <1>3, <1>4
<1> HIDE DEF es
<1>7. 0 <= LastIndex(r.node) /\ hint \in Peer \cup {Nil}
  BY <1>5, NodeParts DEF AfterSound, Sound, Rested, ServerTypeOK
<1>8. OutcomeSound(Outcome(r.node, es \o r.effects))
  BY <1>5, <1>7, QuietOutcome DEF Outcome, AfterSound
<1> QED
  BY <1>6, <1>8

\* A proposal.
LEMMA ProposedSound ==
    ASSUME Rested, NEW c \in Call, NEW o \in ProposedOutcomes(c)
    PROVE  OutcomeSound(o)
<1>1. Sound(node, <<>>) /\ NoSends(<<>>)
  BY RestingSound DEF NoSends
<1> QED
  BY <1>1, AppendedOutcome DEF ProposedOutcomes

\* A configuration change, which may drop the learners.
LEMMA ReconfiguredSound ==
    ASSUME Rested, NEW o \in ReconfiguredOutcomes
    PROVE  OutcomeSound(o)
<1> DEFINE n == [node EXCEPT !.learners = {}]
           es == <<PersistLearners({})>>
           joint(v) == [voters |-> v, oldVoters |-> CurrentConfig(node).voters]
<1>1. Sound(node, <<>>) /\ NoSends(<<>>)
  BY RestingSound DEF NoSends
<1>2. Sound(n, es) /\ NoSends(es)
  <2>1. {} \in SUBSET {Learner}
    OBVIOUS
  <2> QED
    BY <2>1, LearnersSound
<1>3. \A v \in BOOLEAN : joint(v) \in Membership
  <2>1. node \in NodeState
    BY DEF Rested, ServerTypeOK
  <2>2. CurrentConfig(node) \in Membership
    BY <2>1, CurrentConfigType
  <2> QED
    BY <2>2 DEF Membership
<1>4. PICK v \in BOOLEAN : \/ o \in Appended(node, <<>>, "config", joint(v))
                           \/ o \in Appended(n, es, "config", joint(v))
  <2> HIDE DEF n, es, joint
  <2>1. ReconfiguredOutcomes =
          UNION {Appended(node, <<>>, "config", joint(v))
                   \cup (IF node.learners = {} THEN {} ELSE Appended(n, es, "config", joint(v)))
                 : v \in BOOLEAN}
    BY DEF ReconfiguredOutcomes, n, es, joint
  <2> QED
    BY <2>1
<1> HIDE DEF n, es, joint
<1>5. joint(v) \in Membership \cup {Nil} /\ "config" \in Call \cup {"peer", "config"}
  BY <1>3
<1> QED
  BY <1>1, <1>2, <1>4, <1>5, AppendedOutcome

\* A learner added or removed, or already so.
LEMMA WithLearnersSound ==
    ASSUME Rested, NEW S \in SUBSET {Learner}
    PROVE  OutcomeSound(WithLearners(S)) /\ WithLearners(S).node.learners = S
<1>1. CASE S = node.learners
  BY <1>1, UnchangedOutcomes DEF WithLearners, Outcome
<1>2. CASE S # node.learners
  <2> DEFINE n == [node EXCEPT !.learners = S]
             es == <<PersistLearners(S)>>
  <2>1. Sound(n, es) /\ NoSends(es) /\ n.learners = S
    BY LearnersSound
  <2>2. WithLearners(S) = Outcome(n, es)
    BY <1>2 DEF WithLearners
  <2> HIDE DEF n, es
  <2>3. 0 <= LastIndex(n) /\ hint \in Peer \cup {Nil}
    BY <2>1, NodeParts DEF Sound, Rested, ServerTypeOK
  <2>4. OutcomeSound(Outcome(n, es))
    BY <2>1, <2>3, QuietOutcome DEF Outcome
  <2> QED
    BY <2>1, <2>2, <2>4 DEF Outcome
<1> QED
  BY <1>1, <1>2

\* Whatever a request makes of the replica is sound.
LEMMA OutcomesSound ==
    ASSUME Rested
    PROVE  /\ \A o \in TickOutcomes \cup PeerResponseOutcomes \cup PeerRequestOutcomes : OutcomeSound(o)
           /\ \A c \in Call : \A o \in ProposedOutcomes(c) : OutcomeSound(o)
           /\ \A o \in ReconfiguredOutcomes : OutcomeSound(o)
           /\ OutcomeSound(Outcome(node, <<>>))
           /\ \A S \in SUBSET {Learner} :
                 OutcomeSound(WithLearners(S)) /\ WithLearners(S).node.learners = S
BY TickSound, PeerResponseSound, PeerRequestSound, ProposedSound, ReconfiguredSound,
   UnchangedOutcomes, WithLearnersSound

-----------------------------------------------------------------------------
(* Compaction *)

\* The replica becomes n with effects es, which may send.
Settles(n, es) ==
    /\ n \in NodeState /\ es \in Seq(Effect)
    /\ Leads(Durable(node), es, Durable(n), promise, Telling(n, promise))
    /\ Bounds(n) /\ ResultsSound(n) /\ ResultsKept(n) /\ node.commit <= n.commit

\* A file that is longer takes back no more.
LEMMA KeepsLonger ==
    ASSUME NEW d \in File, NEW f \in File, NEW pr, pr.upTo \in Nat, Keeps(d, pr),
           f.term = d.term, f.vote = d.vote, LastIndex(f) >= LastIndex(d)
    PROVE  Keeps(f, pr)
<1>1. LastIndex(d) \in Nat /\ LastIndex(f) \in Nat
  <2>1. d.boundary \in Nat /\ f.boundary \in Nat /\ d.log \in Seq(Item) /\ f.log \in Seq(Item)
    BY DEF File
  <2> QED
    BY <2>1 DEF LastIndex
<1> QED
  BY <1>1 DEF Keeps

\* What a replica sends is no more than it has.
LEMMA TellingKept ==
    ASSUME NEW n \in NodeState, NEW pr \in [term : Nat, vote : Vote, upTo : Nat],
           Keeps(Durable(n), pr)
    PROVE  /\ Keeps(Durable(n), Telling(n, pr))
           /\ Telling(n, pr) \in [term : Nat, vote : Vote, upTo : Nat]
<1> DEFINE u == IF n.role = "Leader" THEN LastIndex(n) ELSE 0
<1>1. n.term \in Nat /\ n.vote \in Vote /\ LastIndex(n) \in Nat
  BY NodeParts
<1>2. u \in Nat /\ u <= LastIndex(n)
  BY <1>1
<1>3. /\ Durable(n).term = n.term /\ Durable(n).vote = n.vote
      /\ LastIndex(Durable(n)) = LastIndex(n)
  BY DEF Durable, LastIndex
<1>4. Telling(n, pr) = IF pr.term = n.term
                       THEN [term |-> n.term, vote |-> n.vote, upTo |-> Max({u, pr.upTo})]
                       ELSE [term |-> n.term, vote |-> n.vote, upTo |-> u]
  BY DEF Telling
<1> HIDE DEF u
<1>5. CASE pr.term = n.term
  <2>1. u \in Int /\ pr.upTo \in Int /\ pr.upTo \in Nat
    BY <1>2
  <2>2. PICK x \in Nat : x = Max({u, pr.upTo}) /\ x \in {u, pr.upTo}
    <3>1. Max({u, pr.upTo}) \in {u, pr.upTo}
      BY <2>1, PairExtrema
    <3> QED
      BY <1>2, <2>1, <3>1
  <2>3. pr.upTo <= LastIndex(n)
    BY <1>1, <1>3, <1>5 DEF Keeps
  <2>4. x <= LastIndex(n)
    BY <1>2, <2>2, <2>3
  <2>5. Telling(n, pr) = [term |-> n.term, vote |-> n.vote, upTo |-> x]
    BY <1>4, <1>5, <2>2
  <2> QED
    BY <1>1, <1>3, <2>4, <2>5 DEF Keeps
<1>6. CASE pr.term # n.term
  BY <1>1, <1>2, <1>3, <1>4, <1>6 DEF Keeps
<1> QED
  BY <1>5, <1>6

\* A sound change, and a message of the same replica after it.
LEMMA SoundSettles ==
    ASSUME Rested, NEW n, NEW es, Sound(n, es), NoSends(es),
           NEW m \in NodeState, Telling(m, promise) = Telling(n, promise),
           NEW fs, fs = es \/ fs = Append(es, Send)
    PROVE  /\ fs \in Seq(Effect)
           /\ Leads(Durable(node), fs, Durable(n), promise, Telling(m, promise))
           /\ Keeps(Durable(n), promise) /\ Keeps(Durable(n), Telling(m, promise))
           /\ Telling(m, promise).upTo \in Nat
<1> DEFINE more == Telling(m, promise)
           d == Durable(n)
<1>1. n \in NodeState /\ es \in Seq(Effect) /\ Reaches(Durable(node), es, d, promise)
  BY DEF Sound
<1>2. d \in File /\ Keeps(d, promise)
  BY <1>1, ReachesEnd
<1>3. Keeps(d, more) /\ more \in [term : Nat, vote : Vote, upTo : Nat]
  <2>1. promise \in [term : Nat, vote : Vote, upTo : Nat]
    BY DEF Rested, ServerTypeOK
  <2> QED
    BY <1>1, <1>2, <2>1, TellingKept
<1> HIDE DEF d, more
<1>4. Leads(Durable(node), es, d, promise, more)
  BY <1>1, LeadsQuietly DEF Reaches
<1>5. Send \in Effect /\ Wrote(d, Send) = d
  BY <1>2, WritesLearners
<1>6. Leads(Durable(node), Append(es, Send), d, promise, more)
  BY <1>1, <1>2, <1>3, <1>4, <1>5, LeadsMore
<1>7. fs \in Seq(Effect)
  BY <1>1, <1>5
<1>8. Leads(Durable(node), fs, d, promise, more)
  BY <1>4, <1>6
<1> QED
  BY <1>2, <1>3, <1>7, <1>8 DEF d, more

\* n with a snapshot up to b, the entries above it, and the effects of it after gs.
RestAbove(n, b) == SubSeq(n.log, b - n.boundary + 1, Len(n.log))

CompactedTo(n, b, config) ==
    [n EXCEPT !.boundary = b, !.base = config, !.log = RestAbove(n, b)]

CompactedBy(n, gs, b, config) ==
    gs \o <<PersistSnapshot(b, config), PersistLog(b + 1, RestAbove(n, b))>>

\* Such a replica settles with such effects, and has what it had above b.
CompactionSound(n, gs, b, config) ==
    LET m == CompactedTo(n, b, config)
    IN  /\ Settles(m, CompactedBy(n, gs, b, config)) /\ LastIndex(m) = LastIndex(n)
        /\ m.boundary = b /\ m.commit = n.commit /\ m.learners = n.learners

\* What is applied may leave the log: the file reads the same above the new
\* boundary, and never lacks an entry in between.
LEMMA CompactedSound ==
    ASSUME Rested, NEW n, NEW es, Sound(n, es), NoSends(es), NEW b \in Nat,
           n.boundary < b, b <= n.commit, NEW config \in Membership,
           NEW gs, gs = es \/ gs = Append(es, Send)
    PROVE  CompactionSound(n, gs, b, config)
<1> DEFINE k == b - n.boundary
           rest == SubSeq(n.log, k + 1, Len(n.log))
           m == [n EXCEPT !.boundary = b, !.base = config, !.log = rest]
           v == PersistSnapshot(b, config)
           w == PersistLog(b + 1, rest)
           fs == gs \o <<v, w>>
           d == Durable(n)
           f == Wrote(d, v)
           g == Wrote(f, w)
           more == Telling(m, promise)
<1>1. /\ n \in NodeState /\ Bounds(n) /\ ResultsSound(n) /\ ResultsKept(n)
      /\ node.commit <= n.commit
  BY DEF Sound
<1>2. /\ n.boundary \in Nat /\ n.commit \in Nat /\ n.log \in Seq(Item) /\ Len(n.log) \in Nat
      /\ LastIndex(n) = n.boundary + Len(n.log) /\ d \in File /\ n.term \in Nat
      /\ n.commit <= LastIndex(n)
  BY <1>1, NodeParts DEF Bounds
<1>3. k \in Nat /\ k <= Len(n.log) /\ n.boundary + k = b
  BY <1>2
<1>4. /\ rest \in Seq(Item) /\ Len(rest) = Len(n.log) - k
      /\ \A x \in 1 .. Len(n.log) - k : rest[x] = n.log[k + x]
  <2> HIDE DEF k
  <2> QED
    BY <1>2, <1>3, RestOf
<1> HIDE DEF k, rest
<1>5. /\ v \in Effect /\ v.kind # "Send" /\ w \in Effect /\ w.kind # "Send"
      /\ f \in File /\ f.term = d.term /\ f.vote = d.vote /\ LastIndex(f) = b + Len(d.log)
      /\ g \in File /\ g.term = d.term /\ g.vote = d.vote /\ g.log = rest
      /\ g.boundary = b /\ g.base = config /\ g.learners = d.learners
      /\ LastIndex(g) = b + Len(rest)
  <2>1. d \in File /\ b \in Nat /\ config \in Membership /\ rest \in Seq(Item)
    BY <1>2, <1>4
  <2> HIDE DEF d
  <2> QED
    BY <2>1, WritesSnapshot, ZenonT(60)
<1> HIDE DEF f, g
<1>6. /\ d.term = n.term /\ d.vote = n.vote /\ d.log = n.log /\ d.learners = n.learners
      /\ LastIndex(d) = LastIndex(n)
  BY DEF Durable, LastIndex
<1>7. /\ m \in NodeState /\ m.log = rest /\ m.boundary = b /\ m.base = config
      /\ m.commit = n.commit /\ m.role = n.role
      /\ m.results = n.results /\ m.term = n.term /\ m.vote = n.vote /\ m.learners = n.learners
  BY <1>1, <1>4 DEF NodeState
<1> HIDE DEF m
<1>8. g = Durable(m)
  <2>1. Durable(m) \in File
    BY <1>7, NodeParts
  <2>2. /\ g.term = Durable(m).term /\ g.vote = Durable(m).vote /\ g.log = Durable(m).log
        /\ g.boundary = Durable(m).boundary /\ g.base = Durable(m).base
        /\ g.learners = Durable(m).learners
    BY <1>5, <1>6, <1>7 DEF Durable
  <2> QED
    BY <1>5, <2>1, <2>2, SameFile
<1>9. LastIndex(m) = LastIndex(n) /\ LastIndex(g) = LastIndex(n) /\ LastIndex(f) >= LastIndex(n)
  <2>1. LastIndex(m) = b + Len(rest)
    BY <1>7 DEF LastIndex
  <2>2. LastIndex(f) = b + Len(n.log) /\ LastIndex(g) = b + Len(rest)
    BY <1>5, <1>6
  <2>3. b + (Len(n.log) - k) = n.boundary + Len(n.log) /\ b + Len(n.log) >= n.boundary + Len(n.log)
    <3>1. \A x, y, z, l \in Nat : x + y = z => z + (l - y) = x + l /\ z + l >= x + l
      OBVIOUS
    <3> QED
      BY <1>2, <1>3, <3>1
  <2> QED
    BY <1>2, <1>4, <2>1, <2>2, <2>3
<1>10. Telling(m, promise) = Telling(n, promise)
  BY <1>7, <1>9 DEF Telling
<1>11. /\ gs \in Seq(Effect) /\ Leads(Durable(node), gs, d, promise, more)
       /\ Keeps(d, promise) /\ Keeps(d, more) /\ more.upTo \in Nat
  BY <1>7, <1>10, SoundSettles
<1> HIDE DEF more
<1>12. Keeps(f, promise) /\ Keeps(g, promise) /\ Keeps(f, more) /\ Keeps(g, more)
  <2>1. promise.upTo \in Nat
    BY DEF Rested, ServerTypeOK
  <2>2. LastIndex(f) >= LastIndex(d) /\ LastIndex(g) >= LastIndex(d)
    <3>1. LastIndex(n) \in Nat
      BY <1>2
    <3> QED
      BY <1>6, <1>9, <3>1
  <2> HIDE DEF d
  <2> QED
    BY <1>2, <1>5, <1>11, <2>1, <2>2, KeepsLonger
<1>13. Leads(Durable(node), Append(Append(gs, v), w), g, promise, more)
  <2>1. f = Wrote(d, v) /\ g = Wrote(f, w)
    BY DEF f, g
  <2> HIDE DEF d, v, w
  <2>2. Leads(Durable(node), Append(gs, v), f, promise, more)
    BY <1>5, <1>11, <1>12, <2>1, LeadsMore
  <2>3. Append(gs, v) \in Seq(Effect)
    BY <1>5, <1>11
  <2> QED
    BY <1>5, <1>12, <2>1, <2>2, <2>3, LeadsMore
<1>14. fs = Append(Append(gs, v), w) /\ fs \in Seq(Effect)
  <2> HIDE DEF v, w
  <2>1. gs \o <<v, w>> = Append(Append(gs, v), w) /\ Append(Append(gs, v), w) \in Seq(Effect)
    BY <1>5, <1>11, ListsByAppend
  <2> QED
    BY <2>1
<1>15. Bounds(m)
  BY <1>2, <1>7, <1>9 DEF Bounds
<1>16. ResultsSound(m)
  <2> SUFFICES ASSUME NEW j \in DOMAIN n.results
               PROVE  j <= n.commit /\ (j > b => n.results[j] = EntryOf(m, j))
    BY <1>7 DEF ResultsSound
  <2>1. j \in Nat /\ j <= n.commit /\ (j > n.boundary => n.results[j] = EntryOf(n, j))
    BY <1>1, NodeParts DEF ResultsSound
  <2>2. ASSUME j > b PROVE n.results[j] = EntryOf(m, j)
    <3>1. j > n.boundary /\ j <= LastIndex(n) /\ j - b \in 1 .. Len(n.log) - k
          /\ k + (j - b) = j - n.boundary
      <4>1. j \in Nat /\ j <= n.commit
        BY <2>1
      <4>2. j > n.boundary /\ j <= LastIndex(n)
        BY <1>2, <2>2, <4>1
      <4>3. LastIndex(n) - b = Len(n.log) - k /\ Len(n.log) - k \in Int
        BY <1>2, <1>3
      <4>4. j - b <= LastIndex(n) - b /\ j - b >= 1 /\ j - b \in Int
        BY <1>2, <2>2, <4>1, <4>2
      <4>5. k + (j - b) = j - n.boundary
        BY <1>2, <1>3, <4>1
      <4> QED
        BY <4>2, <4>3, <4>4, <4>5
    <3>2. EntryOf(m, j) = rest[j - b]
      BY <1>7, <1>9, <2>2, <3>1 DEF EntryOf
    <3>3. EntryOf(n, j) = n.log[j - n.boundary]
      BY <3>1 DEF EntryOf
    <3> QED
      BY <1>4, <2>1, <3>1, <3>2, <3>3
  <2> QED
    BY <2>1, <2>2
<1>17. ResultsKept(m) /\ node.commit <= m.commit
  BY <1>1, <1>7 DEF ResultsKept
<1> HIDE DEF fs
<1>18. Settles(m, fs)
  <2> HIDE DEF v, w, d
  <2> QED
    BY <1>7, <1>8, <1>13, <1>14, <1>15, <1>16, <1>17 DEF Settles, more
<1>19. /\ Settles(m, fs) /\ LastIndex(m) = LastIndex(n)
       /\ m.boundary = b /\ m.commit = n.commit /\ m.learners = n.learners
  BY <1>7, <1>9, <1>18
<1> QED
  BY <1>19 DEF k, rest, m, v, w, fs, CompactionSound, CompactedTo, CompactedBy, RestAbove

\* compact_retain is below the threshold, so compaction leaves less than that.
LEMMA RetainLess == CompactRetain \in Nat /\ CompactRetain < Threshold
<1>1. Threshold \in Nat /\ Threshold >= 1
  BY ServerAssumption
<1> QED
  BY <1>1 DEF CompactRetain

\* The configuration that is compacted into a snapshot.
LEMMA DrainedType ==
    ASSUME NEW n \in NodeState, NEW b \in Nat, n.boundary < b, b <= LastIndex(n)
    PROVE  CurrentConfig([n EXCEPT !.log = SubSeq(@, 1, b - n.boundary)]) \in Membership
<1>1. n.boundary \in Nat /\ n.log \in Seq(Item) /\ LastIndex(n) = n.boundary + Len(n.log)
      /\ Len(n.log) \in Nat
  BY NodeParts
<1>2. PICK k \in Int : k = b - n.boundary /\ k <= Len(n.log)
  BY <1>1
<1>3. SubSeq(n.log, 1, k) \in Seq(Item)
  BY <1>1, <1>2, PrefixType
<1>4. [n EXCEPT !.log = SubSeq(n.log, 1, k)] \in NodeState
  BY <1>3 DEF NodeState
<1>5. CurrentConfig([n EXCEPT !.log = SubSeq(n.log, 1, k)]) \in Membership
  BY <1>4, CurrentConfigType
<1> QED
  BY <1>2, <1>5

\* A request and the compaction after it.
LEMMA MaybeCompactSound ==
    ASSUME Rested, NEW o, OutcomeSound(o)
    PROVE  LET c == MaybeCompact(o)
           IN  /\ Settles(c.node, c.effects)
               /\ c.node.commit - c.node.boundary < Threshold
               /\ c.node.commit = o.node.commit /\ c.node.learners = o.node.learners
               /\ LastIndex(c.node) = LastIndex(o.node)
<1> DEFINE n == o.node
           gs == o.effects
           b == n.commit - CompactRetain
           drained == CurrentConfig([n EXCEPT !.log = SubSeq(@, 1, b - n.boundary)])
           m == CompactedTo(n, b, drained)
           fs == CompactedBy(n, gs, b, drained)
           due == n.commit - n.boundary >= Threshold /\ b > n.boundary
<1>1. o \in [node : NodeState, effects : Seq(Effect), hint : Peer \cup {Nil}, acked : Nat]
  BY DEF OutcomeSound
<1>2. PICK es \in Seq(Effect) : Sound(n, es) /\ NoSends(es) /\ (gs = es \/ gs = Append(es, Send))
  BY DEF OutcomeSound
<1>3. /\ n \in NodeState /\ n.commit \in Nat /\ n.boundary \in Nat /\ n.boundary <= n.commit
      /\ b \in Int /\ n.commit <= LastIndex(n) /\ LastIndex(n) \in Nat
  <2>1. n \in NodeState /\ Bounds(n)
    BY <1>2 DEF Sound
  <2> QED
    BY <2>1, NodeParts, RetainLess DEF Bounds
<1>4. Threshold \in Nat
  BY ServerAssumption
<1>5. CASE due
  <2>1. b \in Nat /\ n.boundary < b /\ b <= n.commit /\ n.commit - b < Threshold
    BY <1>3, <1>4, <1>5, RetainLess
  <2>2. drained \in Membership
    <3>1. b <= LastIndex(n)
      BY <1>3, <2>1
    <3> HIDE DEF n, b
    <3> QED
      BY <1>3, <2>1, <3>1, DrainedType
  <2> HIDE DEF n, gs, b, drained, m, fs
  <2>3. /\ Settles(m, fs) /\ LastIndex(m) = LastIndex(n)
        /\ m.boundary = b /\ m.commit = n.commit /\ m.learners = n.learners
    <3>1. CompactionSound(n, gs, b, drained)
      BY <1>2, <2>1, <2>2, CompactedSound, ZenonT(60)
    <3> QED
      BY <3>1 DEF CompactionSound, m, fs
  <2>4. MaybeCompact(o) = [o EXCEPT !.node = m, !.effects = fs]
    BY <1>5, ZenonT(60) DEF MaybeCompact, n, gs, b, drained, m, fs, CompactedTo, CompactedBy, RestAbove
  <2>5. MaybeCompact(o).node = m /\ MaybeCompact(o).effects = fs
    BY <1>1, <2>4
  <2> QED
    BY <2>1, <2>3, <2>5 DEF n
<1>6. CASE ~ due
  <2>1. n.commit - n.boundary < Threshold
    BY <1>3, <1>4, <1>6, RetainLess
  <2>2. MaybeCompact(o) = o
    BY <1>6 DEF MaybeCompact
  <2>3. Settles(n, gs)
    <3> HIDE DEF n, gs
    <3>1. gs \in Seq(Effect) /\ Leads(Durable(node), gs, Durable(n), promise, Telling(n, promise))
      BY <1>2, <1>3, SoundSettles
    <3> QED
      BY <1>2, <3>1 DEF Sound, Settles
  <2> QED
    BY <2>1, <2>2, <2>3
<1> QED
  BY <1>5, <1>6

-----------------------------------------------------------------------------
(* The actor handles a request *)

\* Between two requests the file is what the memory is.
LEMMA RestedThen ==
    ASSUME ServerInv, effects = <<>>
    PROVE  Rested /\ disk = Durable(node) /\ Keeps(disk, promise)
<1>1. Leads(disk, <<>>, Durable(node), promise, Telling(node, promise))
  BY DEF ServerInv, FileSound
<1>2. disk = Durable(node) /\ Keeps(disk, promise)
  BY <1>1, LeadsNone
<1> QED
  BY <1>2 DEF Rested, ServerInv, NodeSound

\* The first request of the queue and the others.
LEMMA QueueParts ==
    ASSUME ServerInv, queue # <<>>
    PROVE  /\ Head(queue) \in Queued /\ Tail(queue) \in Seq(Queued)
           /\ Head(queue) = queue[1] /\ 1 \in DOMAIN queue
           /\ \A k \in DOMAIN Tail(queue) :
                 k \in Nat /\ k + 1 \in DOMAIN queue /\ k + 1 # 1 /\ Tail(queue)[k] = queue[k + 1]
<1>1. queue \in Seq(Queued)
  BY DEF ServerInv, ServerTypeOK
<1>2. Tail(queue) \in Seq(Queued) /\ Len(Tail(queue)) = Len(queue) - 1
      /\ \A k \in 1 .. Len(queue) - 1 : Tail(queue)[k] = queue[k + 1]
  BY <1>1, HeadTailProperties
<1>3. Head(queue) \in Queued /\ Head(queue) = queue[1] /\ Len(queue) \in Nat /\ Len(queue) >= 1
  BY <1>1
<1>4. DOMAIN queue = 1 .. Len(queue) /\ DOMAIN Tail(queue) = 1 .. Len(queue) - 1
  BY <1>1, <1>2
<1> QED
  BY <1>2, <1>3, <1>4

\* A request of an RPC handler, at the front: its handler waits for it, and for
\* nothing else that is queued.
LEMMA FrontRequest ==
    ASSUME ServerInv, queue # <<>>, Head(queue).kind # "Event"
    PROVE  LET c == Head(queue).call
           IN  /\ c \in Call /\ Pending(Head(queue), call[c])
               /\ \A k \in DOMAIN Tail(queue) :
                     Tail(queue)[k].kind # "Event" => Tail(queue)[k].call # c
<1>1. /\ Head(queue) \in Queued /\ Head(queue) = queue[1] /\ 1 \in DOMAIN queue
      /\ \A k \in DOMAIN Tail(queue) :
            k \in Nat /\ k + 1 \in DOMAIN queue /\ k + 1 # 1 /\ Tail(queue)[k] = queue[k + 1]
  BY QueueParts
<1>2. Head(queue).call \in Call
  BY <1>1 DEF Queued
<1>3. Pending(Head(queue), call[Head(queue).call])
  BY <1>1 DEF ServerInv, QueueSound
<1>4. \A k \in DOMAIN Tail(queue) :
         Tail(queue)[k].kind # "Event" => Tail(queue)[k].call # Head(queue).call
  BY <1>1 DEF ServerInv, QueueSound
<1> QED
  BY <1>2, <1>3, <1>4

\* The queue without its first request.
LEMMA QueueLess ==
    ASSUME ServerInv, queue # <<>>, queue' = Tail(queue), UNCHANGED <<call, alive>>
    PROVE  QueueSound'
<1>1. \A k \in DOMAIN Tail(queue) :
         k \in Nat /\ k + 1 \in DOMAIN queue /\ k + 1 # 1 /\ Tail(queue)[k] = queue[k + 1]
  BY QueueParts
<1>2. alive
  BY DEF ServerInv, QueueSound, ServerTypeOK
<1>3. \A k \in DOMAIN Tail(queue) :
         Tail(queue)[k].kind # "Event" => Pending(Tail(queue)[k], call[Tail(queue)[k].call])
  BY <1>1 DEF ServerInv, QueueSound
<1>4. \A j, k \in DOMAIN Tail(queue) :
         Tail(queue)[j].kind # "Event" /\ Tail(queue)[k].kind # "Event"
           /\ Tail(queue)[j].call = Tail(queue)[k].call => j = k
  <2> SUFFICES ASSUME NEW j \in DOMAIN Tail(queue), NEW k \in DOMAIN Tail(queue),
                      Tail(queue)[j].kind # "Event", Tail(queue)[k].kind # "Event",
                      Tail(queue)[j].call = Tail(queue)[k].call
               PROVE  j = k
    OBVIOUS
  <2>1. j + 1 = k + 1
    BY <1>1 DEF ServerInv, QueueSound
  <2> QED
    BY <1>1, <2>1
<1> QED
  BY <1>2, <1>3, <1>4 DEF QueueSound

\* What handling a request leaves to be seen of the invariant.
LEMMA HandlingSound ==
    ASSUME ServerInv, alive, reply = Nil, queue # <<>>, NEW o, OutcomeSound(o), NEW a \in Answers,
           Handling(o, a), UNCHANGED <<disk, alive, watch, call, promise, registered, clients>>,
           a.to = Self => a.acked <= LastIndex(o.node),
           a.to \in Call =>
              /\ a.kind = "Learner" => Learner \in o.node.learners
              /\ Head(queue).kind # "Event" /\ Head(queue).call = a.to /\ call[a.to].pc = "Start"
    PROVE  ServerInv'
<1> DEFINE c == MaybeCompact(o)
<1>1. effects = <<>>
  BY DEF ServerInv, ReplySound
<1>2. Rested /\ disk = Durable(node)
  BY <1>1, RestedThen
<1>3. watch <= node.commit
  BY DEF ServerInv, NodeSound
<1>4. /\ Settles(c.node, c.effects)
      /\ c.node.commit - c.node.boundary < Threshold
      /\ c.node.commit = o.node.commit /\ c.node.learners = o.node.learners
      /\ LastIndex(c.node) = LastIndex(o.node)
  BY <1>2, MaybeCompactSound
<1>5. /\ node' = c.node /\ effects' = c.effects /\ hint' = o.hint /\ reply' = a
      /\ decided' = Max({decided, o.node.commit}) /\ queue' = Tail(queue)
  BY DEF Handling
<1>6. o.hint \in Peer \cup {Nil} /\ o.node \in NodeState
  BY DEF OutcomeSound
<1> HIDE DEF c
<1>7. /\ c.node \in NodeState /\ c.effects \in Seq(Effect)
      /\ Leads(Durable(node), c.effects, Durable(c.node), promise, Telling(c.node, promise))
      /\ Bounds(c.node) /\ ResultsSound(c.node) /\ ResultsKept(c.node)
      /\ node.commit <= c.node.commit
  BY <1>4 DEF Settles
<1>8. decided' \in Nat /\ o.node.commit <= decided'
  <2>1. decided \in Int /\ o.node.commit \in Int /\ decided \in Nat /\ o.node.commit \in Nat
    BY <1>6, NodeParts DEF ServerInv, ServerTypeOK
  <2>2. Max({decided, o.node.commit}) \in {decided, o.node.commit}
        /\ Max({decided, o.node.commit}) >= o.node.commit
    BY <2>1, PairExtrema
  <2> QED
    BY <1>5, <2>1, <2>2
<1>9. ServerTypeOK'
  <2>1. Tail(queue) \in Seq(Queued)
    BY QueueParts
  <2> QED
    BY <1>5, <1>6, <1>7, <1>8, <2>1 DEF ServerInv, ServerTypeOK
<1>10. FileSound'
  BY <1>2, <1>5, <1>7 DEF FileSound
<1>11. NodeSound'
  <2>1. watch' <= node'.commit
    <3>1. watch \in Nat /\ node.commit \in Nat /\ c.node.commit \in Nat
      BY <1>2, <1>7, NodeParts DEF Rested, ServerTypeOK
    <3> QED
      BY <1>3, <1>5, <1>7, <3>1
  <2> QED
    BY <1>4, <1>5, <1>7, <1>8, <2>1 DEF NodeSound
<1>12. QueueSound'
  BY <1>5, QueueLess
<1>13. ReplySound'
  <2>1. a # Nil /\ a.to = Self => a.acked <= LastIndex(c.node)
    BY <1>4
  <2>2. a # Nil
    BY ServerAssumption
  <2>3. ASSUME a.to \in Call
        PROVE  /\ a.kind = "Learner" => Learner \in c.node.learners
               /\ call[a.to].asked /\ call[a.to].pc = "Start"
               /\ \A k \in DOMAIN Tail(queue) :
                     Tail(queue)[k].kind # "Event" => Tail(queue)[k].call # a.to
    BY <1>4, <2>3, FrontRequest DEF Pending
  <2> QED
    BY <1>5, <2>1, <2>2, <2>3 DEF ReplySound
<1>14. CallsSound'
  <2> SUFFICES ASSUME NEW x \in Call PROVE CallSound(x)'
    BY DEF CallsSound
  <2>1. CallSound(x) /\ call[x].index \in Nat
    BY DEF ServerInv, CallsSound, ServerTypeOK, CallState
  <2>2. call[x].index <= node.commit => call[x].index <= c.node.commit
    <3>1. node.commit \in Nat /\ c.node.commit \in Nat
      BY <1>2, <1>7, NodeParts DEF Rested, ServerTypeOK
    <3> QED
      BY <1>7, <2>1, <3>1
  <2>3. ASSUME call[x].pc = "Result", call[x].index \in DOMAIN c.node.results
        PROVE  c.node.results[call[x].index].term = call[x].expected
    <3>1. call[x].index <= node.commit
      BY <2>1, <2>3 DEF CallSound
    <3>2. call[x].index \in DOMAIN node.results
          /\ c.node.results[call[x].index] = node.results[call[x].index]
      BY <1>7, <2>3, <3>1 DEF ResultsKept
    <3> QED
      BY <2>1, <2>3, <3>2 DEF CallSound
  <2> QED
    BY <1>5, <2>1, <2>2, <2>3 DEF CallSound
<1>15. AnswerIsVouchedFor' /\ LearnersKnown'
  BY DEF ServerInv, AnswerIsVouchedFor, LearnersKnown
<1> QED
  BY <1>9, <1>10, <1>11, <1>12, <1>13, <1>14, <1>15 DEF ServerInv

\* The kind of the request at the front says where its handler is.
LEMMA FrontKind ==
    ASSUME ServerInv, queue # <<>>,
           Head(queue).kind \in {"Propose", "ConfigChange", "AddLearner", "RemoveLearner"}
    PROVE  Head(queue).call \in Call /\ Head(queue).kind # "Event" /\ call[Head(queue).call].pc = "Start"
<1>1. Head(queue).kind # "Event"
  OBVIOUS
<1>2. Head(queue).call \in Call /\ Pending(Head(queue), call[Head(queue).call])
  BY <1>1, FrontRequest
<1>3. Head(queue).kind = (IF call[Head(queue).call].pc = "Start" THEN call[Head(queue).call].kind
                                                              ELSE call[Head(queue).call].pc)
  BY <1>2 DEF Pending
<1>4. call[Head(queue).call].pc \in {"Start", "FirstTerm", "SecondTerm", "Result"}
  BY <1>2 DEF Pending
<1> QED
  BY <1>1, <1>2, <1>3, <1>4

\* The term of an entry, if it is held.
LEMMA EntryTermType ==
    ASSUME ServerInv, NEW i \in Int
    PROVE  /\ EntryTerm(i) \in Nat \cup {Nil}
           /\ EntryTerm(i) # Nil =>
                 i \in Nat /\ i > node.boundary /\ EntryTerm(i) = EntryOf(node, i).term
<1>1. node \in NodeState /\ node.boundary \in Nat
  BY NodeParts DEF ServerInv, ServerTypeOK
<1>2. CASE i > node.boundary /\ i <= LastIndex(node)
  <2>1. i \in Nat
    BY <1>1, <1>2
  <2>2. EntryOf(node, i) \in Item
    BY <1>1, <1>2, <2>1, EntryHeld
  <2> QED
    BY <1>2, <2>1, <2>2 DEF EntryTerm, Item
<1>3. CASE ~ (i > node.boundary /\ i <= LastIndex(node))
  <2>1. EntryOf(node, i) = Nil
    BY <1>3 DEF EntryOf
  <2> QED
    BY <2>1 DEF EntryTerm
<1> QED
  BY <1>2, <1>3

\* The index an entry is accepted at, and the term of the one before it.
LEMMA AcceptedType ==
    ASSUME ServerInv, NEW c \in Call
    PROVE  [to |-> c, kind |-> "Accepted", index |-> LastIndex(node) + 1, term |-> node.term,
            before |-> TermBefore(LastIndex(node) + 1)] \in Answers
<1>1. node \in NodeState /\ node.term \in Nat /\ LastIndex(node) \in Nat
  BY NodeParts DEF ServerInv, ServerTypeOK
<1>2. (LastIndex(node) + 1) - 1 \in Int /\ LastIndex(node) + 1 \in Nat
  BY <1>1
<1>3. TermBefore(LastIndex(node) + 1) \in Nat \cup {Nil}
  BY <1>2, EntryTermType DEF TermBefore
<1> QED
  BY <1>1, <1>2, <1>3 DEF Answers

\* The actor takes a request.
LEMMA TakeSound ==
    ASSUME ServerInv, Take
    PROVE  ServerInv'
<1> DEFINE r == Head(queue)
           quiet == UNCHANGED <<disk, alive, watch, call, promise, registered, clients>>
<1>1. /\ alive /\ reply = Nil /\ queue # <<>>
      /\ UNCHANGED <<disk, alive, watch, call, promise, registered>>
  BY DEF Take
<1>2. Rested
  <2>1. effects = <<>>
    BY <1>1 DEF ServerInv, ReplySound
  <2> QED
    BY <2>1, RestedThen
<1>3. Nil \notin Call /\ Self \notin Call /\ Nil # Self
  BY ServerAssumption
<1>4. CASE r.kind = "Event" /\ HandleEvent
  <2>1. quiet
    BY <1>1, <1>4 DEF HandleEvent
  <2>2. ASSUME NEW o \in TickOutcomes \cup PeerResponseOutcomes, Handling(o, [to |-> Nil])
        PROVE  ServerInv'
    <3> DEFINE a == [to |-> Nil]
    <3>1. a \in Answers /\ a.to # Self /\ a.to \notin Call
      BY <1>3 DEF Answers
    <3>2. OutcomeSound(o)
      BY <1>2, OutcomesSound
    <3> HIDE DEF a
    <3>3. Handling(o, a)
      BY <2>2 DEF a
    <3> QED
      BY <1>1, <2>1, <3>1, <3>2, <3>3, HandlingSound
  <2>3. ASSUME NEW o \in PeerRequestOutcomes, Handling(o, [to |-> Self, acked |-> o.acked])
        PROVE  ServerInv'
    <3> DEFINE a == [to |-> Self, acked |-> o.acked]
    <3>1. OutcomeSound(o)
      BY <1>2, OutcomesSound
    <3>2. o.acked \in Nat /\ o.acked <= LastIndex(o.node)
      BY <3>1 DEF OutcomeSound
    <3>3. a \in Answers /\ a.to \notin Call /\ a.acked <= LastIndex(o.node)
      BY <1>3, <3>2 DEF Answers
    <3> HIDE DEF a
    <3>4. Handling(o, a)
      BY <2>3 DEF a
    <3> QED
      BY <1>1, <2>1, <3>1, <3>3, <3>4, HandlingSound
  <2> QED
    BY <1>4, <2>2, <2>3 DEF HandleEvent
<1>5. ASSUME NEW outcomes, \A o \in outcomes : OutcomeSound(o), r.kind \in {"Propose", "ConfigChange"},
             HandleAppend(r.call, outcomes), UNCHANGED clients
      PROVE  ServerInv'
  <2>1. r.call \in Call /\ r.kind # "Event" /\ call[r.call].pc = "Start"
    BY <1>1, <1>5, FrontKind
  <2>2. CASE node.role = "Leader"
    <3>1. PICK o \in outcomes :
            Handling(o, [to |-> r.call, kind |-> "Accepted", index |-> LastIndex(node) + 1,
                         term |-> node.term, before |-> TermBefore(LastIndex(node) + 1)])
      BY <1>5, <2>2 DEF HandleAppend
    <3> DEFINE a == [to |-> r.call, kind |-> "Accepted", index |-> LastIndex(node) + 1,
                     term |-> node.term, before |-> TermBefore(LastIndex(node) + 1)]
    <3>2. OutcomeSound(o) /\ o.node \in NodeState
      BY <1>5 DEF OutcomeSound
    <3> HIDE DEF r
    <3>3. a \in Answers
      BY <2>1, <3>2, AcceptedType
    <3>4. a.to = r.call /\ a.to # Self /\ a.kind # "Learner"
      BY <1>3, <2>1
    <3> HIDE DEF a
    <3>5. Handling(o, a)
      BY <3>1 DEF a
    <3> QED
      BY <1>1, <1>5, <2>1, <3>2, <3>3, <3>4, <3>5, HandlingSound DEF r
  <2>3. CASE node.role # "Leader"
    <3> DEFINE a == [to |-> r.call, kind |-> "NotLeader"]
               o == Outcome(node, <<>>)
    <3>1. OutcomeSound(o)
      BY <1>2, OutcomesSound
    <3> HIDE DEF r
    <3>2. a \in Answers
      BY <2>1 DEF Answers
    <3>3. a.to = r.call /\ a.to # Self /\ a.kind # "Learner"
      BY <1>3, <2>1
    <3>4. Handling(o, a)
      BY <1>5, <2>3 DEF HandleAppend
    <3> HIDE DEF a, o
    <3> QED
      BY <1>1, <1>5, <2>1, <3>1, <3>2, <3>3, <3>4, HandlingSound DEF r
  <2> QED
    BY <2>2, <2>3
<1>6. ASSUME NEW S \in SUBSET {Learner}, NEW kind \in {"Learner", "Removed"},
             r.kind \in {"AddLearner", "RemoveLearner"}, HandleLearner(r.call, S, kind),
             kind = "Learner" => Learner \in S
      PROVE  ServerInv'
  <2>1. r.call \in Call /\ r.kind # "Event" /\ call[r.call].pc = "Start"
    BY <1>1, <1>6, FrontKind
  <2>2. UNCHANGED clients
    BY <1>6 DEF HandleLearner, Connected
  <2>3. CASE node.role = "Leader"
    <3> DEFINE a == [to |-> r.call, kind |-> kind]
               o == WithLearners(S)
    <3>1. OutcomeSound(o) /\ o.node.learners = S
      BY <1>2, OutcomesSound
    <3> HIDE DEF r
    <3>2. a \in Answers
      BY <2>1 DEF Answers
    <3>3. a.to = r.call /\ a.to # Self /\ a.kind = kind
      BY <1>3, <2>1
    <3>4. Handling(o, a)
      BY <1>6, <2>3 DEF HandleLearner
    <3> HIDE DEF a, o
    <3> QED
      BY <1>1, <1>6, <2>1, <2>2, <3>1, <3>2, <3>3, <3>4, HandlingSound DEF r
  <2>4. CASE node.role # "Leader"
    <3> DEFINE k == IF kind = "Learner" THEN "NotLeader" ELSE kind
               a == [to |-> r.call, kind |-> k]
               o == Outcome(node, <<>>)
    <3>1. OutcomeSound(o)
      BY <1>2, OutcomesSound
    <3>2. k \in {"NotLeader", "Removed"}
      OBVIOUS
    <3>3. Handling(o, a)
      BY <1>6, <2>4 DEF HandleLearner
    <3> HIDE DEF r, k
    <3>4. a \in Answers
      BY <2>1, <3>2 DEF Answers
    <3>5. a.to = r.call /\ a.to # Self /\ a.kind # "Learner"
      BY <1>3, <2>1, <3>2
    <3> HIDE DEF a, o
    <3> QED
      BY <1>1, <2>1, <2>2, <3>1, <3>3, <3>4, <3>5, HandlingSound DEF r
  <2> QED
    BY <2>3, <2>4
<1>7. CASE r.kind = "Propose" /\ HandleAppend(r.call, ProposedOutcomes(r.call)) /\ UNCHANGED clients
  <2>1. r.call \in Call
    BY <1>1, <1>7, FrontKind
  <2>2. \A o \in ProposedOutcomes(r.call) : OutcomeSound(o)
    BY <1>2, <2>1, OutcomesSound
  <2> QED
    BY <1>5, <1>7, <2>2
<1>8. CASE r.kind = "ConfigChange" /\ HandleAppend(r.call, ReconfiguredOutcomes) /\ UNCHANGED clients
  <2>1. \A o \in ReconfiguredOutcomes : OutcomeSound(o)
    BY <1>2, OutcomesSound
  <2> QED
    BY <1>5, <1>8, <2>1
<1>9. CASE r.kind = "AddLearner" /\ HandleLearner(r.call, node.learners \cup {Learner}, "Learner")
  <2>1. node.learners \cup {Learner} \in SUBSET {Learner}
    BY <1>2, NodeParts DEF Rested, ServerTypeOK
  <2> QED
    BY <1>6, <1>9, <2>1
<1>10. CASE r.kind = "RemoveLearner" /\ HandleLearner(r.call, {}, "Removed")
  <2>1. {} \in SUBSET {Learner}
    OBVIOUS
  <2> QED
    BY <1>6, <1>10, <2>1
<1> QED
  BY <1>4, <1>7, <1>8, <1>9, <1>10 DEF Take

\* What is sent of a file takes nothing back that the file does not keep.
LEMMA PromisedKept ==
    ASSUME node \in NodeState, Keeps(Durable(node), promise), NEW upTo \in Nat,
           upTo <= LastIndex(node), promise' = Promised(upTo),
           promise \in [term : Nat, vote : Vote, upTo : Nat]
    PROVE  Keeps(Durable(node), promise') /\ promise' \in [term : Nat, vote : Vote, upTo : Nat]
<1> DEFINE now == [term |-> node.term, vote |-> node.vote, upTo |-> upTo]
           later == [now EXCEPT !.upTo = Max({upTo, promise.upTo})]
<1>1. node.term \in Nat /\ node.vote \in Vote /\ LastIndex(node) \in Nat
  BY NodeParts
<1>2. /\ Durable(node).term = node.term /\ Durable(node).vote = node.vote
      /\ LastIndex(Durable(node)) = LastIndex(node)
  BY DEF Durable, LastIndex
<1>3. promise' = IF promise.term = node.term THEN later ELSE now
  BY DEF Promised
<1>4. CASE promise.term = node.term
  <2>1. upTo \in Int /\ promise.upTo \in Int /\ promise.upTo \in Nat
    OBVIOUS
  <2>2. PICK u \in Nat : u = Max({upTo, promise.upTo}) /\ u \in {upTo, promise.upTo}
    <3>1. Max({upTo, promise.upTo}) \in {upTo, promise.upTo}
      BY <2>1, PairExtrema
    <3> QED
      BY <2>1, <3>1
  <2>3. promise.upTo <= LastIndex(node)
    BY <1>1, <1>2, <1>4 DEF Keeps
  <2>4. u <= LastIndex(node)
    BY <2>2, <2>3
  <2>5. promise' = [term |-> node.term, vote |-> node.vote, upTo |-> u]
    BY <1>3, <1>4, <2>2
  <2> QED
    BY <1>1, <1>2, <2>4, <2>5 DEF Keeps
<1>5. CASE promise.term # node.term
  BY <1>1, <1>2, <1>3, <1>5 DEF Keeps
<1> QED
  BY <1>4, <1>5

\* What was sent may be sent again.
LEMMA TellingAgain ==
    ASSUME NEW n \in NodeState, NEW pr \in [term : Nat, vote : Vote, upTo : Nat]
    PROVE  Telling(n, Telling(n, pr)) = Telling(n, pr)
<1> DEFINE u == IF n.role = "Leader" THEN LastIndex(n) ELSE 0
           now(x) == [term |-> n.term, vote |-> n.vote, upTo |-> x]
<1>1. u \in Int /\ pr.upTo \in Int
  <2>1. LastIndex(n) \in Nat
    BY NodeParts
  <2> QED
    BY <2>1
<1>2. \A p : Telling(n, p) = IF p.term = n.term THEN now(Max({u, p.upTo})) ELSE now(u)
  BY DEF Telling
<1> HIDE DEF u
<1>3. \A x \in Int : Max({u, x}) \in Int /\ Max({u, x}) \in {u, x} /\ Max({u, x}) >= u /\ Max({u, x}) >= x
  <2> SUFFICES ASSUME NEW x \in Int
               PROVE  Max({u, x}) \in Int /\ Max({u, x}) \in {u, x} /\ Max({u, x}) >= u /\ Max({u, x}) >= x
    OBVIOUS
  <2>1. Max({u, x}) \in {u, x} /\ Max({u, x}) >= u /\ Max({u, x}) >= x
    BY <1>1, PairExtrema
  <2> QED
    BY <1>1, <2>1
<1>4. \A x \in Int : x >= u => Max({u, x}) = x
  BY <1>1, <1>3
<1>5. PICK x \in Int : Telling(n, pr) = now(x) /\ x >= u
  BY <1>1, <1>2, <1>3
<1>6. now(x).term = n.term /\ now(x).upTo = x
  OBVIOUS
<1>7. Telling(n, now(x)) = now(Max({u, x}))
  BY <1>2, <1>6
<1> QED
  BY <1>4, <1>5, <1>7

\* One effect is written, or sent, and the rest still leads to the memory.
LEMMA DispatchSound ==
    ASSUME ServerInv, DispatchEffect
    PROVE  ServerInv'
<1> DEFINE e == Head(effects)
           g == Wrote(disk, e)
           more == Telling(node, promise)
<1>1. /\ alive /\ effects # <<>> /\ effects' = Tail(effects)
      /\ UNCHANGED <<node, hint, queue, reply, alive, watch, clients, call, led, decided>>
  BY DEF DispatchEffect
<1>2. /\ effects \in Seq(Effect) /\ Leads(disk, effects, Durable(node), promise, more)
      /\ disk \in File /\ node \in NodeState
      /\ promise \in [term : Nat, vote : Vote, upTo : Nat]
  BY DEF ServerInv, ServerTypeOK, FileSound
<1>3. /\ g \in File /\ Keeps(g, promise) /\ Leads(g, Tail(effects), Durable(node), promise, more)
      /\ e.kind = "Send" => Keeps(g, more) /\ Leads(g, Tail(effects), Durable(node), more, more)
  <2> HIDE DEF more
  <2> QED
    BY <1>1, <1>2, LeadsLess
<1>4. e \in Effect /\ Tail(effects) \in Seq(Effect)
  BY <1>1, <1>2
<1>5. QueueSound' /\ CallsSound' /\ AnswerIsVouchedFor' /\ NodeSound'
  BY <1>1 DEF ServerInv, QueueSound, CallsSound, CallSound, AnswerIsVouchedFor,
              NodeSound
<1>6. ReplySound'
  <2>1. reply # Nil
    BY <1>1 DEF ServerInv, ReplySound
  <2> QED
    BY <1>1, <2>1 DEF ServerInv, ReplySound
<1> HIDE DEF g
<1>7. CASE e.kind = "Send"
  <2>1. g = disk
    BY <1>7 DEF Wrote, g
  <2>2. promise' = more
    <3>1. promise' = Promised(IF node.role = "Leader" THEN LastIndex(node) ELSE 0)
      BY <1>7 DEF DispatchEffect
    <3> QED
      BY <3>1 DEF Promised, Telling
  <2>3. UNCHANGED <<disk, registered>>
    BY <1>7 DEF DispatchEffect
  <2>4. Telling(node, more) = more
    BY <1>2, TellingAgain
  <2>5. more \in [term : Nat, vote : Vote, upTo : Nat]
    <3>1. Keeps(Durable(node), promise)
      BY <1>2, LeadsEnd
    <3> QED
      BY <1>2, <3>1, TellingKept
  <2> HIDE DEF more
  <2>6. Telling(node', promise') = more /\ Durable(node') = Durable(node)
    BY <1>1, <2>2, <2>4
  <2>7. FileSound'
    BY <1>1, <1>3, <1>7, <2>1, <2>2, <2>3, <2>6 DEF FileSound
  <2>8. ServerTypeOK'
    BY <1>1, <1>4, <2>2, <2>3, <2>5 DEF ServerInv, ServerTypeOK
  <2>9. LearnersKnown'
    BY <1>1, <2>3 DEF ServerInv, LearnersKnown
  <2> QED
    BY <1>5, <1>6, <2>7, <2>8, <2>9 DEF ServerInv
<1>8. CASE e.kind # "Send"
  <2>1. disk' = g /\ registered' = registered \cup disk'.learners /\ UNCHANGED promise
    BY <1>8 DEF DispatchEffect, Wrote, g
  <2>2. FileSound'
    BY <1>1, <1>3, <2>1 DEF FileSound
  <2>3. ServerTypeOK'
    BY <1>1, <1>3, <1>4, <2>1 DEF ServerInv, ServerTypeOK
  <2>4. LearnersKnown'
    BY <1>1, <2>1 DEF ServerInv, LearnersKnown
  <2> QED
    BY <1>5, <1>6, <2>2, <2>3, <2>4 DEF ServerInv
<1> QED
  BY <1>7, <1>8

-----------------------------------------------------------------------------
(* The handlers of the RPCs *)

\* The handler of c is where it is not waiting for the actor, or the actor is gone.
Apart(c) ==
    ~ alive \/ ~ call[c].asked \/ call[c].pc \notin {"Start", "FirstTerm", "SecondTerm", "Result"}

OthersStay(c) ==
    call' \in [Call -> CallState] /\ \A d \in Call : d # c => call'[d] = call[d]

\* The handler of c goes on to a state that is sound.
Proceeds(c) ==
    /\ OthersStay(c)
    /\ CallSound(c)'
    /\ call'[c].answer # Nil /\ call'[c].answer.kind = "Applied" =>
          call'[c].answer.entry.term = call'[c].expected

\* The handlers stay sound when one of them goes on.
LEMMA ProceedsSound ==
    ASSUME ServerInv, NEW c \in Call, Proceeds(c), UNCHANGED node
    PROVE  CallsSound' /\ AnswerIsVouchedFor'
<1>1. ASSUME NEW d \in Call PROVE CallSound(d)'
  <2>1. CASE d = c
    BY <2>1 DEF Proceeds
  <2>2. CASE d # c
    <3>1. call'[d] = call[d] /\ CallSound(d)
      BY <2>2 DEF Proceeds, OthersStay, ServerInv, CallsSound
    <3> QED
      BY <3>1 DEF CallSound
  <2> QED
    BY <2>1, <2>2
<1>2. AnswerIsVouchedFor'
  <2> SUFFICES ASSUME NEW d \in Call, call'[d].answer # Nil, call'[d].answer.kind = "Applied"
               PROVE  call'[d].answer.entry.term = call'[d].expected
    BY DEF AnswerIsVouchedFor
  <2>1. CASE d = c
    BY <2>1 DEF Proceeds
  <2>2. CASE d # c
    <3>1. call'[d] = call[d]
      BY <2>2 DEF Proceeds, OthersStay
    <3> QED
      BY <3>1 DEF ServerInv, AnswerIsVouchedFor
  <2> QED
    BY <2>1, <2>2
<1> QED
  BY <1>1, <1>2 DEF CallsSound

\* A handler that the actor owes nothing goes on by itself.
LEMMA HandlerSound ==
    ASSUME ServerInv, NEW c \in Call, Apart(c), Proceeds(c),
           UNCHANGED <<node, disk, hint, actorVars, clients, history>>
    PROVE  ServerInv'
<1>1. /\ UNCHANGED <<node, disk, hint, clients, decided, promise, registered>>
      /\ UNCHANGED <<queue, effects, reply, alive, watch>>
  BY DEF actorVars, history
<1>2. CallsSound' /\ AnswerIsVouchedFor'
  BY <1>1, ProceedsSound
<1>3. ServerTypeOK'
  BY <1>1 DEF ServerInv, ServerTypeOK, Proceeds, OthersStay
<1>4. FileSound' /\ NodeSound' /\ LearnersKnown'
  BY <1>1 DEF ServerInv, FileSound, NodeSound, LearnersKnown
<1>5. ASSUME NEW k \in DOMAIN queue, queue[k].kind # "Event"
      PROVE  queue[k].call \in Call /\ queue[k].call # c
  <2>1. queue[k] \in Queued /\ alive
    BY <1>5 DEF ServerInv, ServerTypeOK, QueueSound
  <2>2. queue[k].call \in Call
    BY <1>5, <2>1 DEF Queued
  <2>3. Pending(queue[k], call[queue[k].call])
    BY <1>5 DEF ServerInv, QueueSound
  <2> QED
    BY <2>1, <2>2, <2>3 DEF Pending, Apart
<1>6. QueueSound'
  <2>1. ASSUME NEW k \in DOMAIN queue, queue[k].kind # "Event"
        PROVE  Pending(queue[k], call'[queue[k].call])
    <3>1. Pending(queue[k], call[queue[k].call]) /\ queue[k].call \in Call /\ queue[k].call # c
      BY <1>5, <2>1 DEF ServerInv, QueueSound
    <3>2. call'[queue[k].call] = call[queue[k].call]
      BY <3>1 DEF Proceeds, OthersStay
    <3> QED
      BY <1>1, <3>1, <3>2 DEF Pending
  <2> QED
    BY <1>1, <2>1 DEF ServerInv, QueueSound
<1>7. ReplySound'
  <2>1. ASSUME reply # Nil, reply.to \in Call, alive
        PROVE  call'[reply.to].asked /\ call'[reply.to].pc = "Start"
    <3>1. call[reply.to].asked /\ call[reply.to].pc = "Start"
      BY <2>1 DEF ServerInv, ReplySound
    <3>2. reply.to # c
      BY <2>1, <3>1 DEF Apart
    <3> QED
      BY <2>1, <3>1, <3>2 DEF Proceeds, OthersStay
  <2> QED
    BY <1>1, <2>1 DEF ServerInv, ReplySound
<1> QED
  BY <1>2, <1>3, <1>4, <1>6, <1>7 DEF ServerInv

\* A handler ends with an answer.
LEMMA DoneSound ==
    ASSUME ServerInv, NEW c \in Call, NEW a \in Verdict, Done(c, a),
           a.kind = "Applied" => a.entry.term = call[c].expected
    PROVE  Proceeds(c)
<1>1. call \in [Call -> CallState]
  BY DEF ServerInv, ServerTypeOK
<1>2. call[c] \in CallState
  BY <1>1
<1> DEFINE s == [call[c] EXCEPT !.pc = "Done", !.kind = Nil, !.asked = FALSE, !.answer = a]
<1>3. /\ s \in CallState /\ s.pc = "Done" /\ s.answer = a /\ s.expected = call[c].expected
  BY <1>2 DEF CallState
<1>4. call' = [call EXCEPT ![c] = s]
  BY <1>1 DEF Done
<1> HIDE DEF s
<1>5. call' \in [Call -> CallState] /\ call'[c] = s /\ \A d \in Call : d # c => call'[d] = call[d]
  BY <1>1, <1>3, <1>4
<1>6. CallSound(c)'
  BY <1>3, <1>5 DEF CallSound
<1> QED
  BY <1>3, <1>5, <1>6 DEF Proceeds, OthersStay

\* A handler goes on to its next step.
LEMMA ProceedSound ==
    ASSUME ServerInv, NEW c \in Call, NEW pc \in {"Wait", "SecondTerm", "Result"}, Proceed(c, pc),
           node' = node, call[c].pc # "Done",
           pc \in {"SecondTerm", "Result"} => call[c].index <= node.commit,
           pc = "Result" /\ call[c].index \in DOMAIN node.results =>
              node.results[call[c].index].term = call[c].expected
    PROVE  Proceeds(c)
<1>1. call \in [Call -> CallState] /\ CallSound(c)
  BY DEF ServerInv, ServerTypeOK, CallsSound
<1>2. call[c] \in CallState
  BY <1>1
<1> DEFINE s == [call[c] EXCEPT !.pc = pc, !.asked = FALSE]
<1>3. /\ s \in CallState /\ s.pc = pc /\ s.answer = call[c].answer /\ s.expected = call[c].expected
      /\ s.index = call[c].index
  BY <1>2 DEF CallState
<1>4. call' = [call EXCEPT ![c] = s]
  BY <1>1 DEF Proceed
<1> HIDE DEF s
<1>5. call' \in [Call -> CallState] /\ call'[c] = s /\ \A d \in Call : d # c => call'[d] = call[d]
  BY <1>1, <1>3, <1>4
<1>6. call[c].answer = Nil
  BY <1>1 DEF CallSound
<1>7. CallSound(c)'
  BY <1>3, <1>5, <1>6 DEF CallSound
<1> QED
  BY <1>3, <1>5, <1>6, <1>7 DEF Proceeds, OthersStay

\* A client calls.
LEMMA MakeSound ==
    ASSUME ServerInv, NEW c \in Call, NEW kind \in Kinds, Make(c, kind)
    PROVE  ServerInv'
<1>1. call \in [Call -> CallState] /\ CallSound(c)
  BY DEF ServerInv, ServerTypeOK, CallsSound
<1>2. call[c] \in CallState
  BY <1>1
<1> DEFINE s == [call[c] EXCEPT !.pc = "Start", !.kind = kind]
<1>3. /\ s \in CallState /\ s.pc = "Start" /\ s.kind = kind /\ s.answer = call[c].answer
  BY <1>2 DEF CallState
<1>4. call' = [call EXCEPT ![c] = s] /\ call[c].pc = "Unmade"
      /\ UNCHANGED <<node, disk, hint, actorVars, clients, history>>
  BY <1>1 DEF Make
<1> HIDE DEF s
<1>5. call' \in [Call -> CallState] /\ call'[c] = s /\ \A d \in Call : d # c => call'[d] = call[d]
  BY <1>1, <1>3, <1>4
<1>6. call[c].answer = Nil
  BY <1>1, <1>4 DEF CallSound
<1>7. CallSound(c)'
  BY <1>3, <1>5, <1>6 DEF CallSound
<1>8. Proceeds(c)
  BY <1>3, <1>5, <1>6, <1>7 DEF Proceeds, OthersStay
<1>9. Apart(c)
  BY <1>4 DEF Apart
<1> QED
  BY <1>4, <1>8, <1>9, HandlerSound

\* The index that was waited for is applied.
LEMMA WaitForAppliedSound ==
    ASSUME ServerInv, NEW c \in Call, WaitForApplied(c)
    PROVE  ServerInv'
<1>1. /\ call[c].pc = "Wait" /\ watch >= call[c].index /\ Proceed(c, "SecondTerm")
      /\ UNCHANGED <<node, disk, hint, actorVars, clients, history>>
  BY DEF WaitForApplied
<1>2. call[c].index <= node.commit
  <2>1. call[c].index \in Nat /\ watch \in Nat /\ node.commit \in Nat /\ watch <= node.commit
    BY NodeParts DEF ServerInv, ServerTypeOK, CallState, NodeSound
  <2> QED
    BY <1>1, <2>1
<1>3. Proceeds(c)
  BY <1>1, <1>2, ProceedSound
<1>4. Apart(c)
  BY <1>1 DEF Apart
<1> QED
  BY <1>1, <1>3, <1>4, HandlerSound

\* It is waited for no longer.
LEMMA TimeoutSound ==
    ASSUME ServerInv, NEW c \in Call, Timeout(c)
    PROVE  ServerInv'
<1>1. /\ call[c].pc = "Wait" /\ Done(c, Indeterminate)
      /\ UNCHANGED <<node, disk, hint, actorVars, clients, history>>
  BY DEF Timeout
<1>2. Indeterminate \in Verdict /\ Indeterminate.kind # "Applied"
  BY DEF Indeterminate, Verdict
<1>3. Proceeds(c)
  BY <1>1, <1>2, DoneSound
<1>4. Apart(c)
  BY <1>1 DEF Apart
<1> QED
  BY <1>1, <1>3, <1>4, HandlerSound

\* The actor is gone.
LEMMA UnansweredSound ==
    ASSUME ServerInv, NEW c \in Call, Unanswered(c)
    PROVE  ServerInv'
<1>1. ~ alive /\ UNCHANGED <<node, disk, hint, actorVars, clients, history>>
  BY DEF Unanswered
<1>2. \/ Done(c, [kind |-> "Unavailable"])
      \/ call[c].pc = "FirstTerm" /\ Proceed(c, "Wait")
      \/ Done(c, Indeterminate)
  BY DEF Unanswered
<1>3. CASE Done(c, [kind |-> "Unavailable"])
  <2>1. [kind |-> "Unavailable"] \in Verdict /\ [kind |-> "Unavailable"].kind # "Applied"
    BY DEF Verdict
  <2>2. Proceeds(c)
    BY <1>3, <2>1, DoneSound
  <2> QED
    BY <1>1, <2>2, HandlerSound DEF Apart
<1>4. CASE call[c].pc = "FirstTerm" /\ Proceed(c, "Wait")
  <2>1. node' = node
    BY <1>1
  <2>2. Proceeds(c)
    BY <1>4, <2>1, ProceedSound
  <2> QED
    BY <1>1, <2>2, HandlerSound DEF Apart
<1>5. CASE Done(c, Indeterminate)
  <2>1. Indeterminate \in Verdict /\ Indeterminate.kind # "Applied"
    BY DEF Indeterminate, Verdict
  <2>2. Proceeds(c)
    BY <1>5, <2>1, DoneSound
  <2> QED
    BY <1>1, <2>2, HandlerSound DEF Apart
<1> QED
  BY <1>2, <1>3, <1>4, <1>5

\* A request at the end of the queue.
LEMMA QueueMore ==
    ASSUME NEW S, NEW q \in Seq(S), NEW r \in S
    PROVE  /\ Append(q, r) \in Seq(S)
           /\ \A k \in DOMAIN Append(q, r) :
                 \/ k \in DOMAIN q /\ Append(q, r)[k] = q[k]
                 \/ k \notin DOMAIN q /\ k = Len(q) + 1 /\ Append(q, r)[k] = r
OBVIOUS

\* A handler asks the actor for something.
LEMMA AskSound ==
    ASSUME ServerInv, NEW c \in Call, Ask(c)
    PROVE  ServerInv'
<1> DEFINE r == Request(c)
           s == [call[c] EXCEPT !.asked = TRUE]
<1>1. /\ alive /\ call[c].pc \in {"Start", "FirstTerm", "SecondTerm", "Result"} /\ ~ call[c].asked
      /\ queue' = Append(queue, r) /\ call' = [call EXCEPT ![c].asked = TRUE]
      /\ UNCHANGED <<node, disk, hint, effects, reply, alive, watch, clients, history>>
  BY DEF Ask
<1>2. call \in [Call -> CallState] /\ CallSound(c) /\ queue \in Seq(Queued)
  BY DEF ServerInv, ServerTypeOK, CallsSound
<1>3. call[c] \in CallState
  BY <1>2
<1>4. /\ s \in CallState /\ s.asked = TRUE /\ s.pc = call[c].pc /\ s.kind = call[c].kind
      /\ s.answer = call[c].answer /\ s.index = call[c].index /\ s.expected = call[c].expected
  BY <1>3 DEF CallState
<1>5. call' = [call EXCEPT ![c] = s]
  BY <1>1, <1>2
<1> HIDE DEF s
<1>6. call' \in [Call -> CallState] /\ call'[c] = s /\ \A d \in Call : d # c => call'[d] = call[d]
  BY <1>2, <1>4, <1>5
<1>7. UNCHANGED <<decided, promise, registered>>
  BY <1>1 DEF history
<1>8. CallSound(c)'
  BY <1>1, <1>2, <1>4, <1>6 DEF CallSound
<1>9. Proceeds(c)
  BY <1>2, <1>4, <1>6, <1>8 DEF Proceeds, OthersStay, ServerInv, AnswerIsVouchedFor
<1>10. CallsSound' /\ AnswerIsVouchedFor'
  BY <1>1, <1>9, ProceedsSound
<1>11. r \in Queued /\ r.call = c /\ r.kind # "Event"
  <2>1. r.kind \in Kinds \cup {"FirstTerm", "SecondTerm", "Result"}
    BY <1>1, <1>2 DEF Request, CallSound
  <2>2. "Event" \notin Kinds
    BY ServerAssumption
  <2>3. r = [kind |-> r.kind, call |-> c] /\ r.call = c
    BY DEF Request
  <2> HIDE DEF r
  <2>4. r \in Queued
    BY <2>1, <2>3 DEF Queued
  <2> QED
    BY <2>1, <2>2, <2>3, <2>4
<1>12. r = Request(c)'
  BY <1>4, <1>6 DEF Request
<1> HIDE DEF r
<1>13. queue' \in Seq(Queued)
       /\ \A k \in DOMAIN queue' : \/ k \in DOMAIN queue /\ queue'[k] = queue[k]
                                   \/ k \notin DOMAIN queue /\ k = Len(queue) + 1 /\ queue'[k] = r
  BY <1>1, <1>2, <1>11, QueueMore
<1>14. ServerTypeOK'
  BY <1>1, <1>6, <1>7, <1>13 DEF ServerInv, ServerTypeOK
<1>15. FileSound' /\ NodeSound' /\ LearnersKnown'
  BY <1>1, <1>7 DEF ServerInv, FileSound, NodeSound, LearnersKnown
<1>16. ASSUME NEW k \in DOMAIN queue, queue[k].kind # "Event"
       PROVE  queue[k].call # c /\ Pending(queue[k], call'[queue[k].call]) /\ queue[k].call \in Call
  <2>1. Pending(queue[k], call[queue[k].call]) /\ queue[k] \in Queued
    BY <1>2, <1>16 DEF ServerInv, QueueSound
  <2>2. queue[k].call # c /\ queue[k].call \in Call
    BY <1>1, <1>16, <2>1 DEF Pending, Queued
  <2>3. call'[queue[k].call] = call[queue[k].call]
    BY <1>6, <2>2
  <2> QED
    BY <2>1, <2>2, <2>3
<1>17. QueueSound'
  <2>1. ASSUME NEW k \in DOMAIN queue', queue'[k].kind # "Event"
        PROVE  Pending(queue'[k], call'[queue'[k].call])
    <3>1. CASE k \in DOMAIN queue /\ queue'[k] = queue[k]
      BY <1>16, <2>1, <3>1
    <3>2. CASE queue'[k] = r
      <4>1. r = [kind |-> IF s.pc = "Start" THEN s.kind ELSE s.pc, call |-> r.call]
        BY <1>6, <1>11, <1>12 DEF Request
      <4> QED
        BY <1>1, <1>4, <1>6, <1>11, <3>2, <4>1 DEF Pending
    <3> QED
      BY <1>13, <3>1, <3>2
  <2>2. ASSUME NEW j \in DOMAIN queue', NEW k \in DOMAIN queue', queue'[j].kind # "Event",
               queue'[k].kind # "Event", queue'[j].call = queue'[k].call
        PROVE  j = k
    <3>1. CASE j \in DOMAIN queue /\ queue'[j] = queue[j]
      <4>1. k \in DOMAIN queue /\ queue'[k] = queue[k]
        BY <1>11, <1>13, <1>16, <2>2, <3>1
      <4> QED
        BY <2>2, <3>1, <4>1 DEF ServerInv, QueueSound
    <3>2. CASE j = Len(queue) + 1 /\ queue'[j] = r
      <4>1. ~ (k \in DOMAIN queue /\ queue'[k] = queue[k])
        BY <1>11, <1>16, <2>2, <3>2
      <4> QED
        BY <1>13, <3>2, <4>1
    <3> QED
      BY <1>13, <3>1, <3>2
  <2> QED
    BY <1>1, <2>1, <2>2 DEF QueueSound
<1>18. ReplySound'
  <2>1. ASSUME reply # Nil, reply.to \in Call
        PROVE  /\ call'[reply.to].asked /\ call'[reply.to].pc = "Start"
               /\ \A k \in DOMAIN queue' : queue'[k].kind # "Event" => queue'[k].call # reply.to
    <3>1. /\ call[reply.to].asked /\ call[reply.to].pc = "Start"
          /\ \A k \in DOMAIN queue : queue[k].kind # "Event" => queue[k].call # reply.to
      BY <1>1, <2>1 DEF ServerInv, ReplySound
    <3>2. reply.to # c
      BY <1>1, <3>1
    <3>3. call'[reply.to] = call[reply.to]
      BY <1>6, <2>1, <3>2
    <3> QED
      BY <1>11, <1>13, <3>1, <3>2, <3>3
  <2> QED
    BY <1>1, <2>1 DEF ServerInv, ReplySound
<1> QED
  BY <1>10, <1>14, <1>15, <1>17, <1>18 DEF ServerInv

\* A tick or a message of a peer comes in.
LEMMA ArriveSound ==
    ASSUME ServerInv, NEW token, Arrive(token)
    PROVE  ServerInv'
<1> DEFINE r == [kind |-> "Event"]
<1>1. /\ alive /\ queue' = Append(queue, r)
      /\ UNCHANGED <<node, disk, hint, effects, reply, alive, watch, clients, call, history>>
  BY DEF Arrive
<1>2. queue \in Seq(Queued) /\ r \in Queued /\ r.kind = "Event"
  BY DEF ServerInv, ServerTypeOK, Queued
<1> HIDE DEF r
<1>3. queue' \in Seq(Queued)
      /\ \A k \in DOMAIN queue' : \/ k \in DOMAIN queue /\ queue'[k] = queue[k]
                                  \/ k \notin DOMAIN queue /\ k = Len(queue) + 1 /\ queue'[k] = r
  BY <1>1, <1>2, QueueMore
<1>4. \A k \in DOMAIN queue' : queue'[k].kind # "Event" => k \in DOMAIN queue /\ queue'[k] = queue[k]
  BY <1>2, <1>3
<1>5. UNCHANGED <<decided, promise, registered>>
  BY <1>1 DEF history
<1>6. ServerTypeOK'
  BY <1>1, <1>3, <1>5 DEF ServerInv, ServerTypeOK
<1>7. FileSound' /\ NodeSound' /\ LearnersKnown' /\ CallsSound' /\ AnswerIsVouchedFor'
  BY <1>1, <1>5 DEF ServerInv, FileSound, NodeSound, LearnersKnown, CallsSound, CallSound,
                    AnswerIsVouchedFor
<1>8. QueueSound'
  BY <1>1, <1>4 DEF ServerInv, QueueSound
<1>9. ReplySound'
  BY <1>1, <1>4 DEF ServerInv, ReplySound
<1> QED
  BY <1>6, <1>7, <1>8, <1>9 DEF ServerInv

\* A handler goes on to where nothing is asked of the log.
LEMMA WaitsSound ==
    ASSUME ServerInv, NEW c \in Call, NEW s \in CallState, s.pc \in {"FirstTerm", "Wait"},
           s.answer = Nil, call' = [call EXCEPT ![c] = s]
    PROVE  Proceeds(c)
<1>1. call \in [Call -> CallState]
  BY DEF ServerInv, ServerTypeOK
<1>2. call' \in [Call -> CallState] /\ call'[c] = s /\ \A d \in Call : d # c => call'[d] = call[d]
  BY <1>1
<1>3. CallSound(c)'
  BY <1>2 DEF CallSound
<1> QED
  BY <1>2, <1>3 DEF Proceeds, OthersStay

\* The actor answers a question about the log or the results.
LEMMA ReadSound ==
    ASSUME ServerInv, Read
    PROVE  ServerInv'
<1> DEFINE r == Head(queue)
<1>1. /\ alive /\ reply = Nil /\ queue # <<>> /\ queue' = Tail(queue)
      /\ UNCHANGED <<node, disk, hint, effects, reply, alive, watch, clients, history>>
  BY DEF Read
<1>2. r.kind \in {"FirstTerm", "SecondTerm", "Result"}
  BY DEF Read
<1>3. PICK c \in Call :
         /\ c = r.call /\ Pending(r, call[c])
         /\ \A k \in DOMAIN Tail(queue) : Tail(queue)[k].kind # "Event" => Tail(queue)[k].call # c
  BY <1>1, <1>2, FrontRequest
<1>4. call \in [Call -> CallState] /\ CallSound(c) /\ call[c] \in CallState
  BY <1>3 DEF ServerInv, ServerTypeOK, CallsSound
<1>5. call[c].pc = r.kind
  <2>1. call[c].pc = "Start" => call[c].kind \in {"Propose", "ConfigChange", "AddLearner", "RemoveLearner"}
    BY <1>4, ServerAssumption DEF CallSound
  <2>2. r.kind = IF call[c].pc = "Start" THEN call[c].kind ELSE call[c].pc
    BY <1>3 DEF Pending
  <2> QED
    BY <1>2, <2>1, <2>2
<1>6. PICK i \in Nat : i = call[c].index
  BY <1>4 DEF CallState
<1>0. node \in NodeState /\ ResultsSound(node) /\ call[c].answer = Nil
  BY <1>2, <1>4, <1>5 DEF CallSound, ServerInv, ServerTypeOK, NodeSound
<1>7. DOMAIN node.results \subseteq Nat /\ \A j \in DOMAIN node.results : node.results[j] \in Item
  BY <1>0, NodeParts
<1>8. Proceeds(c)
  <2>1. CASE r.kind = "FirstTerm" /\ call' = [call EXCEPT ![c].pc = "Wait", ![c].asked = FALSE,
                                                         ![c].expected = EntryTerm(i)]
    <3> DEFINE s == [call[c] EXCEPT !.pc = "Wait", !.asked = FALSE, !.expected = EntryTerm(i)]
    <3>1. EntryTerm(i) \in Nat \cup {Nil}
      BY <1>0, <1>6, EntryTermType
    <3>2. s \in CallState /\ s.pc = "Wait" /\ s.answer = call[c].answer
      BY <1>4, <3>1 DEF CallState
    <3>3. call' = [call EXCEPT ![c] = s]
      BY <1>3, <1>4, <2>1
    <3> HIDE DEF s
    <3> QED
      BY <1>0, <3>2, <3>3, WaitsSound
  <2>2. CASE r.kind = "SecondTerm" /\ IF StillExpected(c) THEN Proceed(c, "Result")
                                                         ELSE Done(c, Indeterminate)
    <3>1. CASE StillExpected(c)
      <4>1. EntryTerm(i) # Nil /\ EntryTerm(i) = call[c].expected
        BY <1>6, <3>1 DEF StillExpected
      <4>2. i > node.boundary /\ EntryTerm(i) = EntryOf(node, i).term
        BY <1>0, <1>6, <4>1, EntryTermType
      <4>3. i \in DOMAIN node.results => node.results[i].term = call[c].expected
        BY <1>0, <1>6, <4>1, <4>2 DEF ResultsSound
      <4>4. i <= node.commit
        BY <1>4, <1>5, <1>6, <2>2 DEF CallSound
      <4>5. Proceed(c, "Result") /\ node' = node /\ call[c].pc # "Done"
        BY <1>1, <1>5, <2>2, <3>1
      <4> QED
        BY <1>3, <1>6, <4>3, <4>4, <4>5, ProceedSound
    <3>2. CASE ~ StillExpected(c)
      <4>1. Indeterminate \in Verdict /\ Indeterminate.kind # "Applied"
        BY DEF Indeterminate, Verdict
      <4> QED
        BY <1>3, <2>2, <3>2, <4>1, DoneSound
    <3> QED
      BY <3>1, <3>2
  <2>3. CASE r.kind = "Result" /\ Done(c, IF AppliedResult(i) = Nil THEN Indeterminate
                                         ELSE [kind |-> "Applied", entry |-> AppliedResult(i)])
    <3>1. PICK a : a = (IF AppliedResult(i) = Nil THEN Indeterminate
                        ELSE [kind |-> "Applied", entry |-> AppliedResult(i)])
      OBVIOUS
    <3>2. CASE AppliedResult(i) = Nil
      <4>1. a \in Verdict /\ a.kind # "Applied"
        BY <3>1, <3>2 DEF Indeterminate, Verdict
      <4> QED
        BY <1>3, <2>3, <3>1, <4>1, DoneSound
    <3>3. CASE AppliedResult(i) # Nil
      <4>1. i \in DOMAIN node.results /\ AppliedResult(i) = node.results[i]
        BY <3>3 DEF AppliedResult
      <4>2. node.results[i] \in Item /\ node.results[i].term = call[c].expected
        BY <1>4, <1>5, <1>6, <1>7, <2>3, <4>1 DEF CallSound
      <4>3. a = [kind |-> "Applied", entry |-> node.results[i]]
        BY <3>1, <3>3, <4>1
      <4>4. a \in Verdict /\ a.entry.term = call[c].expected
        BY <4>2, <4>3 DEF Verdict
      <4> QED
        BY <1>3, <2>3, <3>1, <4>4, DoneSound
    <3> QED
      BY <3>2, <3>3
  <2> QED
    BY <1>3, <1>6, <2>1, <2>2, <2>3 DEF Read
<1> HIDE DEF r
<1>9. CallsSound' /\ AnswerIsVouchedFor'
  BY <1>1, <1>3, <1>8, ProceedsSound
<1>10. UNCHANGED <<decided, promise, registered>>
  BY <1>1 DEF history
<1>11. ServerTypeOK'
  <2>1. Tail(queue) \in Seq(Queued)
    BY <1>1, QueueParts
  <2> QED
    BY <1>1, <1>8, <1>10, <2>1 DEF ServerInv, ServerTypeOK, Proceeds, OthersStay
<1>12. FileSound' /\ NodeSound' /\ LearnersKnown' /\ ReplySound'
  BY <1>1, <1>10 DEF ServerInv, FileSound, NodeSound, LearnersKnown, ReplySound
<1>13. QueueSound'
  <2>1. \A k \in DOMAIN Tail(queue) :
           k \in Nat /\ k + 1 \in DOMAIN queue /\ k + 1 # 1 /\ Tail(queue)[k] = queue[k + 1]
    BY <1>1, QueueParts
  <2>2. Tail(queue) \in Seq(Queued)
    BY <1>1, QueueParts
  <2>3. ASSUME NEW k \in DOMAIN Tail(queue), Tail(queue)[k].kind # "Event"
        PROVE  Pending(Tail(queue)[k], call'[Tail(queue)[k].call])
    <3>1. Pending(Tail(queue)[k], call[Tail(queue)[k].call])
      BY <2>1, <2>3 DEF ServerInv, QueueSound
    <3>2. Tail(queue)[k].call # c
      BY <1>3, <2>3
    <3>3. Tail(queue)[k].call \in Call
      <4>1. Tail(queue)[k] \in Queued
        BY <2>2
      <4> QED
        BY <2>3, <4>1 DEF Queued
    <3> QED
      BY <1>8, <3>1, <3>2, <3>3 DEF Proceeds, OthersStay
  <2>4. ASSUME NEW j \in DOMAIN Tail(queue), NEW k \in DOMAIN Tail(queue),
               Tail(queue)[j].kind # "Event", Tail(queue)[k].kind # "Event",
               Tail(queue)[j].call = Tail(queue)[k].call
        PROVE  j = k
    <3>1. j + 1 = k + 1
      BY <2>1, <2>4 DEF ServerInv, QueueSound
    <3> QED
      BY <2>1, <3>1
  <2> QED
    BY <1>1, <2>3, <2>4 DEF QueueSound
<1> QED
  BY <1>9, <1>11, <1>12, <1>13 DEF ServerInv

\* The caller of a request that is over goes on, and so does the actor.
LEMMA FinishedSound ==
    ASSUME ServerInv, Finish, clients' \subseteq Peer \cup registered,
           promise' \in [term : Nat, vote : Vote, upTo : Nat], Keeps(Durable(node), promise'),
           \/ UNCHANGED call
           \/ \E c \in Call : c = reply.to /\ Proceeds(c)
    PROVE  ServerInv'
<1>1. /\ alive /\ reply # Nil /\ effects = <<>> /\ watch' = node.commit /\ reply' = Nil
      /\ UNCHANGED <<node, disk, hint, queue, effects, alive, led, decided, registered>>
  BY DEF Finish
<1>2. disk = Durable(node) /\ disk \in File /\ node \in NodeState
  BY <1>1, LeadsNone DEF ServerInv, FileSound, ServerTypeOK
<1>3. node.commit \in Nat
  BY <1>2, NodeParts
<1>4. FileSound'
  <2>1. Leads(disk, <<>>, disk, promise', Telling(node, promise'))
    BY <1>2, LeadsNow
  <2> QED
    BY <1>1, <1>2, <2>1 DEF ServerInv, FileSound
<1>5. NodeSound' /\ ReplySound' /\ LearnersKnown'
  BY <1>1, <1>3 DEF ServerInv, NodeSound, ReplySound, LearnersKnown
<1>6. CASE UNCHANGED call
  <2>1. ServerTypeOK'
    BY <1>1, <1>3, <1>6 DEF ServerInv, ServerTypeOK
  <2>2. QueueSound' /\ CallsSound' /\ AnswerIsVouchedFor'
    BY <1>1, <1>6 DEF ServerInv, QueueSound, CallsSound, CallSound, AnswerIsVouchedFor
  <2> QED
    BY <1>4, <1>5, <2>1, <2>2 DEF ServerInv
<1>7. ASSUME NEW c \in Call, c = reply.to, Proceeds(c) PROVE ServerInv'
  <2>1. ServerTypeOK'
    BY <1>1, <1>3, <1>7 DEF ServerInv, ServerTypeOK, Proceeds, OthersStay
  <2>2. CallsSound' /\ AnswerIsVouchedFor'
    BY <1>1, <1>7, ProceedsSound
  <2>3. ASSUME NEW k \in DOMAIN queue, queue[k].kind # "Event"
        PROVE  Pending(queue[k], call'[queue[k].call])
    <3>1. Pending(queue[k], call[queue[k].call]) /\ queue[k].call # c
      BY <1>1, <1>7, <2>3 DEF ServerInv, QueueSound, ReplySound
    <3>2. queue[k].call \in Call
      <4>1. queue[k] \in Queued
        BY DEF ServerInv, ServerTypeOK
      <4> QED
        BY <2>3, <4>1 DEF Queued
    <3>3. call'[queue[k].call] = call[queue[k].call]
      BY <1>7, <3>1, <3>2 DEF Proceeds, OthersStay
    <3> QED
      BY <3>1, <3>3
  <2>4. QueueSound'
    BY <1>1, <2>3 DEF ServerInv, QueueSound
  <2> QED
    BY <1>4, <1>5, <2>1, <2>2, <2>4 DEF ServerInv
<1> QED
  BY <1>6, <1>7

\* What is answered to whom.
LEMMA AnswerParts ==
    ASSUME reply \in Answers, Answer(reply)
    PROVE  \/ reply.to = Nil /\ UNCHANGED <<call, promise, clients>>
           \/ /\ reply.to = Self /\ reply.acked \in Nat
              /\ promise' = Promised(reply.acked) /\ UNCHANGED <<call, clients>>
           \/ /\ reply.to \in Call /\ reply.index \in Nat /\ reply.term \in Nat
              /\ reply.before \in Nat \cup {Nil}
              /\ call' = [call EXCEPT ![reply.to].pc = "FirstTerm", ![reply.to].asked = FALSE,
                            ![reply.to].index = reply.index, ![reply.to].term = reply.term,
                            ![reply.to].before = reply.before]
              /\ UNCHANGED <<promise, clients>>
           \/ /\ reply.to \in Call /\ reply.kind = "Learner"
              /\ \E connected \in BOOLEAN :
                    AddPeer(connected) /\ Done(reply.to, [kind |-> "Learner", connected |-> connected])
              /\ UNCHANGED promise
           \/ /\ reply.to \in Call /\ Done(reply.to, [kind |-> "NotLeader", hint |-> hint])
              /\ UNCHANGED <<promise, clients>>
           \/ /\ reply.to \in Call /\ reply.kind \in {"Accepted", "Removed"}
              /\ Done(reply.to, [kind |-> reply.kind]) /\ UNCHANGED <<promise, clients>>
<1>1. Self \notin Call /\ Nil \notin Call /\ Nil # Self
  BY ServerAssumption
<1>2. CASE reply \in [to : {Nil}]
  <2>1. reply.to = Nil
    BY <1>2
  <2> QED
    BY <1>1, <2>1 DEF Answer
<1>3. CASE reply \in [to : {Self}, acked : Nat]
  <2>1. reply.to = Self /\ reply.acked \in Nat
    BY <1>3
  <2> QED
    BY <1>1, <2>1 DEF Answer
<1>4. CASE reply \in [to : Call, kind : {"Accepted"}, index : Nat, term : Nat,
                      before : Nat \cup {Nil}]
  <2>1. reply.to \in Call /\ reply.kind = "Accepted" /\ reply.index \in Nat /\ reply.term \in Nat
        /\ reply.before \in Nat \cup {Nil}
    BY <1>4
  <2> QED
    BY <1>1, <2>1 DEF Answer
<1>5. CASE reply \in [to : Call, kind : {"NotLeader", "Learner", "Removed"}]
  <2>1. reply.to \in Call /\ reply.kind \in {"NotLeader", "Learner", "Removed"}
    BY <1>5
  <2> QED
    BY <1>1, <2>1 DEF Answer
<1> QED
  BY <1>2, <1>3, <1>4, <1>5 DEF Answers

\* The request that was being handled is answered.
LEMMA FinishSound ==
    ASSUME ServerInv, Finish
    PROVE  ServerInv'
<1>1. reply \in Answers /\ reply # Nil /\ Answer(reply) /\ effects = <<>> /\ alive
  BY DEF Finish, ServerInv, ServerTypeOK
<1>2. /\ disk = Durable(node) /\ node \in NodeState /\ Keeps(Durable(node), promise)
      /\ promise \in [term : Nat, vote : Vote, upTo : Nat] /\ hint \in Peer \cup {Nil}
      /\ clients \subseteq Peer \cup registered /\ disk.learners \subseteq registered
      /\ call \in [Call -> CallState]
  BY <1>1, LeadsNone DEF ServerInv, FileSound, ServerTypeOK, LearnersKnown
<1>3. CASE reply.to = Nil /\ UNCHANGED <<call, promise, clients>>
  BY <1>2, <1>3, FinishedSound
<1>4. CASE /\ reply.to = Self /\ reply.acked \in Nat
           /\ promise' = Promised(reply.acked) /\ UNCHANGED <<call, clients>>
  <2>1. PICK acked \in Nat : acked = reply.acked
    BY <1>4
  <2>2. acked <= LastIndex(node) /\ promise' = Promised(acked)
    BY <1>1, <1>4, <2>1 DEF ServerInv, ReplySound
  <2>3. Keeps(Durable(node), promise') /\ promise' \in [term : Nat, vote : Vote, upTo : Nat]
    BY <1>2, <2>2, PromisedKept
  <2> QED
    BY <1>2, <1>4, <2>3, FinishedSound
<1>5. ASSUME NEW c \in Call, c = reply.to,
             reply.index \in Nat, reply.term \in Nat, reply.before \in Nat \cup {Nil},
             call' = [call EXCEPT ![c].pc = "FirstTerm", ![c].asked = FALSE,
                                  ![c].index = reply.index, ![c].term = reply.term,
                                  ![c].before = reply.before],
             UNCHANGED <<promise, clients>>
      PROVE  ServerInv'
  <2> DEFINE s == [call[c] EXCEPT !.pc = "FirstTerm", !.asked = FALSE, !.index = reply.index,
                                  !.term = reply.term, !.before = reply.before]
  <2>1. call[c] \in CallState /\ call[c].pc = "Start" /\ CallSound(c)
    BY <1>1, <1>2, <1>5 DEF ServerInv, ReplySound, CallsSound
  <2>2. s \in CallState /\ s.pc = "FirstTerm" /\ s.answer = call[c].answer
    BY <1>5, <2>1 DEF CallState
  <2>3. call' = [call EXCEPT ![c] = s]
    BY <1>2, <1>5
  <2>4. call[c].answer = Nil
    BY <2>1 DEF CallSound
  <2> HIDE DEF s
  <2>5. Proceeds(c)
    BY <2>2, <2>3, <2>4, WaitsSound
  <2> QED
    BY <1>2, <1>5, <2>5, FinishedSound
<1>6. ASSUME NEW c \in Call, c = reply.to, reply.kind = "Learner", NEW connected \in BOOLEAN,
             AddPeer(connected), Done(c, [kind |-> "Learner", connected |-> connected]),
             UNCHANGED promise
      PROVE  ServerInv'
  <2> DEFINE a == [kind |-> "Learner", connected |-> connected]
  <2>1. a \in Verdict /\ a.kind # "Applied"
    BY DEF Verdict
  <2>2. Proceeds(c)
    BY <1>6, <2>1, DoneSound
  <2>3. Learner \in disk.learners
    BY <1>1, <1>2, <1>6 DEF ServerInv, ReplySound, Durable
  <2>4. clients' \subseteq Peer \cup registered
    BY <1>2, <1>6, <2>3 DEF AddPeer
  <2> QED
    BY <1>2, <1>6, <2>2, <2>4, FinishedSound
<1>7. ASSUME NEW c \in Call, c = reply.to, NEW a \in Verdict, a.kind # "Applied", Done(c, a),
             UNCHANGED <<promise, clients>>
      PROVE  ServerInv'
  <2>1. Proceeds(c)
    BY <1>7, DoneSound
  <2> QED
    BY <1>2, <1>7, <2>1, FinishedSound
<1>8. /\ [kind |-> "NotLeader", hint |-> hint] \in Verdict
      /\ [kind |-> "NotLeader", hint |-> hint].kind # "Applied"
  BY <1>2 DEF Verdict
<1>9. ASSUME NEW kind \in {"Accepted", "Removed"}
      PROVE  [kind |-> kind] \in Verdict /\ [kind |-> kind].kind # "Applied"
  BY DEF Verdict
<1>10. CASE reply.to \notin Call
  BY <1>1, <1>3, <1>4, <1>10, AnswerParts
<1>11. CASE reply.to \in Call
  <2>1. PICK c \in Call : c = reply.to
    BY <1>11
  <2>2. c # Nil /\ c # Self
    BY ServerAssumption
  <2> QED
    BY <1>1, <1>5, <1>6, <1>7, <1>8, <1>9, <2>1, <2>2, AnswerParts
<1> QED
  BY <1>10, <1>11

-----------------------------------------------------------------------------
(* Failures *)

\* The actor's task is gone, with the requests it had in its channel.
LEMMA PanicSound ==
    ASSUME ServerInv, Panic
    PROVE  ServerInv'
<1>1. /\ alive' = FALSE /\ queue' = <<>>
      /\ UNCHANGED <<node, disk, hint, effects, reply, watch, clients, call, history>>
  BY DEF Panic
<1>2. UNCHANGED <<decided, promise, registered>>
  BY <1>1 DEF history
<1>3. <<>> \in Seq(Queued) /\ DOMAIN <<>> = {}
  OBVIOUS
<1>4. ServerTypeOK'
  BY <1>1, <1>2, <1>3 DEF ServerInv, ServerTypeOK
<1>5. FileSound' /\ NodeSound' /\ CallsSound' /\ AnswerIsVouchedFor' /\ LearnersKnown'
  BY <1>1, <1>2 DEF ServerInv, FileSound, NodeSound, CallsSound, CallSound, AnswerIsVouchedFor,
                    LearnersKnown
<1>6. QueueSound' /\ ReplySound'
  BY <1>1, <1>3 DEF ServerInv, QueueSound, ReplySound
<1> QED
  BY <1>4, <1>5, <1>6 DEF ServerInv

\* What a file becomes in memory is that file.
LEMMA RecoveredSound ==
    ASSUME NEW d \in File
    PROVE  /\ Recovered(d) \in NodeState /\ Durable(Recovered(d)) = d
           /\ Bounds(Recovered(d)) /\ ResultsSound(Recovered(d))
           /\ Recovered(d).commit = d.boundary /\ Recovered(d).boundary = d.boundary
           /\ Recovered(d).results = <<>> /\ Recovered(d).learners = d.learners
<1> DEFINE n == Recovered(d)
<1>1. /\ d.term \in Nat /\ d.vote \in Vote /\ d.log \in Seq(Item) /\ d.boundary \in Nat
      /\ d.base \in Membership /\ d.learners \in SUBSET {Learner}
  BY DEF File
<1>2. <<>> \in UNION {[S -> Item] : S \in SUBSET Nat} /\ DOMAIN <<>> = {}
  <2>1. <<>> \in [{} -> Item] /\ {} \in SUBSET Nat
    OBVIOUS
  <2> QED
    BY <2>1
<1>3. /\ n.role = "Follower" /\ n.term = d.term /\ n.vote = d.vote /\ n.log = d.log
      /\ n.boundary = d.boundary /\ n.commit = d.boundary /\ n.results = <<>>
      /\ n.base = d.base /\ n.learners = d.learners
  BY DEF Recovered
<1>4. n \in NodeState
  BY <1>1, <1>2 DEF Recovered, NodeState
<1>5. Durable(n) = d
  <2>1. Durable(n) = [term |-> d.term, vote |-> d.vote, log |-> d.log, boundary |-> d.boundary,
                      base |-> d.base, learners |-> d.learners]
    BY <1>3 DEF Durable
  <2> QED
    BY <2>1 DEF File
<1>6. Len(d.log) \in Nat
  BY <1>1
<1>7. Bounds(n)
  BY <1>1, <1>3, <1>6 DEF Bounds, LastIndex
<1>8. ResultsSound(n)
  BY <1>2, <1>3 DEF ResultsSound
<1> QED
  BY <1>3, <1>4, <1>5, <1>7, <1>8

\* The process starts from whatever file it left.
LEMMA CrashSound ==
    ASSUME ServerInv, CrashAndRestart
    PROVE  ServerInv'
<1> DEFINE lost == [kind |-> "Lost"]
           rest(c) == [call[c] EXCEPT !.pc = "Done", !.kind = Nil, !.asked = FALSE, !.answer = lost]
<1>1. /\ node' = Recovered(disk) /\ hint' = Nil
      /\ queue' = <<>> /\ effects' = <<>> /\ reply' = Nil /\ alive' = TRUE /\ watch' = 0
      /\ clients' = Peer /\ UNCHANGED <<disk, decided, promise, registered>>
      /\ call' = [c \in Call |-> IF call[c].pc \in {"Unmade", "Done"} THEN call[c] ELSE rest(c)]
  BY DEF CrashAndRestart, ConfiguredClients, history
<1>2. disk \in File /\ Keeps(disk, promise) /\ disk.boundary \in Nat
  <2>1. disk \in File /\ Keeps(disk, promise)
    BY LeadsEnd DEF ServerInv, FileSound, ServerTypeOK
  <2> QED
    BY <2>1 DEF File
<1>3. /\ node' \in NodeState /\ Durable(node') = disk /\ Bounds(node') /\ ResultsSound(node')
      /\ node'.commit = disk.boundary /\ node'.boundary = disk.boundary /\ node'.results = <<>>
  BY <1>1, <1>2, RecoveredSound
<1>4. <<>> \in Seq(Queued) /\ <<>> \in Seq(Effect) /\ DOMAIN <<>> = {}
  OBVIOUS
<1>5. ASSUME NEW c \in Call
      PROVE  /\ call'[c] \in CallState /\ call'[c].pc \in {"Unmade", "Done"}
             /\ call'[c].answer # Nil => call'[c].pc = "Done"
             /\ call'[c].answer # Nil /\ call'[c].answer.kind = "Applied" =>
                   call'[c].answer.entry.term = call'[c].expected
  <2>1. call[c] \in CallState /\ CallSound(c)
    BY DEF ServerInv, ServerTypeOK, CallsSound
  <2>2. CASE call[c].pc \in {"Unmade", "Done"}
    <3>1. call'[c] = call[c]
      BY <1>1, <2>2
    <3> QED
      BY <2>1, <2>2, <3>1 DEF CallSound, ServerInv, AnswerIsVouchedFor
  <2>3. CASE call[c].pc \notin {"Unmade", "Done"}
    <3>1. call'[c] = rest(c)
      BY <1>1, <2>3
    <3>2. lost \in Verdict /\ lost.kind # "Applied"
      BY DEF Verdict
    <3>3. rest(c) \in CallState /\ rest(c).pc = "Done" /\ rest(c).answer = lost
      BY <2>1, <3>2 DEF CallState
    <3> HIDE DEF rest, lost
    <3> QED
      BY <3>1, <3>2, <3>3
  <2> QED
    BY <2>2, <2>3
<1>6. call' \in [Call -> CallState]
  <2>1. DOMAIN call' = Call /\ call' = [c \in Call |-> call'[c]]
    BY <1>1
  <2> QED
    BY <1>5, <2>1
<1>7. ServerTypeOK'
  BY <1>1, <1>3, <1>4, <1>6 DEF ServerInv, ServerTypeOK
<1>8. FileSound'
  <2>1. Leads(disk, <<>>, disk, promise, Telling(node', promise))
    BY <1>2, LeadsNow
  <2> QED
    BY <1>1, <1>3, <2>1 DEF FileSound
<1>9. NodeSound'
  <2>1. \A a, t \in Nat : t # 0 => a - a < t /\ 0 <= a
    OBVIOUS
  <2>2. watch' = 0
    BY <1>1
  <2>3. node'.commit - node'.boundary < Threshold /\ watch' <= node'.commit
    BY <1>2, <1>3, <2>1, <2>2, ServerAssumption
  <2>4. node'.commit <= node'.boundary
    BY <1>2, <1>3
  <2> QED
    BY <1>3, <2>3, <2>4 DEF NodeSound
<1>10. QueueSound' /\ ReplySound'
  BY <1>1, <1>4 DEF QueueSound, ReplySound
<1>11. CallsSound' /\ AnswerIsVouchedFor'
  BY <1>5 DEF CallsSound, CallSound, AnswerIsVouchedFor
<1>12. LearnersKnown'
  BY <1>1 DEF ServerInv, LearnersKnown
<1> QED
  BY <1>7, <1>8, <1>9, <1>10, <1>11, <1>12 DEF ServerInv

-----------------------------------------------------------------------------
(* Theorems *)

\* A new process, with a new file.
LEMMA InitSound ==
    ASSUME ServerInit
    PROVE  ServerInv
<1>1. /\ node = Recovered(FreshFile) /\ disk = FreshFile /\ hint = Nil
      /\ queue = <<>> /\ effects = <<>> /\ reply = Nil /\ alive = TRUE /\ watch = 0
      /\ clients = Peer /\ call = [c \in Call |-> NewCall] /\ decided = 0 /\ registered = {}
      /\ promise = [term |-> 0, vote |-> Nil, upTo |-> 0]
  BY DEF ServerInit, ConfiguredClients
<1>2. /\ disk \in File /\ disk.boundary = 0 /\ disk.term = 0 /\ disk.learners = {}
      /\ disk.log = <<>>
  <2>1. <<>> \in Seq(Item)
    OBVIOUS
  <2> QED
    BY <1>1, <2>1 DEF FreshFile, File, Vote, Genesis, Membership
<1>3. promise \in [term : Nat, vote : Vote, upTo : Nat] /\ Keeps(disk, promise)
  <2>1. Len(<<>>) = 0
    OBVIOUS
  <2> QED
    BY <1>1, <1>2, <2>1 DEF Keeps, LastIndex, Vote
<1>4. /\ node \in NodeState /\ Durable(node) = disk /\ Bounds(node) /\ ResultsSound(node)
      /\ node.commit = 0 /\ node.boundary = 0 /\ node.results = <<>>
  BY <1>1, <1>2, RecoveredSound
<1>5. <<>> \in Seq(Queued) /\ <<>> \in Seq(Effect) /\ DOMAIN <<>> = {}
  OBVIOUS
<1>6. NewCall \in CallState /\ NewCall.pc = "Unmade" /\ NewCall.answer = Nil
  BY DEF NewCall, CallState
<1>7. \A c \in Call : call[c] = NewCall
  BY <1>1
<1>8. ServerTypeOK
  BY <1>1, <1>2, <1>3, <1>4, <1>5, <1>6 DEF ServerTypeOK
<1>9. FileSound
  <2>1. Leads(disk, <<>>, disk, promise, Telling(node, promise))
    BY <1>2, <1>3, LeadsNow
  <2> QED
    BY <1>1, <1>4, <2>1 DEF FileSound
<1>10. NodeSound
  BY <1>1, <1>4, ServerAssumption DEF NodeSound
<1>11. QueueSound /\ ReplySound
  BY <1>1, <1>5 DEF QueueSound, ReplySound
<1>12. CallsSound /\ AnswerIsVouchedFor
  BY <1>6, <1>7 DEF CallsSound, CallSound, AnswerIsVouchedFor
<1>13. LearnersKnown
  BY <1>1, <1>2 DEF LearnersKnown
<1> QED
  BY <1>8, <1>9, <1>10, <1>11, <1>12, <1>13 DEF ServerInv

\* Every step, wherever the process fails.
LEMMA StepSound ==
    ASSUME ServerInv, [Running \/ Panic \/ CrashAndRestart]_serverVars
    PROVE  ServerInv'
<1>1. CASE Running
  <2>1. ASSUME NEW c \in Call, NEW kind \in Kinds, Make(c, kind) PROVE ServerInv'
    BY <2>1, MakeSound
  <2>2. ASSUME NEW c \in Call, Ask(c) PROVE ServerInv'
    BY <2>2, AskSound
  <2>3. ASSUME NEW c \in Call, WaitForApplied(c) PROVE ServerInv'
    BY <2>3, WaitForAppliedSound
  <2>4. ASSUME NEW c \in Call, Timeout(c) PROVE ServerInv'
    BY <2>4, TimeoutSound
  <2>5. ASSUME NEW c \in Call, Unanswered(c) PROVE ServerInv'
    BY <2>5, UnansweredSound
  <2>6. ASSUME NEW token \in {Token, Nil}, Arrive(token) PROVE ServerInv'
    BY <2>6, ArriveSound
  <2> QED
    BY <1>1, <2>1, <2>2, <2>3, <2>4, <2>5, <2>6, TakeSound, DispatchSound, FinishSound, ReadSound
       DEF Running
<1>2. CASE UNCHANGED serverVars
  <2>1. /\ UNCHANGED <<node, disk, hint, queue, effects, reply, alive, watch, clients, call>>
        /\ UNCHANGED <<decided, promise, registered>>
    BY <1>2 DEF serverVars, actorVars, history
  <2>2. ServerTypeOK'
    BY <2>1 DEF ServerInv, ServerTypeOK
  <2>3. FileSound' /\ NodeSound' /\ QueueSound' /\ ReplySound'
    BY <2>1 DEF ServerInv, FileSound, NodeSound, QueueSound, ReplySound
  <2>4. CallsSound' /\ AnswerIsVouchedFor' /\ LearnersKnown'
    BY <2>1 DEF ServerInv, CallsSound, CallSound, AnswerIsVouchedFor, LearnersKnown
  <2> QED
    BY <2>2, <2>3, <2>4 DEF ServerInv
<1> QED
  BY <1>1, <1>2, PanicSound, CrashSound

\* What the inductive invariant says of the properties that are checked.
LEMMA ServerInvImplies ==
    ASSUME ServerInv
    PROVE  PromisesSurvive /\ AnswerIsVouchedFor /\ TailBounded /\ ReachableIsRegistered
<1>1. PromisesSurvive
  <2>1. Keeps(disk, promise)
    BY LeadsEnd DEF ServerInv, FileSound, ServerTypeOK
  <2> QED
    BY <2>1 DEF Keeps, PromisesSurvive
<1>2. TailBounded
  <2>1. node.commit \in Nat /\ node.boundary \in Nat /\ Threshold \in Nat
    BY NodeParts, ServerAssumption DEF ServerInv, ServerTypeOK
  <2>2. node.boundary <= node.commit /\ node.commit - node.boundary < Threshold
    BY DEF ServerInv, NodeSound, Bounds
  <2>3. \A a, b, t \in Nat : b <= a /\ a - b < t => a - b \in 0 .. t - 1
    OBVIOUS
  <2> QED
    BY <2>1, <2>2, <2>3 DEF TailBounded
<1>3. ReachableIsRegistered
  BY DEF ServerInv, LearnersKnown, ReachableIsRegistered
<1> QED
  BY <1>1, <1>2, <1>3 DEF ServerInv

\* The invariant, even of a process that fails between the two writes of a
\* snapshot: dispatch writes the effects of a request in their order.
THEOREM TornInvariant == TornSpec => []ServerInv
  BY InitSound, StepSound, PTL DEF TornSpec

\* A process that fails anywhere else is one that fails anywhere.
LEMMA ServerIsTorn == ServerSpec => TornSpec
<1>1. [ServerNext]_serverVars => [Running \/ Panic \/ CrashAndRestart]_serverVars
  BY DEF ServerNext
<1> QED
  BY <1>1, PTL DEF ServerSpec, TornSpec

\* Nothing this process has told a peer is taken back by a crash: dispatch and
\* handle_peer_request write before they send.
THEOREM PromisesAreKept == ServerSpec => []PromisesSurvive
  BY ServerInvImplies, TornInvariant, ServerIsTorn, PTL

\* An applied answer is the result of an entry of the term that propose read:
\* it reads the term at the index again before it takes the result there.
THEOREM AnswersAreVouchedFor == ServerSpec => []AnswerIsVouchedFor
  BY ServerInvImplies, TornInvariant, ServerIsTorn, PTL

\* maybe_compact, which runs at the end of every request, keeps up.
THEOREM TailsAreBounded == ServerSpec => []TailBounded
  BY ServerInvImplies, TornInvariant, ServerIsTorn, PTL

\* The actor persists a learner before add_learner connects the transport to it.
THEOREM OnlyRegisteredAreReached == ServerSpec => []ReachableIsRegistered
  BY ServerInvImplies, TornInvariant, ServerIsTorn, PTL

=============================================================================
